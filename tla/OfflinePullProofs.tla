------------------------- MODULE OfflinePullProofs -------------------------
(***************************************************************************)
(* Proofs about OfflinePull for every set of conversations and connections,*)
(* every limit and all bounds: type correctness, that a client that reads  *)
(* page by page misses nothing and is given nothing twice, and what the    *)
(* server's cursor can pass over.                                          *)
(***************************************************************************)
EXTENDS OfflinePull, TLAPS, FiniteSetTheorems, WellFoundedInduction

-----------------------------------------------------------------------------
(* The order of the messages.                                              *)

(* A set of natural numbers that is not empty has a least one.             *)
LEMMA Least ==
  ASSUME NEW S \in SUBSET Nat, S # {}
  PROVE  \E x \in S : \A y \in S : x <= y
<1> DEFINE R == OpToRel(<, Nat)
<1>1. IsWellFoundedOn(R, Nat)
  BY NatLessThanWellFounded
<1>2. ASSUME NEW x \in Nat, NEW y \in Nat, <<x, y>> \notin R PROVE y <= x
  BY <1>2 DEF OpToRel
<1> HIDE DEF R
<1>3. PICK x \in S : \A y \in S : <<y, x>> \notin R
  BY <1>1, WFMin
<1>4. ASSUME NEW y \in S PROVE x <= y
  <2>1. x \in Nat /\ y \in Nat /\ <<y, x>> \notin R
    BY <1>3
  <2>2. QED
    BY <1>2, <2>1
<1>5. QED
  BY <1>4

(* One that has an upper bound has a greatest one.                         *)
LEMMA Greatest ==
  ASSUME NEW N \in Nat, NEW S, S \subseteq 0..N, S # {}
  PROVE  \E x \in S : \A y \in S : y <= x
<1> DEFINE T == {t \in 0..N : N - t \in S}
<1>1. T \in SUBSET Nat /\ T # {}
  <2>1. PICK x \in S : TRUE
    OBVIOUS
  <2>2. x \in 0..N
    OBVIOUS
  <2>3. N - x \in 0..N /\ N - (N - x) = x
    BY <2>2
  <2>4. N - x \in T
    BY <2>3
  <2>5. T \subseteq 0..N /\ 0..N \subseteq Nat
    OBVIOUS
  <2>6. QED
    BY <2>4, <2>5
<1> HIDE DEF T
<1>2. PICK t \in T : \A y \in T : t <= y
  BY <1>1, Least
<1>3. t \in 0..N /\ N - t \in S
  BY DEF T
<1>4. ASSUME NEW y \in S PROVE y <= N - t
  <2>1. y \in 0..N
    OBVIOUS
  <2>2. N - y \in 0..N /\ N - (N - y) = y
    BY <2>1
  <2>3. N - y \in T
    BY <2>2 DEF T
  <2>4. t <= N - y
    BY <1>2, <2>3
  <2>5. QED
    BY <1>3, <2>1, <2>4
<1>5. QED
  BY <1>3, <1>4

(* The parts of a message that the order needs.                            *)
LEMMA MessageParts ==
  ASSUME TypeOK
  PROVE  /\ IsFiniteSet(Ids) /\ Ids \subseteq Nat /\ Len(rows) \in Nat
         /\ Ids \subseteq 0..Len(rows) /\ MaxTS[kind] \in Nat
         /\ \A m \in Ids : TS(m) \in 1..MaxTS[kind] /\ rows[m].conv \in Convs
<1>1. Len(rows) \in Nat /\ Ids \subseteq Nat /\ Ids \subseteq 0..Len(rows)
  BY DEF TypeOK, Ids
<1>2. IsFiniteSet(Ids)
  BY <1>1, FS_Interval DEF Ids
<1>3. MaxTS[kind] \in Nat
  BY PullAssumption DEF TypeOK
<1>4. ASSUME NEW m \in Ids PROVE TS(m) \in 1..MaxTS[kind] /\ rows[m].conv \in Convs
  <2> DEFINE Row == [conv : Convs, ts : 1..MaxTS[kind]]
  <2>1. rows \in Seq(Row) /\ m \in 1..Len(rows)
    BY DEF TypeOK, Ids
  <2> HIDE DEF Row
  <2>2. rows[m] \in Row
    BY <2>1
  <2>3. QED
    BY <2>2 DEF TS, Row
<1>5. QED
  BY <1>1, <1>2, <1>3, <1>4

(* Before is a strict and total order.                                     *)
LEMMA Order ==
  ASSUME TypeOK, NEW m \in Ids, NEW n \in Ids
  PROVE  /\ ~Before(m, m)
         /\ ~(Before(m, n) /\ Before(n, m))
         /\ m = n \/ Before(m, n) \/ Before(n, m)
         /\ \A p \in Ids : Before(m, n) /\ Before(n, p) => Before(m, p)
<1>1. m \in Nat /\ n \in Nat /\ TS(m) \in Nat /\ TS(n) \in Nat
  BY MessageParts
<1>2. ASSUME NEW p \in Ids, Before(m, n), Before(n, p) PROVE Before(m, p)
  <2>1. p \in Nat /\ TS(p) \in Nat
    BY MessageParts
  <2>2. QED
    BY <1>1, <1>2, <2>1 DEF Before
<1>3. QED
  BY <1>1, <1>2 DEF Before

(* Messages that are not none have a last one among them.                  *)
LEMMA HasLast ==
  ASSUME TypeOK, NEW S, S \subseteq Ids, S # {}
  PROVE  LastOf(S) \in S /\ \A n \in S : n = LastOf(S) \/ Before(n, LastOf(S))
<1>1. PICK t \in {TS(m) : m \in S} : \A u \in {TS(m) : m \in S} : u <= t
  <2> DEFINE Times == {TS(m) : m \in S}
  <2>1. Times \subseteq 0..MaxTS[kind] /\ Times # {} /\ MaxTS[kind] \in Nat
    BY MessageParts
  <2> HIDE DEF Times
  <2>2. \E t \in Times : \A u \in Times : u <= t
    BY <2>1, Greatest
  <2>3. QED
    BY <2>2 DEF Times
<1>2. PICK m \in {n \in S : TS(n) = t} : \A n \in {p \in S : TS(p) = t} : n <= m
  <2> DEFINE Latest == {n \in S : TS(n) = t}
  <2>1. Latest \subseteq 0..Len(rows) /\ Latest # {} /\ Len(rows) \in Nat
    BY <1>1, MessageParts
  <2> HIDE DEF Latest
  <2>2. \E m \in Latest : \A n \in Latest : n <= m
    BY <2>1, Greatest
  <2>3. QED
    BY <2>2 DEF Latest
<1>3. ASSUME NEW n \in S PROVE n = m \/ Before(n, m)
  <2>1. n \in Nat /\ m \in Nat /\ TS(n) \in Nat /\ TS(m) = t /\ t \in Nat
    BY <1>2, MessageParts
  <2>2. TS(n) <= t /\ (TS(n) = t => n <= m)
    BY <1>1, <1>2
  <2>3. QED
    BY <2>1, <2>2 DEF Before
<1>4. QED
  BY <1>2, <1>3 DEF LastOf

(* And a first one.                                                        *)
LEMMA HasFirst ==
  ASSUME TypeOK, NEW S, S \subseteq Ids, S # {}
  PROVE  \E m \in S : \A n \in S : n = m \/ Before(m, n)
<1>1. PICK t \in {TS(m) : m \in S} : \A u \in {TS(m) : m \in S} : t <= u
  <2> DEFINE Times == {TS(m) : m \in S}
  <2>1. Times \in SUBSET Nat /\ Times # {}
    BY MessageParts
  <2> HIDE DEF Times
  <2>2. \E t \in Times : \A u \in Times : t <= u
    BY <2>1, Least
  <2>3. QED
    BY <2>2 DEF Times
<1>2. PICK m \in {n \in S : TS(n) = t} : \A n \in {p \in S : TS(p) = t} : m <= n
  <2> DEFINE Earliest == {n \in S : TS(n) = t}
  <2>1. Earliest \in SUBSET Nat /\ Earliest # {}
    BY <1>1, MessageParts
  <2> HIDE DEF Earliest
  <2>2. \E m \in Earliest : \A n \in Earliest : m <= n
    BY <2>1, Least
  <2>3. QED
    BY <2>2 DEF Earliest
<1>3. ASSUME NEW n \in S PROVE n = m \/ Before(m, n)
  <2>1. n \in Nat /\ m \in Nat /\ TS(n) \in Nat /\ TS(m) = t /\ t \in Nat
    BY <1>2, MessageParts
  <2>2. t <= TS(n) /\ (TS(n) = t => m <= n)
    BY <1>1, <1>2
  <2>3. QED
    BY <2>1, <2>2 DEF Before
<1>4. QED
  BY <1>2, <1>3

-----------------------------------------------------------------------------
(* Pages.                                                                  *)

(* What comes before one of the first ones is one of them, and there are   *)
(* as many of them as were asked for, or all.                              *)
LEMMA FirstPage ==
  ASSUME TypeOK, NEW S, S \subseteq Ids, NEW k \in Nat \ {0}
  PROVE  /\ First(k, S) \subseteq S
         /\ \A m \in S, n \in First(k, S) : Before(m, n) => m \in First(k, S)
         /\ Cardinality(First(k, S)) <= k
         /\ Cardinality(First(k, S)) # k => First(k, S) = S
<1> DEFINE Ahead(m) == {n \in S : Before(n, m)}
<1>0. First(k, S) \subseteq S /\ IsFiniteSet(S) /\ IsFiniteSet(First(k, S))
      /\ \A m : IsFiniteSet(Ahead(m)) /\ Cardinality(Ahead(m)) \in Nat
  <2>1. IsFiniteSet(S)
    BY MessageParts, FS_Subset
  <2>2. First(k, S) \subseteq S
    BY DEF First
  <2>3. QED
    BY <2>1, <2>2, FS_Subset, FS_CardinalityType
<1>1. ASSUME NEW m \in S, NEW n \in First(k, S), Before(m, n) PROVE m \in First(k, S)
  <2>1. Ahead(m) \subseteq Ahead(n)
    BY <1>0, <1>1, Order
  <2>2. Cardinality(Ahead(n)) < k
    BY DEF First
  <2>3. Cardinality(Ahead(m)) <= Cardinality(Ahead(n))
    BY <1>0, <2>1, FS_Subset
  <2>4. Cardinality(Ahead(m)) \in Nat /\ Cardinality(Ahead(n)) \in Nat
    BY <1>0
  <2>5. Cardinality(Ahead(m)) < k
    BY <2>2, <2>3, <2>4
  <2>6. QED
    BY <2>5 DEF First
<1>2. Cardinality(First(k, S)) <= k
  <2>1. CASE First(k, S) = {}
    BY <2>1, FS_EmptySet
  <2>2. CASE First(k, S) # {}
    <3> DEFINE l == LastOf(First(k, S))
    <3>1. l \in First(k, S) /\ \A n \in First(k, S) : n = l \/ Before(n, l)
      BY <1>0, <2>2, HasLast
    <3> HIDE DEF l
    <3>2. First(k, S) \subseteq Ahead(l) \cup {l}
      BY <1>0, <3>1
    <3>3. l \notin Ahead(l)
      BY <1>0, <3>1, Order
    <3>4. IsFiniteSet(Ahead(l)) /\ Cardinality(Ahead(l)) \in Nat
      BY <1>0
    <3>5. Cardinality(Ahead(l)) < k
      BY <3>1 DEF First
    <3> HIDE DEF Ahead
    <3>a. /\ Cardinality(Ahead(l) \cup {l}) = Cardinality(Ahead(l)) + 1
          /\ IsFiniteSet(Ahead(l) \cup {l})
      BY <3>3, <3>4, FS_AddElement
    <3>6. Cardinality(First(k, S)) <= Cardinality(Ahead(l) \cup {l})
      BY <3>2, <3>a, FS_Subset
    <3>7. Cardinality(First(k, S)) \in Nat
      BY <1>0, FS_CardinalityType
    <3>8. QED
      BY <3>4, <3>a, <3>5, <3>6, <3>7
  <2>3. QED
    BY <2>1, <2>2
<1>3. ASSUME First(k, S) # S PROVE Cardinality(First(k, S)) = k
  <2>1. S \ First(k, S) # {} /\ S \ First(k, S) \subseteq Ids
    BY <1>0, <1>3
  <2>2. PICK m \in S \ First(k, S) : \A n \in S \ First(k, S) : n = m \/ Before(m, n)
    BY <2>1, HasFirst
  <2>3. Ahead(m) \subseteq First(k, S)
    BY <2>1, <2>2, Order
  <2>4. ~(Cardinality(Ahead(m)) < k)
    BY <2>2 DEF First
  <2>5. Cardinality(Ahead(m)) <= Cardinality(First(k, S)) /\ Cardinality(First(k, S)) \in Nat
    BY <1>0, <2>3, FS_Subset, FS_CardinalityType
  <2>6. QED
    BY <1>0, <1>2, <2>4, <2>5
<1>4. QED
  BY <1>0, <1>1, <1>2, <1>3

(* The same of the newest ones and what comes after.                       *)
LEMMA NewestPage ==
  ASSUME TypeOK, NEW S, S \subseteq Ids, NEW k \in Nat \ {0}
  PROVE  /\ Newest(k, S) \subseteq S
         /\ \A m \in S, n \in Newest(k, S) : Before(n, m) => m \in Newest(k, S)
         /\ Cardinality(Newest(k, S)) <= k
         /\ Cardinality(Newest(k, S)) # k => Newest(k, S) = S
<1> DEFINE Behind(m) == {n \in S : Before(m, n)}
<1>0. Newest(k, S) \subseteq S /\ IsFiniteSet(S) /\ IsFiniteSet(Newest(k, S))
      /\ \A m : IsFiniteSet(Behind(m)) /\ Cardinality(Behind(m)) \in Nat
  <2>1. IsFiniteSet(S)
    BY MessageParts, FS_Subset
  <2>2. Newest(k, S) \subseteq S
    BY DEF Newest
  <2>3. QED
    BY <2>1, <2>2, FS_Subset, FS_CardinalityType
<1>1. ASSUME NEW m \in S, NEW n \in Newest(k, S), Before(n, m) PROVE m \in Newest(k, S)
  <2>1. Behind(m) \subseteq Behind(n)
    BY <1>0, <1>1, Order
  <2>2. Cardinality(Behind(n)) < k
    BY DEF Newest
  <2>3. Cardinality(Behind(m)) <= Cardinality(Behind(n))
    BY <1>0, <2>1, FS_Subset
  <2>4. Cardinality(Behind(m)) \in Nat /\ Cardinality(Behind(n)) \in Nat
    BY <1>0
  <2>5. Cardinality(Behind(m)) < k
    BY <2>2, <2>3, <2>4
  <2>6. QED
    BY <2>5 DEF Newest
<1>2. Cardinality(Newest(k, S)) <= k
  <2>1. CASE Newest(k, S) = {}
    BY <2>1, FS_EmptySet
  <2>2. CASE Newest(k, S) # {}
    <3>1. PICK l \in Newest(k, S) : \A n \in Newest(k, S) : n = l \/ Before(l, n)
      BY <1>0, <2>2, HasFirst
    <3>2. Newest(k, S) \subseteq Behind(l) \cup {l}
      BY <1>0, <3>1
    <3>3. l \notin Behind(l)
      BY <1>0, <3>1, Order
    <3>4. IsFiniteSet(Behind(l)) /\ Cardinality(Behind(l)) \in Nat
      BY <1>0
    <3>5. Cardinality(Behind(l)) < k
      BY <3>1 DEF Newest
    <3> HIDE DEF Behind
    <3>a. /\ Cardinality(Behind(l) \cup {l}) = Cardinality(Behind(l)) + 1
          /\ IsFiniteSet(Behind(l) \cup {l})
      BY <3>3, <3>4, FS_AddElement
    <3>6. Cardinality(Newest(k, S)) <= Cardinality(Behind(l) \cup {l})
      BY <3>2, <3>a, FS_Subset
    <3>7. Cardinality(Newest(k, S)) \in Nat
      BY <1>0, FS_CardinalityType
    <3>8. QED
      BY <3>4, <3>a, <3>5, <3>6, <3>7
  <2>3. QED
    BY <2>1, <2>2
<1>3. ASSUME Newest(k, S) # S PROVE Cardinality(Newest(k, S)) = k
  <2>1. S \ Newest(k, S) # {} /\ S \ Newest(k, S) \subseteq Ids
    BY <1>0, <1>3
  <2>2. PICK m \in S \ Newest(k, S) : \A n \in S \ Newest(k, S) : n = m \/ Before(n, m)
    BY <2>1, HasLast
  <2>3. Behind(m) \subseteq Newest(k, S)
    BY <2>1, <2>2, Order
  <2>4. ~(Cardinality(Behind(m)) < k)
    BY <2>2 DEF Newest
  <2>5. Cardinality(Behind(m)) <= Cardinality(Newest(k, S)) /\ Cardinality(Newest(k, S)) \in Nat
    BY <1>0, <2>3, FS_Subset, FS_CardinalityType
  <2>6. QED
    BY <1>0, <1>2, <2>4, <2>5
<1>4. QED
  BY <1>0, <1>1, <1>2, <1>3

(* A page of the history is what was found, without its newest message if  *)
(* that is more than was asked for.                                        *)
LEMMA HistoryPage ==
  ASSUME TypeOK, NEW found, found \subseteq Ids, NEW k \in Nat \ {0},
         Cardinality(found) = k + 1
  PROVE  First(k, found) = found \ {LastOf(found)} /\ Cardinality(First(k, found)) = k
<1> DEFINE l == LastOf(found)
<1>0. IsFiniteSet(found) /\ found # {}
  BY MessageParts, FS_Subset, FS_EmptySet
<1>1. l \in found /\ \A n \in found : n = l \/ Before(n, l)
  BY <1>0, HasLast
<1> HIDE DEF l
<1>2. IsFiniteSet(found \ {l}) /\ Cardinality(found \ {l}) = k
  BY <1>0, <1>1, FS_RemoveElement
<1>3. l \notin First(k, found)
  <2>1. {n \in found : Before(n, l)} = found \ {l}
    BY <1>1, Order
  <2>2. QED
    BY <1>2, <2>1 DEF First
<1>4. ASSUME NEW m \in found \ {l} PROVE m \in First(k, found)
  <2> DEFINE A == {n \in found : Before(n, m)}
  <2>1. A \subseteq (found \ {l}) \ {m}
    BY <1>1, Order
  <2>2. IsFiniteSet((found \ {l}) \ {m}) /\ Cardinality((found \ {l}) \ {m}) = k - 1
    BY <1>2, FS_RemoveElement
  <2>3. Cardinality(A) <= k - 1 /\ Cardinality(A) \in Nat
    <3> HIDE DEF A
    <3>1. QED
      BY <2>1, <2>2, FS_Subset, FS_CardinalityType
  <2>4. Cardinality(A) < k
    <3> HIDE DEF A
    <3>1. QED
      BY <2>3
  <2>5. QED
    BY <2>4 DEF First
<1>5. First(k, found) = found \ {l}
  BY <1>3, <1>4 DEF First
<1>6. QED
  BY <1>2, <1>5 DEF l

-----------------------------------------------------------------------------
(* The invariants.                                                         *)

(* What the client that pulls by cursor has been given is what is not      *)
(* after its cursor, of the messages stored when it began, and no message  *)
(* after its cursor.                                                       *)
PullInv ==
    kind = "v2" =>
        /\ \A m \in seen : pos > 0 /\ ~Before(pos, m)
        /\ pager = "paging" =>
              \A m \in In(over) \cap 1..had : m \in seen \/ (pos > 0 => Before(pos, m))
        /\ PullComplete

(* What the reader of the history has not been given, but for the newest   *)
(* one, is not the next message in front of its cursor: it is that one     *)
(* which the next page cuts off.                                           *)
HistoryInv ==
    kind = "history" /\ Limit >= 2 =>
        /\ pager = "paging" =>
              \A m \in (In(over) \cap 1..had) \ (seen \cup {newest}) :
                  \E n \in In(over) : Before(m, n) /\ (pos > 0 => Before(n, pos))
        /\ HistoryComplete

NewInv == pager = "new" => pos = 0 /\ seen = {}

(* m was stored before r, of an earlier time and the same conversation.    *)
Inverted(m, r) == m < r /\ TS(m) < TS(r) /\ rows[m].conv = rows[r].conv

(* The times a pull starts from or ends with are those of sent messages.   *)
TimesInv ==
    /\ cursor \in SentTimes /\ \A c \in Conns : from[c] \in SentTimes
    /\ \A c \in Conns :
          /\ final[c] \in batch[c] \cup {0}
          /\ final[c] = 0 => batch[c] = {}
          /\ pull[c] = "idle" => final[c] = 0
          /\ pull[c] = "sent" => final[c] # 0 /\ batch[c] \subseteq sent

(* Nothing that stands before a message in its conversation, in the order  *)
(* of storing and of time, is left behind when that is found and sent.     *)
SentInv ==
    /\ \A r \in sent, m \in Ids : Inverted(m, r) => m \in sent \/ PassedOver(m)
    /\ \A c \in Conns : \A r \in batch[c], m \in Ids :
          Inverted(m, r) => m \in sent \cup batch[c] \/ PassedOver(m)

IInv == TypeOK /\ NewInv /\ PullInv /\ HistoryInv /\ TimesInv /\ SentInv

-----------------------------------------------------------------------------
(* The table is empty, and nobody has read it.                             *)
LEMMA InvInit == Init => IInv
<1> SUFFICES ASSUME Init PROVE IInv
  OBVIOUS
<1> USE DEF Init
<1>1. Ids = {} /\ Len(rows) = 0
  BY DEF Ids
<1>2. MaxTS[kind] \in Nat
  BY PullAssumption
<1>3. TypeOK
  <2>1. rows \in Seq([conv : Convs, ts : 1..MaxTS[kind]])
    OBVIOUS
  <2>2. QED
    BY <1>1, <1>2, <2>1 DEF TypeOK
<1>4. NewInv /\ PullInv /\ HistoryInv
  BY DEF NewInv, PullInv, HistoryInv, PullComplete, HistoryComplete
<1>5. TimesInv /\ SentInv
  BY <1>1 DEF TimesInv, SentTimes, SentInv
<1>6. QED
  BY <1>3, <1>4, <1>5 DEF IInv

(* A message that is stored leaves the others what they are.               *)
LEMMA RowsKept ==
  ASSUME TypeOK, NEW conv \in Convs, NEW t \in 1..MaxTS[kind], CreateMessage(conv, t)
  PROVE  /\ rows' \in Seq([conv : Convs, ts : 1..MaxTS[kind]])
         /\ Len(rows') = Len(rows) + 1 /\ Len(rows) \in Nat
         /\ Ids' = Ids \cup {Len(rows) + 1} /\ Len(rows) + 1 \notin Ids
         /\ \A m \in Ids : rows'[m] = rows[m]
<1> DEFINE Row == [conv : Convs, ts : 1..MaxTS[kind]]
<1>1. rows \in Seq(Row) /\ rows' = Append(rows, [conv |-> conv, ts |-> t])
      /\ [conv |-> conv, ts |-> t] \in Row
  BY DEF TypeOK, CreateMessage
<1> HIDE DEF Row
<1>2. /\ rows' \in Seq(Row)
      /\ Len(rows') = Len(rows) + 1 /\ Len(rows) \in Nat
      /\ \A m \in 1..Len(rows) : rows'[m] = rows[m]
  BY <1>1
<1>3. Ids' = Ids \cup {Len(rows) + 1} /\ Len(rows) + 1 \notin Ids
  BY <1>2 DEF Ids
<1>4. QED
  BY <1>2, <1>3 DEF Ids, Row

(* And their order.                                                        *)
LEMMA OrderKept ==
  ASSUME TypeOK, NEW conv \in Convs, NEW t \in 1..MaxTS[kind], CreateMessage(conv, t)
  PROVE  /\ \A m \in Ids, n \in Ids : Before(m, n)' <=> Before(m, n)
         /\ \A m \in Ids : TS(m)' = TS(m)
         /\ \A C, m \in Ids : m \in In(C)' <=> m \in In(C)
<1>1. \A m \in Ids : TS(m)' = TS(m) /\ m \in Ids'
  BY RowsKept DEF TS
<1>2. \A m \in Ids, n \in Ids : Before(m, n)' <=> Before(m, n)
  BY <1>1 DEF Before
<1>3. \A C, m \in Ids : m \in In(C)' <=> m \in In(C)
  BY <1>1, RowsKept DEF In
<1>4. QED
  BY <1>1, <1>2, <1>3

-----------------------------------------------------------------------------
(* What a pull over WebSocket finds in a conversation: no message between  *)
(* its start and one that is found is left out.                            *)
LEMMA Found ==
  ASSUME TypeOK, NEW conv \in Convs, NEW c \in Conns
  PROVE  LET page == GetMessagesAfter(conv, from[c], Limit)
         IN  /\ \A m \in page : m \in Ids /\ rows[m].conv = conv /\ TS(m) > from[c]
             /\ \A m \in Ids, n \in page :
                   rows[m].conv = conv /\ TS(m) > from[c] /\ Before(m, n) => m \in page
             /\ page # {} => LastOf(page) \in page
<1> DEFINE S == {m \in In({conv}) : TS(m) > from[c]}
           page == GetMessagesAfter(conv, from[c], Limit)
<1>1. /\ S \subseteq Ids /\ page = First(Limit, S)
      /\ \A m \in Ids : m \in S <=> rows[m].conv = conv /\ TS(m) > from[c]
  BY DEF In, GetMessagesAfter
<1> HIDE DEF S, page
<1>2. page \subseteq S /\ \A m \in S, n \in page : Before(m, n) => m \in page
  BY <1>1, FirstPage, PullAssumption
<1>3. page # {} => LastOf(page) \in page
  BY <1>1, <1>2, HasLast
<1>4. /\ \A m \in page : m \in Ids /\ rows[m].conv = conv /\ TS(m) > from[c]
      /\ \A m \in Ids, n \in page :
            rows[m].conv = conv /\ TS(m) > from[c] /\ Before(m, n) => m \in page
  BY <1>1, <1>2
<1>5. QED
  BY <1>3, <1>4 DEF page

(* What a page of the history is made from.                                *)
LEMMA FoundHistory ==
  ASSUME TypeOK, NEW before \in {pos, 0}
  PROVE  LET S     == {m \in In(over) : before > 0 => Before(m, before)}
             found == GetMessagesByConversation(over, before, Limit)
         IN  /\ S \subseteq Ids /\ found \subseteq S
             /\ \A m \in S, n \in found : Before(n, m) => m \in found
             /\ Cardinality(found) > Limit => Cardinality(found) = Limit + 1
             /\ ~(Cardinality(found) > Limit) => found = S
<1> DEFINE S == {m \in In(over) : before > 0 => Before(m, before)}
           found == GetMessagesByConversation(over, before, Limit)
<1>1. S \subseteq Ids /\ found = Newest(Limit + 1, S)
  BY DEF GetMessagesByConversation, In
<1> HIDE DEF S, found
<1>2. Limit + 1 \in Nat \ {0} /\ Limit \in Nat
  BY PullAssumption
<1>3. /\ found \subseteq S
      /\ \A m \in S, n \in found : Before(n, m) => m \in found
      /\ Cardinality(found) <= Limit + 1
      /\ Cardinality(found) # Limit + 1 => found = S
  BY <1>1, <1>2, NewestPage
<1>4. Cardinality(found) \in Nat
  BY <1>1, <1>3, MessageParts, FS_Subset, FS_CardinalityType
<1>5. QED
  BY <1>1, <1>2, <1>3, <1>4 DEF S, found

(* A step keeps the types.                                                 *)
LEMMA TypeNext == TypeOK /\ TimesInv /\ [Next]_vars => TypeOK'
<1> SUFFICES ASSUME TypeOK, TimesInv, [Next]_vars PROVE TypeOK'
  OBVIOUS
<1>0. MaxTS[kind] \in Nat /\ \A m \in Ids : TS(m) \in 1..MaxTS[kind]
  BY MessageParts
<1>a. SentTimes \subseteq 0..MaxTS[kind]
  BY <1>0 DEF TypeOK, SentTimes
<1> USE <1>0 DEF pagerVars, wsVars
<1>1. ASSUME NEW conv \in Convs, NEW t \in 1..MaxTS[kind], CreateMessage(conv, t) PROVE TypeOK'
  <2>1. /\ rows' \in Seq([conv : Convs, ts : 1..MaxTS[kind]]) /\ Ids \subseteq Ids'
        /\ Len(rows') = Len(rows) + 1 /\ Len(rows) \in Nat
    BY <1>1, RowsKept
  <2>2. UNCHANGED <<kind, over, pos, seen, had, newest, pager, cursor, pull, from, todo,
                    batch, final, sent>>
    BY <1>1 DEF CreateMessage
  <2>3. had' \in 0..Len(rows')
    BY <2>1, <2>2 DEF TypeOK
  <2>4. \A c \in Conns : batch[c] \subseteq Ids' /\ final[c] \in Ids' \cup {0}
    BY <2>1 DEF TypeOK
  <2>5. QED
    BY <2>1, <2>2, <2>3, <2>4 DEF TypeOK
<1>2. ASSUME NEW conv \in Convs, BeginHistory(conv) PROVE TypeOK'
  <2>0. Ids' = Ids /\ UNCHANGED <<rows, kind>>
    BY <1>2 DEF BeginHistory, Begin, Ids
  <2>1. /\ pager' = "paging" /\ over' = {conv} /\ had' = Len(rows)
        /\ newest' = IF In({conv}) = {} THEN 0 ELSE LastOf(In({conv}))
        /\ UNCHANGED <<pos, seen, wsVars>>
    BY <1>2 DEF BeginHistory, Begin
  <2>2. In({conv}) \subseteq Ids /\ {conv} \subseteq Convs
    BY DEF In
  <2>3. newest' \in Ids \cup {0}
    BY <2>1, <2>2, HasLast
  <2>4. had' \in 0..Len(rows)
    BY <2>1, MessageParts
  <2>5. QED
    BY <2>0, <2>1, <2>2, <2>3, <2>4 DEF TypeOK
<1>3. ASSUME NEW C \in SUBSET Convs, BeginPull(C) PROVE TypeOK'
  <2>0. Ids' = Ids /\ UNCHANGED <<rows, kind>>
    BY <1>3 DEF BeginPull, Begin, Ids
  <2>1. /\ pager' = "paging" /\ over' = C /\ had' = Len(rows)
        /\ newest' = IF In(C) = {} THEN 0 ELSE LastOf(In(C))
        /\ UNCHANGED <<pos, seen, wsVars>>
    BY <1>3 DEF BeginPull, Begin
  <2>2. In(C) \subseteq Ids /\ C \subseteq Convs
    BY DEF In
  <2>3. newest' \in Ids \cup {0}
    BY <2>1, <2>2, HasLast
  <2>4. had' \in 0..Len(rows)
    BY <2>1, MessageParts
  <2>5. QED
    BY <2>0, <2>1, <2>2, <2>3, <2>4 DEF TypeOK
<1>4. ASSUME GetHistory PROVE TypeOK'
  <2>0. Ids' = Ids /\ UNCHANGED <<rows, kind>>
    BY <1>4 DEF GetHistory, Ids
  <2>a. PICK before \in {pos, 0} :
            LET found   == GetMessagesByConversation(over, before, Limit)
                hasMore == Cardinality(found) > Limit
                page    == IF hasMore THEN First(Limit, found) ELSE found
            IN  /\ seen' = seen \cup page
                /\ pos' = IF hasMore THEN LastOf(page) ELSE pos
                /\ pager' \in {"paging", "done"}
                /\ UNCHANGED <<over, had, newest, wsVars>>
    BY <1>4 DEF GetHistory
  <2> DEFINE found == GetMessagesByConversation(over, before, Limit)
             hasMore == Cardinality(found) > Limit
             page == IF hasMore THEN First(Limit, found) ELSE found
  <2>1. /\ seen' = seen \cup page
        /\ pos' = IF hasMore THEN LastOf(page) ELSE pos
        /\ pager' \in {"paging", "done"}
        /\ UNCHANGED <<over, had, newest, wsVars>>
    BY <2>a
  <2>2. found \subseteq Ids
    BY DEF GetMessagesByConversation, Newest, In
  <2>3. page \subseteq Ids
    BY <2>2 DEF First
  <2>4. hasMore => page # {}
    <3>1. SUFFICES ASSUME hasMore PROVE page # {}
      OBVIOUS
    <3>2. Cardinality(found) = Limit + 1
      BY <3>1, FoundHistory
    <3>3. Cardinality(page) = Limit
      BY <2>2, <3>1, <3>2, HistoryPage, PullAssumption
    <3>4. QED
      BY <3>3, FS_EmptySet, PullAssumption
  <2> HIDE DEF found, hasMore, page
  <2>5. pos' \in Ids \cup {0}
    BY <2>1, <2>3, <2>4, HasLast DEF TypeOK
  <2>6. QED
    BY <2>0, <2>1, <2>3, <2>5 DEF TypeOK
<1>5. ASSUME PullOfflineMessagesV2 PROVE TypeOK'
  <2>0. Ids' = Ids /\ UNCHANGED <<rows, kind>>
    BY <1>5 DEF PullOfflineMessagesV2, Ids
  <2> DEFINE page == GetMessagesByCursor(over, pos, Limit)
  <2>1. /\ seen' = seen \cup page
        /\ pos' = IF page # {} THEN LastOf(page) ELSE pos
        /\ pager' \in {"paging", "done"}
        /\ UNCHANGED <<over, had, newest, wsVars>>
    BY <1>5 DEF PullOfflineMessagesV2
  <2>2. page \subseteq Ids
    BY DEF GetMessagesByCursor, First, In
  <2> HIDE DEF page
  <2>3. pos' \in Ids \cup {0}
    BY <2>1, <2>2, HasLast DEF TypeOK
  <2>4. QED
    BY <2>0, <2>1, <2>2, <2>3 DEF TypeOK
<1>6. ASSUME NEW c \in Conns, SendOfflineMessages(c) PROVE TypeOK'
  <2>0. Ids' = Ids /\ UNCHANGED <<rows, kind>>
    BY <1>6 DEF SendOfflineMessages, StartPull, Ids
  <2>1. PICK ts \in 0..MaxTS[kind] : StartPull(c, ts)
    BY <1>6, <1>a DEF SendOfflineMessages, TypeOK
  <2>2. QED
    BY <2>0, <2>1 DEF StartPull, TypeOK
<1>7. ASSUME NEW c \in Conns, HandlePullOffline(c) PROVE TypeOK'
  <2>0. Ids' = Ids /\ UNCHANGED <<rows, kind>>
    BY <1>7 DEF HandlePullOffline, StartPull, Ids
  <2>1. PICK ts \in 0..MaxTS[kind] : StartPull(c, ts)
    BY <1>7, <1>a DEF HandlePullOffline, TypeOK
  <2>2. QED
    BY <2>0, <2>1 DEF StartPull, TypeOK
<1>8. ASSUME NEW c \in Conns, PullConversation(c) PROVE TypeOK'
  <2>0. Ids' = Ids /\ UNCHANGED <<rows, kind>>
    BY <1>8 DEF PullConversation, Ids
  <2>a. PICK conv \in todo[c] :
           /\ todo' = [todo EXCEPT ![c] = @ \ {conv}]
           /\ \E page \in {{}, GetMessagesAfter(conv, from[c], Limit)} :
                 /\ batch' = [batch EXCEPT ![c] = @ \cup page]
                 /\ final' = [final EXCEPT ![c] = IF page = {} THEN @ ELSE LastOf(page)]
    BY <1>8 DEF PullConversation
  <2>1. PICK page \in {{}, GetMessagesAfter(conv, from[c], Limit)} :
           /\ batch' = [batch EXCEPT ![c] = @ \cup page]
           /\ final' = [final EXCEPT ![c] = IF page = {} THEN @ ELSE LastOf(page)]
    BY <2>a
  <2>2. page \subseteq Ids
    BY <2>1 DEF GetMessagesAfter, First, In
  <2>3. page # {} => LastOf(page) \in Ids
    BY <2>2, HasLast
  <2>4. UNCHANGED <<pagerVars, cursor, pull, from, sent>>
    BY <1>8 DEF PullConversation
  <2>5. QED
    BY <2>0, <2>a, <2>1, <2>2, <2>3, <2>4 DEF TypeOK
<1>9. ASSUME NEW c \in Conns, SendBatch(c) PROVE TypeOK'
  <2>0. Ids' = Ids /\ UNCHANGED <<rows, kind>>
    BY <1>9 DEF SendBatch, EndPull, Ids
  <2>1. sent' \subseteq Ids /\ UNCHANGED <<pagerVars, cursor>>
    BY <1>9 DEF SendBatch, TypeOK
  <2>2. CASE batch[c] = {}
    <3>1. /\ pull' = [pull EXCEPT ![c] = "idle"] /\ from' = [from EXCEPT ![c] = 0]
          /\ todo' = [todo EXCEPT ![c] = {}] /\ batch' = [batch EXCEPT ![c] = {}]
          /\ final' = [final EXCEPT ![c] = 0]
      BY <1>9, <2>2 DEF SendBatch, EndPull
    <3>2. QED
      BY <2>0, <2>1, <3>1 DEF TypeOK
  <2>3. CASE batch[c] # {}
    BY <1>9, <2>0, <2>1, <2>3 DEF SendBatch, TypeOK
  <2>4. QED
    BY <2>2, <2>3
<1>10. ASSUME NEW c \in Conns, UpdateCursor(c) PROVE TypeOK'
  <2>0. Ids' = Ids /\ UNCHANGED <<rows, kind>>
    BY <1>10 DEF UpdateCursor, EndPull, Ids
  <2>1. TS(final[c]) \in 0..MaxTS[kind]
    BY <1>10 DEF UpdateCursor, TypeOK, TimesInv
  <2>2. QED
    BY <1>10, <2>0, <2>1 DEF UpdateCursor, EndPull, TypeOK
<1>11. ASSUME NEW c \in Conns, PullFails(c) PROVE TypeOK'
  <2>0. Ids' = Ids /\ UNCHANGED <<rows, kind>>
    BY <1>11 DEF PullFails, EndPull, Ids
  <2>1. QED
    BY <1>11, <2>0, <1>a DEF PullFails, EndPull, TypeOK
<1>12. ASSUME HandleSyncCursor PROVE TypeOK'
  <2>0. Ids' = Ids /\ UNCHANGED <<rows, kind>>
    BY <1>12 DEF HandleSyncCursor, Ids
  <2>1. QED
    BY <1>12, <2>0, <1>a DEF HandleSyncCursor, TypeOK
<1>13. ASSUME Restart PROVE TypeOK'
  <2>0. Ids' = Ids /\ UNCHANGED <<rows, kind>>
    BY <1>13 DEF Restart, Ids
  <2>1. QED
    BY <1>13, <2>0, <1>a DEF Restart, TypeOK
<1>14. ASSUME UNCHANGED vars PROVE TypeOK'
  BY <1>14 DEF vars, pagerVars, wsVars, Ids, TypeOK
<1>15. ASSUME NEW conv \in Convs PROVE {conv} \in SUBSET Convs /\ Convs \in SUBSET Convs
  OBVIOUS
<1>16. QED
  BY <1>1, <1>2, <1>3, <1>4, <1>5, <1>6, <1>7, <1>8, <1>9, <1>10, <1>11,
     <1>12, <1>13, <1>14, <1>15 DEF Next

(* A reader that has not begun has nothing.                                *)
LEMMA NewNext == NewInv /\ [Next]_vars => NewInv'
<1> SUFFICES ASSUME NewInv, [Next]_vars PROVE NewInv'
  OBVIOUS
<1> USE DEF NewInv, pagerVars, wsVars
<1>1. ASSUME NEW conv \in Convs, NEW t \in 1..MaxTS[kind], CreateMessage(conv, t) PROVE NewInv'
  BY <1>1 DEF CreateMessage
<1>2. ASSUME NEW conv \in Convs, BeginHistory(conv) PROVE NewInv'
  BY <1>2 DEF BeginHistory, Begin
<1>3. ASSUME NEW C \in SUBSET Convs, BeginPull(C) PROVE NewInv'
  BY <1>3 DEF BeginPull, Begin
<1>4. ASSUME GetHistory PROVE NewInv'
  BY <1>4 DEF GetHistory
<1>5. ASSUME PullOfflineMessagesV2 PROVE NewInv'
  BY <1>5 DEF PullOfflineMessagesV2
<1>6. ASSUME NEW c \in Conns, SendOfflineMessages(c) PROVE NewInv'
  BY <1>6 DEF SendOfflineMessages, StartPull
<1>7. ASSUME NEW c \in Conns, HandlePullOffline(c) PROVE NewInv'
  BY <1>7 DEF HandlePullOffline, StartPull
<1>8. ASSUME NEW c \in Conns, PullConversation(c) PROVE NewInv'
  BY <1>8 DEF PullConversation
<1>9. ASSUME NEW c \in Conns, SendBatch(c) PROVE NewInv'
  BY <1>9 DEF SendBatch, EndPull
<1>10. ASSUME NEW c \in Conns, UpdateCursor(c) PROVE NewInv'
  BY <1>10 DEF UpdateCursor, EndPull
<1>11. ASSUME NEW c \in Conns, PullFails(c) PROVE NewInv'
  BY <1>11 DEF PullFails, EndPull
<1>12. ASSUME HandleSyncCursor PROVE NewInv'
  BY <1>12 DEF HandleSyncCursor
<1>13. ASSUME Restart PROVE NewInv'
  BY <1>13 DEF Restart
<1>14. ASSUME UNCHANGED vars PROVE NewInv'
  BY <1>14 DEF vars, pagerVars, wsVars
<1>15. ASSUME NEW conv \in Convs PROVE {conv} \in SUBSET Convs /\ Convs \in SUBSET Convs
  OBVIOUS
<1>16. QED
  BY <1>1, <1>2, <1>3, <1>4, <1>5, <1>6, <1>7, <1>8, <1>9, <1>10, <1>11,
     <1>12, <1>13, <1>14, <1>15 DEF Next

-----------------------------------------------------------------------------
(* What has been passed over stays so, when more is sent.                  *)
LEMMA PassedStays ==
  ASSUME NEW m, sent \subseteq sent', UNCHANGED rows, PassedOver(m)
  PROVE  PassedOver(m)'
  BY DEF PassedOver, TS

(* What is not after a sent message was sent, or is explained by one.      *)
LEMMA Explained ==
  ASSUME TypeOK, SentInv, NEW q \in sent, NEW m \in Ids, TS(m) <= TS(q)
  PROVE  m \in sent \/ PassedOver(m)
<1>1. m \in Nat /\ q \in Ids /\ q \in Nat /\ TS(m) \in Nat /\ TS(q) \in Nat
  BY MessageParts DEF TypeOK
<1>2. CASE Inverted(m, q)
  BY <1>2 DEF SentInv
<1>3. CASE ~Inverted(m, q) /\ m # q
  BY <1>1, <1>3 DEF Inverted, PassedOver
<1>4. QED
  BY <1>2, <1>3

(* Also for all that is not after the time of a pull or of the cursor.     *)
LEMMA ExplainedTime ==
  ASSUME TypeOK, SentInv, NEW t \in SentTimes, NEW m \in Ids, TS(m) <= t
  PROVE  m \in sent \/ PassedOver(m)
<1>1. TS(m) \in Nat /\ TS(m) > 0
  BY MessageParts
<1>2. PICK q \in sent : t = TS(q)
  BY <1>1 DEF SentTimes
<1>3. QED
  BY <1>2, Explained

(* A pull starts from a time that was sent and sets the cursor to one.     *)
LEMMA TimesNext == TypeOK /\ TimesInv /\ [Next]_vars => TimesInv'
<1> SUFFICES ASSUME TypeOK, TimesInv, [Next]_vars PROVE TimesInv'
  OBVIOUS
<1>u. ASSUME UNCHANGED <<rows, kind, wsVars>> PROVE TimesInv'
  BY <1>u DEF TimesInv, SentTimes, TS, wsVars
<1>1. ASSUME NEW conv \in Convs, NEW t \in 1..MaxTS[kind], CreateMessage(conv, t) PROVE TimesInv'
  <2>1. \A m \in sent : TS(m)' = TS(m)
    BY <1>1, OrderKept DEF TypeOK
  <2>2. UNCHANGED wsVars
    BY <1>1 DEF CreateMessage
  <2>3. SentTimes' = SentTimes
    BY <2>1, <2>2 DEF SentTimes, wsVars
  <2>4. QED
    BY <2>2, <2>3 DEF TimesInv, wsVars
<1>2. ASSUME NEW conv \in Convs, BeginHistory(conv) PROVE TimesInv'
  BY <1>2, <1>u DEF BeginHistory, Begin, pagerVars, wsVars
<1>3. ASSUME NEW C \in SUBSET Convs, BeginPull(C) PROVE TimesInv'
  BY <1>3, <1>u DEF BeginPull, Begin, pagerVars, wsVars
<1>4. ASSUME GetHistory PROVE TimesInv'
  BY <1>4, <1>u DEF GetHistory, pagerVars, wsVars
<1>5. ASSUME PullOfflineMessagesV2 PROVE TimesInv'
  BY <1>5, <1>u DEF PullOfflineMessagesV2, pagerVars, wsVars
<1>6. ASSUME NEW c \in Conns, SendOfflineMessages(c) PROVE TimesInv'
  <2>0. UNCHANGED <<rows, sent>> /\ SentTimes' = SentTimes
    BY <1>6 DEF SendOfflineMessages, StartPull, SentTimes, TS
  <2>1. PICK ts \in SentTimes : StartPull(c, ts)
    BY <1>6 DEF SendOfflineMessages, TimesInv
  <2>2. from' = [from EXCEPT ![c] = ts] /\ pull' = [pull EXCEPT ![c] = "read"]
        /\ UNCHANGED <<cursor, batch, final, sent>>
    BY <2>1 DEF StartPull
  <2>3. QED
    BY <2>0, <2>1, <2>2 DEF TimesInv, TypeOK
<1>7. ASSUME NEW c \in Conns, HandlePullOffline(c) PROVE TimesInv'
  <2>0. UNCHANGED <<rows, sent>> /\ SentTimes' = SentTimes
    BY <1>7 DEF HandlePullOffline, StartPull, SentTimes, TS
  <2>1. PICK ts \in SentTimes : StartPull(c, ts)
    BY <1>7 DEF HandlePullOffline, TimesInv
  <2>2. from' = [from EXCEPT ![c] = ts] /\ pull' = [pull EXCEPT ![c] = "read"]
        /\ UNCHANGED <<cursor, batch, final, sent>>
    BY <2>1 DEF StartPull
  <2>3. QED
    BY <2>0, <2>1, <2>2 DEF TimesInv, TypeOK
<1>8. ASSUME NEW c \in Conns, PullConversation(c) PROVE TimesInv'
  <2>0. UNCHANGED <<rows, sent>> /\ SentTimes' = SentTimes
    BY <1>8 DEF PullConversation, SentTimes, TS
  <2>1. PICK page :
           /\ page # {} => LastOf(page) \in page
           /\ page # {} => LastOf(page) \in Ids
           /\ batch' = [batch EXCEPT ![c] = @ \cup page]
           /\ final' = [final EXCEPT ![c] = IF page = {} THEN @ ELSE LastOf(page)]
    <3>1. PICK conv \in todo[c] :
             \E page \in {{}, GetMessagesAfter(conv, from[c], Limit)} :
                /\ batch' = [batch EXCEPT ![c] = @ \cup page]
                /\ final' = [final EXCEPT ![c] = IF page = {} THEN @ ELSE LastOf(page)]
      BY <1>8 DEF PullConversation
    <3> DEFINE found == GetMessagesAfter(conv, from[c], Limit)
    <3>2. conv \in Convs
      BY <3>1 DEF TypeOK
    <3>3. found \subseteq Ids /\ (found # {} => LastOf(found) \in found)
      BY <3>2, Found
    <3> HIDE DEF found
    <3>4. found # {} => LastOf(found) \in Ids
      BY <3>3
    <3>5. QED
      BY <3>1, <3>3, <3>4 DEF found
  <2>2. UNCHANGED <<cursor, pull, from, sent>> /\ pull[c] = "read"
    BY <1>8 DEF PullConversation
  <2>3. 0 \notin Ids
    BY DEF Ids
  <2>4. QED
    BY <2>0, <2>1, <2>2, <2>3 DEF TimesInv, TypeOK
<1>9. ASSUME NEW c \in Conns, SendBatch(c) PROVE TimesInv'
  <2>1. sent' = sent \cup batch[c] /\ UNCHANGED <<rows, cursor>> /\ pull[c] = "read"
    BY <1>9 DEF SendBatch
  <2>2. SentTimes \subseteq SentTimes' /\ 0 \in SentTimes'
    BY <2>1 DEF SentTimes, TS
  <2>3. CASE batch[c] = {}
    BY <1>9, <2>1, <2>2, <2>3 DEF SendBatch, EndPull, TimesInv, TypeOK
  <2>4. CASE batch[c] # {}
    BY <1>9, <2>1, <2>2, <2>4 DEF SendBatch, TimesInv, TypeOK
  <2>5. QED
    BY <2>3, <2>4
<1>10. ASSUME NEW c \in Conns, UpdateCursor(c) PROVE TimesInv'
  <2>0. UNCHANGED <<rows, sent>> /\ SentTimes' = SentTimes
    BY <1>10 DEF UpdateCursor, EndPull, SentTimes, TS
  <2>1. 0 \in SentTimes
    BY DEF SentTimes
  <2>2. cursor' = TS(final[c]) /\ final[c] \in sent
    BY <1>10 DEF UpdateCursor, TimesInv
  <2>3. cursor' \in SentTimes
    BY <2>2 DEF SentTimes
  <2>4. QED
    BY <1>10, <2>0, <2>1, <2>3 DEF UpdateCursor, EndPull, TimesInv, TypeOK
<1>11. ASSUME NEW c \in Conns, PullFails(c) PROVE TimesInv'
  <2>0. UNCHANGED <<rows, sent>> /\ SentTimes' = SentTimes
    BY <1>11 DEF PullFails, EndPull, SentTimes, TS
  <2>1. 0 \in SentTimes
    BY DEF SentTimes
  <2>2. QED
    BY <1>11, <2>0, <2>1 DEF PullFails, EndPull, TimesInv, TypeOK
<1>12. ASSUME HandleSyncCursor PROVE TimesInv'
  <2>0. UNCHANGED <<rows, sent>> /\ SentTimes' = SentTimes
    BY <1>12 DEF HandleSyncCursor, SentTimes, TS
  <2>1. 0 \in SentTimes
    BY DEF SentTimes
  <2>2. QED
    BY <1>12, <2>0, <2>1 DEF HandleSyncCursor, TimesInv
<1>13. ASSUME Restart PROVE TimesInv'
  <2>0. UNCHANGED <<rows, sent>> /\ SentTimes' = SentTimes
    BY <1>13 DEF Restart, SentTimes, TS
  <2>1. 0 \in SentTimes
    BY DEF SentTimes
  <2>2. QED
    BY <1>13, <2>0, <2>1 DEF Restart, TimesInv
<1>14. ASSUME UNCHANGED vars PROVE TimesInv'
  BY <1>14, <1>u DEF vars
<1>15. ASSUME NEW conv \in Convs PROVE {conv} \in SUBSET Convs /\ Convs \in SUBSET Convs
  OBVIOUS
<1>16. QED
  BY <1>1, <1>2, <1>3, <1>4, <1>5, <1>6, <1>7, <1>8, <1>9, <1>10, <1>11,
     <1>12, <1>13, <1>14, <1>15 DEF Next

(* A page leaves nothing behind that stands before one of its messages.    *)
LEMMA SentNext == TypeOK /\ TimesInv /\ SentInv /\ [Next]_vars => SentInv'
<1> SUFFICES ASSUME TypeOK, TimesInv, SentInv, [Next]_vars PROVE SentInv'
  OBVIOUS
<1>u. ASSUME UNCHANGED <<rows, batch, sent>> PROVE SentInv'
  BY <1>u DEF SentInv, PassedOver, Inverted, TS, Ids
<1>e. ASSUME UNCHANGED rows, sent' = sent, \A c \in Conns : batch'[c] \subseteq batch[c],
             \A c \in Conns : batch'[c] = batch[c] \/ batch'[c] = {}
      PROVE  SentInv'
  <2>1. Ids' = Ids /\ \A m \in Ids : PassedOver(m)' = PassedOver(m)
    BY <1>e DEF Ids, PassedOver, TS
  <2>2. \A m, r : Inverted(m, r)' = Inverted(m, r)
    BY <1>e DEF Inverted, TS
  <2>3. QED
    BY <1>e, <2>1, <2>2 DEF SentInv
<1>1. ASSUME NEW conv \in Convs, NEW t \in 1..MaxTS[kind], CreateMessage(conv, t) PROVE SentInv'
  <2>0. PICK new \in Nat : Ids' = Ids \cup {new} /\ \A m \in Ids : m \in Nat /\ m < new
    BY <1>1, RowsKept, MessageParts DEF Ids
  <2>1. \A m \in Ids : rows'[m] = rows[m] /\ TS(m)' = TS(m)
    BY <1>1, RowsKept, OrderKept
  <2>2. UNCHANGED <<batch, sent>> /\ sent \subseteq Ids /\ \A c \in Conns : batch[c] \subseteq Ids
    BY <1>1 DEF CreateMessage, wsVars, TypeOK
  <2>3. \A r \in Ids : ~Inverted(new, r)'
    BY <2>0 DEF Inverted
  <2>4. \A m \in Ids, r \in Ids : Inverted(m, r)' = Inverted(m, r)
    BY <2>1 DEF Inverted
  <2>5. \A m \in Ids : PassedOver(m) => PassedOver(m)'
    BY <2>1, <2>2 DEF PassedOver
  <2>6. \A r \in sent', m \in Ids' : Inverted(m, r)' => m \in sent' \/ PassedOver(m)'
    BY <2>0, <2>2, <2>3, <2>4, <2>5 DEF SentInv
  <2>7. \A c \in Conns : \A r \in batch'[c], m \in Ids' :
           Inverted(m, r)' => m \in sent' \cup batch'[c] \/ PassedOver(m)'
    BY <2>0, <2>2, <2>3, <2>4, <2>5 DEF SentInv
  <2>8. QED
    BY <2>6, <2>7 DEF SentInv
<1>2. ASSUME NEW conv \in Convs, BeginHistory(conv) PROVE SentInv'
  BY <1>2, <1>u DEF BeginHistory, Begin, pagerVars, wsVars
<1>3. ASSUME NEW C \in SUBSET Convs, BeginPull(C) PROVE SentInv'
  BY <1>3, <1>u DEF BeginPull, Begin, pagerVars, wsVars
<1>4. ASSUME GetHistory PROVE SentInv'
  BY <1>4, <1>u DEF GetHistory, pagerVars, wsVars
<1>5. ASSUME PullOfflineMessagesV2 PROVE SentInv'
  BY <1>5, <1>u DEF PullOfflineMessagesV2, pagerVars, wsVars
<1>6. ASSUME NEW c \in Conns, SendOfflineMessages(c) PROVE SentInv'
  BY <1>6, <1>u DEF SendOfflineMessages, StartPull, pagerVars, wsVars
<1>7. ASSUME NEW c \in Conns, HandlePullOffline(c) PROVE SentInv'
  BY <1>7, <1>u DEF HandlePullOffline, StartPull, pagerVars, wsVars
<1>8. ASSUME NEW c \in Conns, PullConversation(c) PROVE SentInv'
  <2>0. UNCHANGED <<rows, sent, from>> /\ Ids' = Ids
        /\ (\A m \in Ids : PassedOver(m)' = PassedOver(m))
        /\ \A m, r : Inverted(m, r)' = Inverted(m, r)
    BY <1>8 DEF PullConversation, Ids, PassedOver, Inverted, TS
  <2>1. PICK conv \in todo[c] :
           \E page \in {{}, GetMessagesAfter(conv, from[c], Limit)} :
              batch' = [batch EXCEPT ![c] = @ \cup page]
    BY <1>8 DEF PullConversation
  <2>2. PICK page \in {{}, GetMessagesAfter(conv, from[c], Limit)} :
           batch' = [batch EXCEPT ![c] = @ \cup page]
    BY <2>1
  <2>3. conv \in Convs
    BY DEF TypeOK
  <2>4. ASSUME NEW r \in page, NEW m \in Ids, Inverted(m, r)
        PROVE  m \in sent \cup page \/ PassedOver(m)
    <3>1. page = GetMessagesAfter(conv, from[c], Limit)
      BY <2>2, <2>4
    <3>2. r \in Ids /\ rows[r].conv = conv /\ TS(r) > from[c]
      BY <2>3, <3>1, Found
    <3>3. CASE TS(m) > from[c]
      <4>1. rows[m].conv = conv /\ Before(m, r)
        BY <2>4, <3>2, <3>3 DEF Inverted, Before
      <4>2. QED
        BY <2>3, <3>1, <3>3, <4>1, Found
    <3>4. CASE ~(TS(m) > from[c])
      <4>1. TS(m) <= from[c] /\ from[c] \in SentTimes
        BY <3>4, MessageParts DEF TypeOK, TimesInv
      <4>2. QED
        BY <4>1, ExplainedTime
    <3>5. QED
      BY <3>3, <3>4
  <2>5. \A d \in Conns : batch'[d] = IF d = c THEN batch[d] \cup page ELSE batch[d]
    BY <2>2 DEF TypeOK
  <2>6. \A d \in Conns : \A r \in batch'[d], m \in Ids :
           Inverted(m, r) => m \in sent \cup batch'[d] \/ PassedOver(m)
    BY <2>4, <2>5 DEF SentInv
  <2>7. QED
    BY <2>0, <2>6 DEF SentInv
<1>9. ASSUME NEW c \in Conns, SendBatch(c) PROVE SentInv'
  <2>1. sent' = sent \cup batch[c] /\ UNCHANGED rows
        /\ (batch' = batch \/ batch' = [batch EXCEPT ![c] = {}])
    BY <1>9 DEF SendBatch, EndPull
  <2>2. Ids' = Ids /\ \A m, r : Inverted(m, r)' = Inverted(m, r)
    BY <2>1 DEF Ids, Inverted, TS
  <2>3. \A m \in Ids : PassedOver(m) => PassedOver(m)'
    BY <2>1, PassedStays
  <2>4. \A d \in Conns : batch'[d] = batch[d] \/ batch'[d] = {}
    BY <2>1 DEF TypeOK
  <2>5. \A r \in sent', m \in Ids : Inverted(m, r) => m \in sent' \/ PassedOver(m)'
    BY <2>1, <2>3 DEF SentInv
  <2>6. \A d \in Conns : \A r \in batch'[d], m \in Ids :
           Inverted(m, r) => m \in sent' \cup batch'[d] \/ PassedOver(m)'
    BY <2>1, <2>3, <2>4 DEF SentInv
  <2>7. QED
    BY <2>2, <2>5, <2>6 DEF SentInv
<1>10. ASSUME NEW c \in Conns, UpdateCursor(c) PROVE SentInv'
  <2>1. batch' = [batch EXCEPT ![c] = {}] /\ UNCHANGED <<rows, sent>>
    BY <1>10 DEF UpdateCursor, EndPull
  <2>2. QED
    BY <2>1, <1>e DEF TypeOK
<1>11. ASSUME NEW c \in Conns, PullFails(c) PROVE SentInv'
  <2>1. batch' = [batch EXCEPT ![c] = {}] /\ UNCHANGED <<rows, sent>>
    BY <1>11 DEF PullFails, EndPull
  <2>2. QED
    BY <2>1, <1>e DEF TypeOK
<1>12. ASSUME HandleSyncCursor PROVE SentInv'
  BY <1>12, <1>u DEF HandleSyncCursor, pagerVars, wsVars
<1>13. ASSUME Restart PROVE SentInv'
  BY <1>13, <1>e DEF Restart
<1>14. ASSUME UNCHANGED vars PROVE SentInv'
  BY <1>14, <1>u DEF vars, wsVars
<1>15. ASSUME NEW conv \in Convs PROVE {conv} \in SUBSET Convs /\ Convs \in SUBSET Convs
  OBVIOUS
<1>16. QED
  BY <1>1, <1>2, <1>3, <1>4, <1>5, <1>6, <1>7, <1>8, <1>9, <1>10, <1>11,
     <1>12, <1>13, <1>14, <1>15 DEF Next

-----------------------------------------------------------------------------
(* A message that is stored meanwhile is none of those that were stored    *)
(* when the reader began.                                                  *)
LEMMA OldOnes ==
  ASSUME TypeOK, NEW conv \in Convs, NEW t \in 1..MaxTS[kind], CreateMessage(conv, t)
  PROVE  /\ (In(over) \cap 1..had)' = In(over) \cap 1..had
         /\ In(over) \subseteq In(over)' /\ UNCHANGED <<kind, pagerVars>>
<1>1. UNCHANGED <<kind, pagerVars>>
  BY DEF CreateMessage
<1>2. PICK new \in Nat : Ids' = Ids \cup {new} /\ new = Len(rows) + 1
  BY RowsKept
<1>3. \A m \in Ids : rows'[m] = rows[m]
  BY RowsKept
<1>4. had \in 0..Len(rows) /\ Len(rows) \in Nat
  BY MessageParts DEF TypeOK
<1>5. new \notin 1..had
  BY <1>2, <1>4
<1>6. In(over)' = {m \in Ids \cup {new} : rows'[m].conv \in over}
  BY <1>1, <1>2 DEF In, pagerVars
<1>7. In(over) = {m \in Ids : rows'[m].conv \in over}
  BY <1>3 DEF In
<1>8. (In(over) \cap 1..had)' = In(over)' \cap 1..had
  BY <1>1 DEF pagerVars
<1>9. QED
  BY <1>1, <1>5, <1>6, <1>7, <1>8

(* The page by cursor is full, or the last; the cursor is its end.         *)
LEMMA PullNext == TypeOK /\ NewInv /\ PullInv /\ [Next]_vars => PullInv'
<1> SUFFICES ASSUME TypeOK, NewInv, PullInv, [Next]_vars PROVE PullInv'
  OBVIOUS
<1>u. ASSUME UNCHANGED <<rows, kind, pagerVars>> PROVE PullInv'
  BY <1>u DEF PullInv, PullComplete, In, Ids, Before, TS, pagerVars
<1>1. ASSUME NEW conv \in Convs, NEW t \in 1..MaxTS[kind], CreateMessage(conv, t) PROVE PullInv'
  <2>1. /\ (In(over) \cap 1..had)' = In(over) \cap 1..had
        /\ UNCHANGED <<kind, pagerVars>>
    BY <1>1, OldOnes
  <2>2. In(over) \cap 1..had \subseteq Ids /\ seen \subseteq Ids /\ (pos > 0 => pos \in Ids)
    BY DEF In, TypeOK
  <2>3. PICK p : p = pos /\ p = pos'
    BY <2>1 DEF pagerVars
  <2>4. \A m \in Ids : p > 0 => (Before(p, m)' <=> Before(p, m))
    BY <1>1, <2>2, <2>3, OrderKept
  <2>5. kind = "v2" => \A m \in seen : p > 0 /\ ~Before(p, m)'
    BY <2>2, <2>3, <2>4 DEF PullInv
  <2>6. kind = "v2" /\ pager = "paging" =>
           \A m \in In(over) \cap 1..had : m \in seen \/ (p > 0 => Before(p, m)')
    BY <2>2, <2>3, <2>4 DEF PullInv
  <2>7. kind = "v2" => PullComplete'
    BY <2>1 DEF PullInv, PullComplete, pagerVars
  <2>8. UNCHANGED <<kind, seen, pager>> /\ \A m : Before(p, m)' = Before(pos, m)'
    BY <2>1, <2>3 DEF pagerVars, Before, TS
  <2>9. QED
    BY <2>1, <2>3, <2>5, <2>6, <2>7, <2>8 DEF PullInv
<1>2. ASSUME NEW conv \in Convs, BeginHistory(conv) PROVE PullInv'
  BY <1>2 DEF BeginHistory, Begin, PullInv
<1>3. ASSUME NEW C \in SUBSET Convs, BeginPull(C) PROVE PullInv'
  BY <1>3 DEF BeginPull, Begin, PullInv, PullComplete, NewInv
<1>4. ASSUME GetHistory PROVE PullInv'
  BY <1>4 DEF GetHistory, PullInv
<1>5. ASSUME PullOfflineMessagesV2 PROVE PullInv'
  <2> DEFINE S == {m \in In(over) : pos > 0 => Before(pos, m)}
             page == GetMessagesByCursor(over, pos, Limit)
  <2>1. /\ kind = "v2" /\ pager = "paging" /\ seen' = seen \cup page
        /\ pos' = IF page # {} THEN LastOf(page) ELSE pos
        /\ pager' = IF Cardinality(page) = Limit THEN "paging" ELSE "done"
        /\ UNCHANGED <<rows, kind, over, had, newest>>
    BY <1>5 DEF PullOfflineMessagesV2
  <2>2. /\ S \subseteq Ids /\ page = First(Limit, S) /\ In(over) \subseteq Ids
        /\ \A m \in In(over) : m \in S <=> (pos > 0 => Before(pos, m))
        /\ \A m \in S : pos > 0 => Before(pos, m)
    BY DEF GetMessagesByCursor, In
  <2> HIDE DEF S, page
  <2>3. /\ page \subseteq S
        /\ \A m \in S, n \in page : Before(m, n) => m \in page
        /\ Cardinality(page) # Limit => page = S
    BY <2>2, FirstPage, PullAssumption
  <2>4. page # {} => LastOf(page) \in page /\ \A m \in page : m = LastOf(page) \/ Before(m, LastOf(page))
    BY <2>2, <2>3, HasLast
  <2>5. Cardinality(page) = Limit => page # {}
    BY FS_EmptySet, PullAssumption
  <2>6. In(over)' = In(over) /\ \A m, n : Before(m, n)' = Before(m, n)
    BY <2>1 DEF In, Ids, Before, TS
  <2>7. seen \subseteq Ids /\ (pos > 0 => pos \in Ids)
    BY DEF TypeOK
  <2>8. ASSUME NEW m \in seen' PROVE pos' > 0 /\ ~Before(pos', m)
    <3>1. CASE page = {}
      BY <2>1, <2>8, <3>1 DEF PullInv
    <3>2. CASE page # {}
      <4>1. pos' \in page /\ pos' \in Ids
        BY <2>1, <2>2, <2>3, <2>4, <3>2
      <4>2. pos' > 0
        BY <4>1, MessageParts DEF Ids
      <4>3. CASE m \in page
        <5>1. m \in Ids /\ (m = pos' \/ Before(m, pos'))
          BY <2>1, <2>2, <2>3, <2>4, <3>2, <4>3
        <5>2. QED
          BY <4>1, <4>2, <5>1, Order
      <4>4. CASE m \in seen
        <5>1. pos > 0 /\ ~Before(pos, m) /\ Before(pos, pos') /\ pos \in Ids /\ m \in Ids
          BY <2>1, <2>2, <2>3, <2>7, <4>1, <4>4 DEF PullInv
        <5>2. QED
          BY <4>1, <4>2, <5>1, Order
      <4>5. QED
        BY <2>1, <2>8, <4>2, <4>3, <4>4
    <3>3. QED
      BY <3>1, <3>2
  <2>9. ASSUME NEW m \in In(over) \cap 1..had, pager' = "paging", m \notin seen'
        PROVE  Before(pos', m)
    <3>1. page # {} /\ pos' \in page /\ pos' \in Ids /\ m \in Ids
      BY <2>1, <2>2, <2>3, <2>4, <2>5, <2>9
    <3>2. m \in S /\ m \notin page
      BY <2>1, <2>2, <2>9 DEF PullInv
    <3>3. QED
      BY <2>3, <3>1, <3>2, Order
  <2>10. PullComplete'
    <3>1. SUFFICES ASSUME pager' = "done", NEW m \in In(over) \cap 1..had PROVE m \in seen'
      BY <2>1, <2>6 DEF PullComplete
    <3>2. page = S
      BY <2>1, <2>3, <3>1
    <3>3. QED
      BY <2>1, <2>2, <3>1, <3>2 DEF PullInv
  <2>11. PICK p : p = pos'
    OBVIOUS
  <2>12. \A m \in seen' : p > 0 /\ ~Before(p, m)'
    BY <2>6, <2>8, <2>11
  <2>13. pager' = "paging" => \A m \in In(over)' \cap 1..had : m \in seen' \/ Before(p, m)'
    BY <2>6, <2>9, <2>11
  <2>14. QED
    BY <2>1, <2>10, <2>11, <2>12, <2>13 DEF PullInv, Before, TS
<1>6. ASSUME NEW c \in Conns, SendOfflineMessages(c) PROVE PullInv'
  BY <1>6, <1>u DEF SendOfflineMessages, StartPull, wsVars, pagerVars
<1>7. ASSUME NEW c \in Conns, HandlePullOffline(c) PROVE PullInv'
  BY <1>7, <1>u DEF HandlePullOffline, StartPull, wsVars, pagerVars
<1>8. ASSUME NEW c \in Conns, PullConversation(c) PROVE PullInv'
  BY <1>8, <1>u DEF PullConversation, wsVars, pagerVars
<1>9. ASSUME NEW c \in Conns, SendBatch(c) PROVE PullInv'
  BY <1>9, <1>u DEF SendBatch, EndPull, wsVars, pagerVars
<1>10. ASSUME NEW c \in Conns, UpdateCursor(c) PROVE PullInv'
  BY <1>10, <1>u DEF UpdateCursor, EndPull, wsVars, pagerVars
<1>11. ASSUME NEW c \in Conns, PullFails(c) PROVE PullInv'
  BY <1>11, <1>u DEF PullFails, EndPull, wsVars, pagerVars
<1>12. ASSUME HandleSyncCursor PROVE PullInv'
  BY <1>12, <1>u DEF HandleSyncCursor, wsVars, pagerVars
<1>13. ASSUME Restart PROVE PullInv'
  BY <1>13, <1>u DEF Restart, wsVars, pagerVars
<1>14. ASSUME UNCHANGED vars PROVE PullInv'
  BY <1>14, <1>u DEF vars
<1>15. ASSUME NEW conv \in Convs PROVE {conv} \in SUBSET Convs /\ Convs \in SUBSET Convs
  OBVIOUS
<1>16. QED
  BY <1>1, <1>2, <1>3, <1>4, <1>5, <1>6, <1>7, <1>8, <1>9, <1>10, <1>11,
     <1>12, <1>13, <1>14, <1>15 DEF Next

(* A page of the history cuts off a message that was given before.         *)
LEMMA HistoryNext == TypeOK /\ NewInv /\ HistoryInv /\ [Next]_vars => HistoryInv'
<1> SUFFICES ASSUME TypeOK, NewInv, HistoryInv, [Next]_vars PROVE HistoryInv'
  OBVIOUS
<1>u. ASSUME UNCHANGED <<rows, kind, pagerVars>> PROVE HistoryInv'
  BY <1>u DEF HistoryInv, HistoryComplete, In, Ids, Before, TS, pagerVars
<1>1. ASSUME NEW conv \in Convs, NEW t \in 1..MaxTS[kind], CreateMessage(conv, t) PROVE HistoryInv'
  <2>1. /\ (In(over) \cap 1..had)' = In(over) \cap 1..had
        /\ In(over) \subseteq In(over)' /\ UNCHANGED <<kind, pagerVars>>
    BY <1>1, OldOnes
  <2>2. In(over) \subseteq Ids /\ (pos > 0 => pos \in Ids)
    BY DEF In, TypeOK
  <2>3. \A m \in Ids, n \in Ids : Before(m, n)' <=> Before(m, n)
    BY <1>1, OrderKept
  <2>4. PICK p : p = pos /\ p = pos'
    BY <2>1 DEF pagerVars
  <2>5. ASSUME NEW m \in Ids, NEW n \in In(over), Before(m, n), p > 0 => Before(n, p)
        PROVE  n \in In(over)' /\ Before(m, n)' /\ (p > 0 => Before(n, p)')
    BY <2>1, <2>2, <2>3, <2>4, <2>5
  <2>6. kind = "history" /\ Limit >= 2 =>
        /\ pager = "paging" =>
              \A m \in (In(over) \cap 1..had) \ (seen \cup {newest}) :
                  \E n \in In(over) : Before(m, n) /\ (p > 0 => Before(n, p))
        /\ HistoryComplete
    BY <2>4 DEF HistoryInv
  <2>7. kind = "history" /\ Limit >= 2 /\ pager = "paging" =>
              \A m \in (In(over) \cap 1..had) \ (seen \cup {newest}) :
                  \E n \in In(over)' : Before(m, n)' /\ (p > 0 => Before(n, p)')
    BY <2>2, <2>5, <2>6
  <2>8. (kind = "history" /\ Limit >= 2 => HistoryComplete')
    BY <2>1, <2>6 DEF HistoryComplete, pagerVars
  <2>9. UNCHANGED <<kind, pager, seen, newest>>
    BY <2>1 DEF pagerVars
  <2>10. kind' = "history" /\ Limit >= 2 /\ pager' = "paging" =>
              \A m \in (In(over) \cap 1..had)' \ (seen' \cup {newest'}) :
                  \E n \in In(over)' : Before(m, n)' /\ (pos' > 0 => Before(n, pos)')
    <3>1. \A n : Before(n, p)' = Before(n, pos)'
      BY <2>4 DEF Before, TS
    <3>2. QED
      BY <2>1, <2>4, <2>7, <2>9, <3>1
  <2>11. QED
    BY <2>8, <2>9, <2>10 DEF HistoryInv
<1>2. ASSUME NEW conv \in Convs, BeginHistory(conv) PROVE HistoryInv'
  <2>1. /\ pager' = "paging" /\ over' = {conv} /\ had' = Len(rows)
        /\ newest' = IF In({conv}) = {} THEN 0 ELSE LastOf(In({conv}))
        /\ UNCHANGED <<rows, kind, pos, seen>> /\ pager = "new"
    BY <1>2 DEF BeginHistory, Begin
  <2>2. In(over)' = In({conv}) /\ In({conv}) \subseteq Ids
    BY <2>1 DEF In, Ids
  <2>3. ASSUME NEW m \in In({conv}), m # newest'
        PROVE  newest' \in In({conv}) /\ Before(m, newest')
    BY <2>1, <2>2, <2>3, HasLast
  <2>4. PICK n : n = newest'
    OBVIOUS
  <2>5. \A m \in In({conv}) : m # n => n \in In({conv}) /\ Before(m, n)'
    BY <2>1, <2>3, <2>4 DEF Before, TS
  <2>6. ~(pos' > 0)
    BY <2>1 DEF NewInv
  <2>7. QED
    BY <2>1, <2>2, <2>4, <2>5, <2>6 DEF HistoryInv, HistoryComplete
<1>3. ASSUME NEW C \in SUBSET Convs, BeginPull(C) PROVE HistoryInv'
  BY <1>3 DEF BeginPull, Begin, HistoryInv
<1>4. ASSUME GetHistory PROVE HistoryInv'
  <2>a. PICK before \in {pos, 0} :
            LET found   == GetMessagesByConversation(over, before, Limit)
                hasMore == Cardinality(found) > Limit
                page    == IF hasMore THEN First(Limit, found) ELSE found
            IN  /\ kind = "history" /\ pager = "paging" /\ seen' = seen \cup page
                /\ pos' = IF hasMore THEN LastOf(page) ELSE pos
                /\ pager' = IF hasMore THEN "paging" ELSE "done"
                /\ UNCHANGED <<rows, kind, over, had, newest>>
    BY <1>4 DEF GetHistory
  <2> DEFINE S == {m \in In(over) : before > 0 => Before(m, before)}
             found == GetMessagesByConversation(over, before, Limit)
             hasMore == Cardinality(found) > Limit
             page == IF hasMore THEN First(Limit, found) ELSE found
             old == (In(over) \cap 1..had) \ (seen \cup {newest})
  <2>1. /\ kind = "history" /\ pager = "paging" /\ seen' = seen \cup page
        /\ pos' = IF hasMore THEN LastOf(page) ELSE pos
        /\ pager' = IF hasMore THEN "paging" ELSE "done"
        /\ UNCHANGED <<rows, kind, over, had, newest>>
    BY <2>a
  <2>2. /\ S \subseteq Ids /\ found \subseteq S
        /\ \A m \in S, n \in found : Before(n, m) => m \in found
        /\ hasMore => Cardinality(found) = Limit + 1
        /\ ~hasMore => found = S
    BY FoundHistory
  <2>3. In(over) \subseteq Ids /\ (pos > 0 => pos \in Ids)
        /\ In(over)' = In(over) /\ \A m, n : Before(m, n)' = Before(m, n)
    BY <2>1 DEF TypeOK, In, Ids, Before, TS
  <2>4. /\ hasMore => page = First(Limit, found)
        /\ ~hasMore => page = found
        /\ \A m \in In(over) : m \in S <=> (before > 0 => Before(m, before))
    OBVIOUS
  <2> SUFFICES ASSUME Limit >= 2 PROVE HistoryInv'
    BY DEF HistoryInv
  <2>5. ASSUME NEW m \in old
        PROVE  m \in S /\ m \in Ids /\ \E n \in S : Before(m, n)
    <3>1. PICK n \in In(over) : Before(m, n) /\ (pos > 0 => Before(n, pos))
      BY <2>1 DEF HistoryInv
    <3>2. m \in Ids /\ n \in Ids /\ n \in S /\ m \in In(over)
      BY <2>3, <2>4, <3>1
    <3>3. pos > 0 => Before(m, pos)
      BY <2>3, <3>1, <3>2, Order
    <3>4. QED
      BY <2>4, <3>1, <3>2, <3>3
  <2>6. \A m \in (In(over) \cap 1..had) \ (seen' \cup {newest}) : m \in old /\ m \notin page
    BY <2>1
  <2> HIDE DEF S, found, hasMore, page, old
  <2>7. CASE ~hasMore
    <3>1. page = S
      BY <2>2, <2>4, <2>7
    <3>2. (In(over) \cap 1..had) \ seen' \subseteq {newest}
      BY <2>5, <2>6, <3>1
    <3>3. QED
      BY <2>1, <2>3, <2>7, <3>2 DEF HistoryInv, HistoryComplete
  <2>8. CASE hasMore
    <3>1. page = found \ {LastOf(found)} /\ Cardinality(page) = Limit
          /\ found # {} /\ found \subseteq Ids
      <4>1. Cardinality(found) = Limit + 1 /\ page = First(Limit, found) /\ found \subseteq Ids
        BY <2>2, <2>4, <2>8
      <4>2. page = found \ {LastOf(found)} /\ Cardinality(page) = Limit
        BY <4>1, HistoryPage, PullAssumption
      <4>3. found # {}
        BY <4>1, FS_EmptySet, PullAssumption
      <4>4. QED
        BY <4>1, <4>2, <4>3
    <3>2. LastOf(found) \in found /\ \A m \in found : m = LastOf(found) \/ Before(m, LastOf(found))
      BY <3>1, HasLast
    <3>3. IsFiniteSet(page) /\ page # {} /\ page \subseteq Ids
      BY <3>1, FS_EmptySet, FS_Subset, MessageParts, PullAssumption
    <3>4. LastOf(page) \in page /\ \A m \in page : m = LastOf(page) \/ Before(m, LastOf(page))
      BY <3>3, HasLast
    <3>5. PICK p : p = LastOf(page)
      OBVIOUS
    <3>6. PICK q \in page : q # p
      <4>1. Cardinality(page \ {p}) = Limit - 1 /\ IsFiniteSet(page \ {p})
        BY <3>1, <3>3, <3>4, <3>5, FS_RemoveElement
      <4>2. page \ {p} # {}
        BY <4>1, FS_EmptySet, PullAssumption
      <4>3. QED
        BY <4>2
    <3>7. Before(q, p) /\ q \in found /\ q \in Ids /\ p \in Ids /\ q \in In(over) /\ pos' = p
      <4>1. q \in S
        BY <2>2, <3>1
      <4>2. S \subseteq In(over)
        BY DEF S
      <4>3. QED
        BY <2>1, <2>8, <3>1, <3>3, <3>4, <3>5, <3>6, <4>1, <4>2
    <3>8. ASSUME NEW m \in (In(over) \cap 1..had) \ (seen' \cup {newest})
          PROVE  Before(m, q)
      <4>1. m \in S /\ m \in Ids /\ m \notin page
        BY <2>5, <2>6
      <4>2. PICK n \in S : Before(m, n)
        BY <2>5, <2>6
      <4>3. m \notin found
        <5>1. SUFFICES ASSUME m \in found PROVE FALSE
          OBVIOUS
        <5>2. m = LastOf(found) /\ n \in Ids
          BY <2>2, <3>1, <4>1, <5>1
        <5>3. n \in found
          BY <2>2, <4>2, <5>1
        <5>4. n = m \/ Before(n, m)
          BY <3>2, <5>2, <5>3
        <5>5. QED
          BY <4>1, <4>2, <5>2, <5>4, Order
      <4>4. ~Before(q, m) /\ m # q
        BY <2>2, <3>7, <4>1, <4>3
      <4>5. QED
        BY <3>7, <4>1, <4>4, Order
    <3>9. pager' = "paging"
      BY <2>1, <2>8
    <3>10. \A m \in (In(over)' \cap 1..had') \ (seen' \cup {newest'}) :
              \E n \in In(over)' : Before(m, n)' /\ (pos' > 0 => Before(n, pos)')
      <4>1. Before(q, p)' /\ \A m \in (In(over) \cap 1..had) \ (seen' \cup {newest}) : Before(m, q)'
        BY <2>3, <3>7, <3>8
      <4>2. Before(q, pos)'
        BY <3>7, <4>1 DEF Before, TS
      <4>3. QED
        BY <2>1, <2>3, <3>7, <4>1, <4>2
    <3>11. QED
      BY <2>1, <3>9, <3>10 DEF HistoryInv, HistoryComplete
  <2>9. QED
    BY <2>7, <2>8
<1>5. ASSUME PullOfflineMessagesV2 PROVE HistoryInv'
  BY <1>5 DEF PullOfflineMessagesV2, HistoryInv
<1>6. ASSUME NEW c \in Conns, SendOfflineMessages(c) PROVE HistoryInv'
  BY <1>6, <1>u DEF SendOfflineMessages, StartPull, wsVars, pagerVars
<1>7. ASSUME NEW c \in Conns, HandlePullOffline(c) PROVE HistoryInv'
  BY <1>7, <1>u DEF HandlePullOffline, StartPull, wsVars, pagerVars
<1>8. ASSUME NEW c \in Conns, PullConversation(c) PROVE HistoryInv'
  BY <1>8, <1>u DEF PullConversation, wsVars, pagerVars
<1>9. ASSUME NEW c \in Conns, SendBatch(c) PROVE HistoryInv'
  BY <1>9, <1>u DEF SendBatch, EndPull, wsVars, pagerVars
<1>10. ASSUME NEW c \in Conns, UpdateCursor(c) PROVE HistoryInv'
  BY <1>10, <1>u DEF UpdateCursor, EndPull, wsVars, pagerVars
<1>11. ASSUME NEW c \in Conns, PullFails(c) PROVE HistoryInv'
  BY <1>11, <1>u DEF PullFails, EndPull, wsVars, pagerVars
<1>12. ASSUME HandleSyncCursor PROVE HistoryInv'
  BY <1>12, <1>u DEF HandleSyncCursor, wsVars, pagerVars
<1>13. ASSUME Restart PROVE HistoryInv'
  BY <1>13, <1>u DEF Restart, wsVars, pagerVars
<1>14. ASSUME UNCHANGED vars PROVE HistoryInv'
  BY <1>14, <1>u DEF vars
<1>15. ASSUME NEW conv \in Convs PROVE {conv} \in SUBSET Convs /\ Convs \in SUBSET Convs
  OBVIOUS
<1>16. QED
  BY <1>1, <1>2, <1>3, <1>4, <1>5, <1>6, <1>7, <1>8, <1>9, <1>10, <1>11,
     <1>12, <1>13, <1>14, <1>15 DEF Next

-----------------------------------------------------------------------------
(* The inductive invariant holds in every reachable state.                 *)
THEOREM Invariant == Spec => []IInv
<1>1. IInv /\ [Next]_vars => IInv'
  BY TypeNext, NewNext, PullNext, HistoryNext, TimesNext, SentNext DEF IInv
<1>2. QED
  BY <1>1, InvInit, PTL DEF Spec

(* Stored messages, pages, cursors and pulls stay in their types: what a   *)
(* reader holds are messages that are stored.                              *)
THEOREM TypeCorrect == Spec => []TypeOK
<1>1. IInv => TypeOK
  BY DEF IInv
<1>2. QED
  BY <1>1, Invariant, PTL

(* GetHistory, followed by the last message of each page, gives all that   *)
(* was stored at the beginning, but the newest one, for every limit of two *)
(* or more.                                                                *)
THEOREM HistoryGivesAll == Spec => []HistoryComplete
<1>1. IInv => HistoryComplete
  BY DEF IInv, HistoryInv, HistoryComplete
<1>2. QED
  BY <1>1, Invariant, PTL

(* PullOfflineMessagesV2, followed until a page is not full, gives all     *)
(* that was stored at the beginning, for every limit.                      *)
THEOREM PullGivesAll == Spec => []PullComplete
<1>1. IInv => PullComplete
  BY DEF IInv, PullInv, PullComplete
<1>2. QED
  BY <1>1, Invariant, PTL

(* And gives nothing twice.                                                *)
THEOREM PullGivesOnce == Spec => PullOnce
<1>1. IInv /\ [Next]_vars =>
         [PullOfflineMessagesV2 => GetMessagesByCursor(over, pos, Limit) \cap seen = {}]_vars
  <2>1. SUFFICES ASSUME IInv, PullOfflineMessagesV2,
                        NEW m \in GetMessagesByCursor(over, pos, Limit), m \in seen
                 PROVE  FALSE
    OBVIOUS
  <2>2. kind = "v2"
    BY <2>1 DEF PullOfflineMessagesV2
  <2>3. pos > 0 /\ ~Before(pos, m)
    BY <2>1, <2>2 DEF IInv, PullInv
  <2>4. pos > 0 => Before(pos, m)
    BY <2>1 DEF GetMessagesByCursor, First
  <2>5. QED
    BY <2>3, <2>4
<1>2. QED
  BY <1>1, Invariant, PTL DEF Spec, PullOnce

(* Whatever is not after the cursor that the server keeps was sent, or     *)
(* stands behind a message of another conversation, of the same time, or   *)
(* stored before it: nothing else is lost to its user.                     *)
THEOREM SkipsExplained == Spec => []CursorSkipsExplained
<1>1. IInv => CursorSkipsExplained
  BY ExplainedTime DEF IInv, TimesInv, CursorSkipsExplained
<1>2. QED
  BY <1>1, Invariant, PTL

=============================================================================
