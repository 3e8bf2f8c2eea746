--------------------------- MODULE PresenceProofs ---------------------------
(***************************************************************************)
(* Proofs about Presence for every set of instances and goroutines, every  *)
(* number of connections and of events, and all times that its assumptions *)
(* admit: type correctness, that a user who has left is forgotten, and     *)
(* that the key of a connected user lasts.                                 *)
(***************************************************************************)
EXTENDS Presence, TLAPS

Late(what, i) == IF <<what, i>> \in slow THEN 1 ELSE 0

(* Only a process that runs has connections, and time counts as the user's *)
(* absence while there are none.                                           *)
ConnInv ==
    /\ \A i \in Instances : Connected(i) => i \in up
    /\ gone > 0 => \A i \in Instances : ~Connected(i)

(* The longer the user is gone, the less is left of what was true once: of *)
(* an online call or a refresh that was under way, of the key, of a read,  *)
(* of a cache entry.                                                       *)
GoneInv ==
    /\ \A k \in calls : k.op = "online" => gone <= IF k.old THEN 1 ELSE 0
    /\ \A i \in Instances : task[i] # "idle" => gone <= Late("task", i)
    /\ ttl > 0 => gone + ttl <= PresenceTTL + 2
    /\ \A i \in Instances : reader[i] = "found" => gone <= PresenceTTL + 1 + Late("reader", i)
    /\ \A i \in cached : fresh[i] > 0 => gone + fresh[i] <= PresenceTTL + CacheTime + 3

(* The ticks that can pass until an instance has extended the key: those   *)
(* to its next refresh that cannot fail, and one until that reaches Redis. *)
Need(i) ==
    IF task[i] = "expire"
    THEN IF i \in missed THEN 1 - Late("task", i) ELSE due[i] + 1
    ELSE IF task[i] = "idle" /\ i \in missed THEN due[i] + 1
         ELSE due[i] + RefreshPeriod + 1

(* The key of an instance that keeps it does not come to its last unit     *)
(* before then.                                                            *)
KeptInv == \A i \in kept : Connected(i) /\ ttl > Need(i) + 1

IInv == TypeOK /\ ConnInv /\ GoneInv /\ KeptInv

-----------------------------------------------------------------------------
(* The assumptions about the times, as the provers take them.              *)
LEMMA Times ==
  /\ MaxConns \in Nat /\ MaxEvents \in Nat /\ Horizon \in Nat
  /\ CacheTime \in Nat /\ CacheTime > 0 /\ RefreshPeriod \in Nat /\ RefreshPeriod > 1
  /\ PresenceTTL \in Nat /\ PresenceTTL > 2 * RefreshPeriod + 1 /\ CacheTime <= PresenceTTL
  BY PresenceAssumption

(* In the beginning nobody is connected and nothing is known.              *)
LEMMA InvInit == Init => IInv
<1> SUFFICES ASSUME Init PROVE IInv
  OBVIOUS
<1> USE Times DEF Init
<1>1. TypeOK
  BY DEF TypeOK
<1>2. ConnInv
  BY DEF ConnInv, Connected
<1>3. GoneInv
  BY DEF GoneInv, Late
<1>4. KeptInv
  BY DEF KeptInv
<1>5. QED
  BY <1>1, <1>2, <1>3, <1>4 DEF IInv

(* A goroutine more, with an identity that was free.                       *)
LEMMA SpawnType ==
  ASSUME TypeOK, NEW i \in Instances, NEW op \in {"online", "offline"}, Spawn(i, op)
  PROVE  calls' \subseteq [id : CallIds, op : Ops, from : Instances, old : BOOLEAN]
<1>1. PICK id \in CallIds :
         calls' = calls \cup {[id |-> id, op |-> op, from |-> i, old |-> FALSE]}
  BY DEF Spawn
<1>2. [id |-> id, op |-> op, from |-> i, old |-> FALSE]
         \in [id : CallIds, op : Ops, from : Instances, old : BOOLEAN]
  BY DEF Ops
<1>3. QED
  BY <1>1, <1>2 DEF TypeOK

(* A task or a reader that ends is not late any more; the others stay.     *)
LEMMA LateMoves ==
  ASSUME NEW i \in Instances, NEW j \in Instances
  PROVE  /\ \A what \in {"task", "reader"} :
               /\ Late(what, j) \in {0, 1}
               /\ slow' = slow => Late(what, j)' = Late(what, j)
         /\ slow' = slow \ {<<"task", i>>} =>
               /\ Late("reader", j)' = Late("reader", j)
               /\ j # i => Late("task", j)' = Late("task", j)
         /\ slow' = slow \ {<<"reader", i>>} =>
               /\ Late("task", j)' = Late("task", j)
               /\ j # i => Late("reader", j)' = Late("reader", j)
<1>1. /\ <<"reader", j>> # <<"task", i>> /\ <<"task", j>> # <<"reader", i>>
      /\ j # i => <<"task", j>> # <<"task", i>> /\ <<"reader", j>> # <<"reader", i>>
  OBVIOUS
<1>2. \A what \in {"task", "reader"} :
         /\ Late(what, j) \in {0, 1}
         /\ slow' = slow => Late(what, j)' = Late(what, j)
  BY DEF Late
<1>3. slow' = slow \ {<<"task", i>>} =>
         /\ Late("reader", j)' = Late("reader", j)
         /\ j # i => Late("task", j)' = Late("task", j)
  BY <1>1 DEF Late
<1>4. slow' = slow \ {<<"reader", i>>} =>
         /\ Late("task", j)' = Late("task", j)
         /\ j # i => Late("reader", j)' = Late("reader", j)
  BY <1>1 DEF Late
<1>5. QED
  BY <1>2, <1>3, <1>4

(* The ticks an instance needs are fewer than those of a new key.          *)
LEMMA NeedType ==
  ASSUME TypeOK
  PROVE  \A j \in Instances : Need(j) \in Nat /\ Need(j) < PresenceTTL
<1> SUFFICES ASSUME NEW j \in Instances PROVE Need(j) \in Nat /\ Need(j) < PresenceTTL
  OBVIOUS
<1>1. Late("task", j) \in {0, 1} /\ due[j] \in 0..RefreshPeriod
  BY DEF Late, TypeOK
<1>2. QED
  BY <1>1, Times DEF Need

(* The same after a step.                                                  *)
LEMMA NeedTypeNext ==
  ASSUME TypeOK'
  PROVE  \A j \in Instances : Need(j)' \in Nat /\ Need(j)' < PresenceTTL
<1> SUFFICES ASSUME NEW j \in Instances PROVE Need(j)' \in Nat /\ Need(j)' < PresenceTTL
  OBVIOUS
<1>1. Late("task", j)' \in {0, 1} /\ due'[j] \in 0..RefreshPeriod
  BY DEF Late, TypeOK
<1>2. QED
  BY <1>1, Times DEF Need

-----------------------------------------------------------------------------
(* A step keeps the types.                                                 *)
LEMMA TypeNext == TypeOK /\ [Next]_vars => TypeOK'
<1> SUFFICES ASSUME TypeOK, [Next]_vars PROVE TypeOK'
  OBVIOUS
<1> USE Times DEF redisVars, cacheVars, taskVars
<1>1. ASSUME NEW i \in Instances, Register(i) PROVE TypeOK'
  <2>1. calls' \subseteq [id : CallIds, op : Ops, from : Instances, old : BOOLEAN]
    BY <1>1, SpawnType DEF Register
  <2>2. QED
    BY <1>1, <2>1 DEF Register, Event, TypeOK
<1>2. ASSUME NEW i \in Instances, Unregister(i) PROVE TypeOK'
  <2>1. calls' \subseteq [id : CallIds, op : Ops, from : Instances, old : BOOLEAN]
    BY <1>2, SpawnType DEF Unregister
  <2>2. QED
    BY <1>2, <2>1 DEF Unregister, Connected, TypeOK
<1>3. ASSUME NEW i \in Instances, UnregisterForAuth(i) PROVE TypeOK'
  <2>1. calls' \subseteq [id : CallIds, op : Ops, from : Instances, old : BOOLEAN]
    BY <1>3, SpawnType DEF UnregisterForAuth
  <2>2. QED
    BY <1>3, <2>1 DEF UnregisterForAuth, Event, TypeOK
<1>4. ASSUME NEW i \in Instances, Stop(i) PROVE TypeOK'
  BY <1>4 DEF Stop, Event, TypeOK
<1>5. ASSUME NEW i \in Instances, Start(i) PROVE TypeOK'
  BY <1>5 DEF Start, TypeOK
<1>6. ASSUME NEW i \in Instances, CleanupTick(i) PROVE TypeOK'
  BY <1>6 DEF CleanupTick, CleanupLocalCache, Connected, TypeOK
<1>7. ASSUME NEW i \in Instances, RefreshUserTTL(i) PROVE TypeOK'
  BY <1>7 DEF RefreshUserTTL, Connected, TypeOK
<1>8. ASSUME NEW i \in Instances, ExtendCache(i) PROVE TypeOK'
  BY <1>8 DEF ExtendCache, TypeOK
<1>9. ASSUME NEW i \in Instances, GetUserPresence(i) PROVE TypeOK'
  BY <1>9 DEF GetUserPresence, TypeOK
<1>10. ASSUME NEW i \in Instances, FillCache(i) PROVE TypeOK'
  BY <1>10 DEF FillCache, TypeOK
<1>11. ASSUME NEW k \in calls, SetUserOnline(k) PROVE TypeOK'
  BY <1>11 DEF SetUserOnline, Connected, TypeOK
<1>12. ASSUME NEW k \in calls, SetUserOffline(k) PROVE TypeOK'
  <2>1. calls' \subseteq [id : CallIds, op : Ops, from : Instances, old : BOOLEAN]
    BY <1>12 DEF SetUserOffline, TypeOK, Ops
  <2>2. QED
    BY <1>12, <2>1 DEF SetUserOffline, TypeOK
<1>13. ASSUME NEW k \in calls, ClearLocalCache(k) PROVE TypeOK'
  BY <1>13 DEF ClearLocalCache, TypeOK
<1>14. ASSUME Tick PROVE TypeOK'
  <2>1. calls' \subseteq [id : CallIds, op : Ops, from : Instances, old : BOOLEAN]
    BY <1>14 DEF Tick, TypeOK
  <2>2. slow' \subseteq {"task", "reader"} \X Instances
    BY <1>14 DEF Tick
  <2>3. ttl' \in 0..PresenceTTL + 1 /\ fresh' \in [Instances -> 0..PresenceTTL + 1]
    BY <1>14 DEF Tick, Less, TypeOK
  <2>4. due' \in [Instances -> 0..RefreshPeriod] /\ gone' \in 0..Horizon
    BY <1>14 DEF Tick, TypeOK
  <2>5. QED
    BY <1>14, <2>1, <2>2, <2>3, <2>4 DEF Tick, TypeOK
<1>17. ASSUME KeyExpires PROVE TypeOK'
  BY <1>17 DEF KeyExpires, TypeOK
<1>18. ASSUME NEW i \in Instances, EntryExpires(i) PROVE TypeOK'
  BY <1>18 DEF EntryExpires, TypeOK
<1>15. ASSUME UNCHANGED vars PROVE TypeOK'
  BY <1>15 DEF vars, TypeOK
<1>16. QED
  BY <1>1, <1>2, <1>3, <1>4, <1>5, <1>6, <1>7, <1>8, <1>9, <1>10, <1>11,
     <1>12, <1>13, <1>14, <1>15, <1>17, <1>18 DEF Next

(* Connections come to running processes, and end the absence.             *)
LEMMA ConnNext == TypeOK /\ ConnInv /\ [Next]_vars => ConnInv'
<1> SUFFICES ASSUME TypeOK, ConnInv, [Next]_vars PROVE ConnInv'
  OBVIOUS
<1> USE Times DEF TypeOK, ConnInv, Connected, redisVars, cacheVars, taskVars
<1>1. ASSUME NEW i \in Instances, Register(i) PROVE ConnInv'
  BY <1>1 DEF Register, Event, Spawn
<1>2. ASSUME NEW i \in Instances, Unregister(i) PROVE ConnInv'
  BY <1>2 DEF Unregister, Spawn
<1>3. ASSUME NEW i \in Instances, UnregisterForAuth(i) PROVE ConnInv'
  BY <1>3 DEF UnregisterForAuth, Event, Spawn
<1>4. ASSUME NEW i \in Instances, Stop(i) PROVE ConnInv'
  BY <1>4 DEF Stop, Event
<1>5. ASSUME NEW i \in Instances, Start(i) PROVE ConnInv'
  BY <1>5 DEF Start
<1>6. ASSUME NEW i \in Instances, CleanupTick(i) PROVE ConnInv'
  BY <1>6 DEF CleanupTick, CleanupLocalCache
<1>7. ASSUME NEW i \in Instances, RefreshUserTTL(i) PROVE ConnInv'
  BY <1>7 DEF RefreshUserTTL
<1>8. ASSUME NEW i \in Instances, ExtendCache(i) PROVE ConnInv'
  BY <1>8 DEF ExtendCache
<1>9. ASSUME NEW i \in Instances, GetUserPresence(i) PROVE ConnInv'
  BY <1>9 DEF GetUserPresence
<1>10. ASSUME NEW i \in Instances, FillCache(i) PROVE ConnInv'
  BY <1>10 DEF FillCache
<1>11. ASSUME NEW k \in calls, SetUserOnline(k) PROVE ConnInv'
  BY <1>11 DEF SetUserOnline
<1>12. ASSUME NEW k \in calls, SetUserOffline(k) PROVE ConnInv'
  BY <1>12 DEF SetUserOffline
<1>13. ASSUME NEW k \in calls, ClearLocalCache(k) PROVE ConnInv'
  BY <1>13 DEF ClearLocalCache
<1>14. ASSUME Tick PROVE ConnInv'
  BY <1>14 DEF Tick, Less
<1>17. ASSUME KeyExpires PROVE ConnInv'
  BY <1>17 DEF KeyExpires
<1>18. ASSUME NEW i \in Instances, EntryExpires(i) PROVE ConnInv'
  BY <1>18 DEF EntryExpires
<1>15. ASSUME UNCHANGED vars PROVE ConnInv'
  BY <1>15 DEF vars
<1>16. QED
  BY <1>1, <1>2, <1>3, <1>4, <1>5, <1>6, <1>7, <1>8, <1>9, <1>10, <1>11,
     <1>12, <1>13, <1>14, <1>15, <1>17, <1>18 DEF Next

(* What was true while the user was there lasts no longer than before.     *)
LEMMA GoneNext == TypeOK /\ ConnInv /\ GoneInv /\ [Next]_vars => GoneInv'
<1> SUFFICES ASSUME TypeOK, ConnInv, GoneInv, [Next]_vars PROVE GoneInv'
  OBVIOUS
<1> USE Times DEF TypeOK, ConnInv, GoneInv, Connected, Late, redisVars, cacheVars, taskVars
<1>1. ASSUME NEW i \in Instances, Register(i) PROVE GoneInv'
  BY <1>1 DEF Register, Event, Spawn
<1>2. ASSUME NEW i \in Instances, Unregister(i) PROVE GoneInv'
  BY <1>2 DEF Unregister, Spawn
<1>3. ASSUME NEW i \in Instances, UnregisterForAuth(i) PROVE GoneInv'
  BY <1>3 DEF UnregisterForAuth, Event, Spawn
<1>4. ASSUME NEW i \in Instances, Stop(i) PROVE GoneInv'
  BY <1>4 DEF Stop, Event
<1>5. ASSUME NEW i \in Instances, Start(i) PROVE GoneInv'
  BY <1>5 DEF Start
<1>6. ASSUME NEW i \in Instances, CleanupTick(i) PROVE GoneInv'
  BY <1>6 DEF CleanupTick, CleanupLocalCache
<1>7. ASSUME NEW i \in Instances, RefreshUserTTL(i) PROVE GoneInv'
  <2> HIDE DEF Late
  <2>1. gone <= 1 /\ UNCHANGED <<gone, calls, cached, fresh, reader>>
    BY <1>7, LateMoves DEF RefreshUserTTL
  <2>2. ttl' > 0 => gone' + ttl' <= PresenceTTL + 2
    BY <1>7, <2>1 DEF RefreshUserTTL
  <2>3. \A j \in Instances : task'[j] # "idle" => gone' <= Late("task", j)'
    BY <1>7, <2>1, LateMoves DEF RefreshUserTTL
  <2>4. \A j \in Instances : Late("reader", j)' = Late("reader", j)
    BY <1>7, LateMoves DEF RefreshUserTTL
  <2>5. QED
    BY <2>1, <2>2, <2>3, <2>4
<1>8. ASSUME NEW i \in Instances, ExtendCache(i) PROVE GoneInv'
  <2> HIDE DEF Late
  <2>1. gone <= 1 /\ UNCHANGED <<gone, calls, cached, ttl, reader>>
    BY <1>8, LateMoves DEF ExtendCache
  <2>2. \A j \in cached : fresh'[j] > 0 => gone' + fresh'[j] <= PresenceTTL + CacheTime + 3
    BY <1>8, <2>1 DEF ExtendCache
  <2>3. \A j \in Instances : task'[j] # "idle" => gone' <= Late("task", j)'
    BY <1>8, <2>1, LateMoves DEF ExtendCache
  <2>4. \A j \in Instances : Late("reader", j)' = Late("reader", j)
    BY <1>8, LateMoves DEF ExtendCache
  <2>5. QED
    BY <2>1, <2>2, <2>3, <2>4
<1>9. ASSUME NEW i \in Instances, GetUserPresence(i) PROVE GoneInv'
  BY <1>9 DEF GetUserPresence
<1>10. ASSUME NEW i \in Instances, FillCache(i) PROVE GoneInv'
  <2> HIDE DEF Late
  <2>1. gone <= PresenceTTL + 2 /\ UNCHANGED <<gone, calls, ttl, task>>
    BY <1>10, LateMoves DEF FillCache
  <2>2. \A j \in cached' : fresh'[j] > 0 => gone' + fresh'[j] <= PresenceTTL + CacheTime + 3
    BY <1>10, <2>1 DEF FillCache
  <2>3. \A j \in Instances : reader'[j] = "found" => gone' <= PresenceTTL + 1 + Late("reader", j)'
    BY <1>10, <2>1, LateMoves DEF FillCache
  <2>4. \A j \in Instances : Late("task", j)' = Late("task", j)
    BY <1>10, LateMoves DEF FillCache
  <2>5. QED
    BY <2>1, <2>2, <2>3, <2>4
<1>11. ASSUME NEW k \in calls, SetUserOnline(k) PROVE GoneInv'
  BY <1>11 DEF SetUserOnline
<1>12. ASSUME NEW k \in calls, SetUserOffline(k) PROVE GoneInv'
  BY <1>12 DEF SetUserOffline
<1>13. ASSUME NEW k \in calls, ClearLocalCache(k) PROVE GoneInv'
  BY <1>13 DEF ClearLocalCache
<1>14. ASSUME Tick PROVE GoneInv'
  BY <1>14 DEF Tick, Less
<1>17. ASSUME KeyExpires PROVE GoneInv'
  BY <1>17 DEF KeyExpires
<1>18. ASSUME NEW i \in Instances, EntryExpires(i) PROVE GoneInv'
  BY <1>18 DEF EntryExpires
<1>15. ASSUME UNCHANGED vars PROVE GoneInv'
  BY <1>15 DEF vars
<1>16. QED
  BY <1>1, <1>2, <1>3, <1>4, <1>5, <1>6, <1>7, <1>8, <1>9, <1>10, <1>11,
     <1>12, <1>13, <1>14, <1>15, <1>17, <1>18 DEF Next

(* A key that is kept is extended in time.                                 *)
LEMMA KeptNext == TypeOK /\ ConnInv /\ KeptInv /\ [Next]_vars => KeptInv'
<1> SUFFICES ASSUME TypeOK, ConnInv, KeptInv, [Next]_vars PROVE KeptInv'
  OBVIOUS
<1>0. TypeOK'
  BY TypeNext
<1> USE Times DEF TypeOK, ConnInv, KeptInv, Connected, Need, Late,
        redisVars, cacheVars, taskVars
<1>a. \A j \in Instances :
         Need(j) \in Nat /\ Need(j)' \in Nat /\ Need(j)' < PresenceTTL
  BY <1>0, NeedType, NeedTypeNext
<1>1. ASSUME NEW i \in Instances, Register(i) PROVE KeptInv'
  <2> HIDE DEF Need, Late
  <2>1. UNCHANGED <<ttl, kept>> /\ \A j \in kept : conns'[j] > 0
    BY <1>1 DEF Register, Event, Spawn
  <2>2. \A j \in kept : Need(j)' <= Need(j)
    <3>1. \A j \in kept : j # i => Need(j)' = Need(j)
      BY <1>1, LateMoves DEF Register, Event, Spawn, Need
    <3>2. i \in kept => Need(i)' <= Need(i)
      BY <1>1, LateMoves DEF Register, Event, Spawn, Need
    <3>3. QED
      BY <3>1, <3>2, <1>a
  <2>3. QED
    BY <2>1, <2>2, <1>a
<1>2. ASSUME NEW i \in Instances, Unregister(i) PROVE KeptInv'
  BY <1>2 DEF Unregister, Spawn
<1>3. ASSUME NEW i \in Instances, UnregisterForAuth(i) PROVE KeptInv'
  BY <1>3 DEF UnregisterForAuth, Event, Spawn
<1>4. ASSUME NEW i \in Instances, Stop(i) PROVE KeptInv'
  BY <1>4 DEF Stop, Event
<1>5. ASSUME NEW i \in Instances, Start(i) PROVE KeptInv'
  BY <1>5 DEF Start
<1>6. ASSUME NEW i \in Instances, CleanupTick(i) PROVE KeptInv'
  <2> HIDE DEF Need, Late
  <2>1. UNCHANGED <<ttl, kept>> /\ \A j \in kept : conns'[j] > 0
    BY <1>6 DEF CleanupTick, CleanupLocalCache
  <2>2. \A j \in kept : Need(j)' <= Need(j)
    <3>1. \A j \in kept : j # i => Need(j)' = Need(j)
      BY <1>6, LateMoves DEF CleanupTick, CleanupLocalCache, Need
    <3>2. i \in kept => Need(i)' <= Need(i)
      BY <1>6, LateMoves DEF CleanupTick, CleanupLocalCache, Need
    <3>3. QED
      BY <3>1, <3>2, <1>a
  <2>3. QED
    BY <2>1, <2>2, <1>a
<1>7. ASSUME NEW i \in Instances, RefreshUserTTL(i) PROVE KeptInv'
  <2> HIDE DEF Need, Late
  <2>1. \A j \in kept' : j \in Instances /\ conns'[j] > 0
    BY <1>7 DEF RefreshUserTTL
  <2>2. CASE i \notin missed /\ missed' = missed \cup {i} /\ UNCHANGED <<ttl, kept>>
    <3>1. task[i] = "expire" /\ task' = [task EXCEPT ![i] = "idle"] /\ UNCHANGED due
      BY <1>7, <2>2 DEF RefreshUserTTL
    <3>2. Need(i)' = Need(i)
      BY <2>2, <3>1 DEF Need
    <3>3. \A j \in Instances : j # i => Need(j)' = Need(j)
      BY <1>7, <2>2, <3>1, LateMoves DEF RefreshUserTTL, Need
    <3>4. QED
      BY <2>1, <2>2, <3>2, <3>3
  <2>3. CASE ttl' = IF ttl > 0 THEN PresenceTTL + 1 ELSE 0
    <3>1. kept' # {} => ttl > 0
      BY <1>7, <1>a DEF RefreshUserTTL
    <3>2. QED
      BY <2>1, <2>3, <3>1, <1>a
  <2>4. QED
    BY <1>7, <2>2, <2>3 DEF RefreshUserTTL
<1>8. ASSUME NEW i \in Instances, ExtendCache(i) PROVE KeptInv'
  <2> HIDE DEF Need, Late
  <2>1. UNCHANGED <<ttl, kept>> /\ \A j \in kept : conns'[j] > 0
    BY <1>8 DEF ExtendCache
  <2>2. \A j \in kept : Need(j)' <= Need(j)
    <3>1. \A j \in kept : j # i => Need(j)' = Need(j)
      BY <1>8, LateMoves DEF ExtendCache, Need
    <3>2. i \in kept => Need(i)' <= Need(i)
      BY <1>8, LateMoves DEF ExtendCache, Need
    <3>3. QED
      BY <3>1, <3>2, <1>a
  <2>3. QED
    BY <2>1, <2>2, <1>a
<1>9. ASSUME NEW i \in Instances, GetUserPresence(i) PROVE KeptInv'
  BY <1>9 DEF GetUserPresence
<1>10. ASSUME NEW i \in Instances, FillCache(i) PROVE KeptInv'
  BY <1>10 DEF FillCache
<1>11. ASSUME NEW k \in calls, SetUserOnline(k) PROVE KeptInv'
  <2> HIDE DEF Need, Late
  <2>1. \A j \in kept' : j \in Instances /\ conns'[j] > 0
    BY <1>11 DEF SetUserOnline
  <2>2. CASE ttl' = PresenceTTL + 1
    BY <2>1, <2>2, <1>a
  <2>3. CASE UNCHANGED <<ttl, kept>>
    <3>1. \A j \in Instances : Need(j)' = Need(j)
      BY <1>11, LateMoves DEF SetUserOnline, Need
    <3>2. QED
      BY <2>1, <2>3, <3>1
  <2>4. QED
    BY <1>11, <2>2, <2>3 DEF SetUserOnline
<1>12. ASSUME NEW k \in calls, SetUserOffline(k) PROVE KeptInv'
  BY <1>12 DEF SetUserOffline
<1>13. ASSUME NEW k \in calls, ClearLocalCache(k) PROVE KeptInv'
  BY <1>13 DEF ClearLocalCache
<1>14. ASSUME Tick PROVE KeptInv'
  BY <1>14 DEF Tick, Less
<1>17. ASSUME KeyExpires PROVE KeptInv'
  BY <1>17 DEF KeyExpires
<1>18. ASSUME NEW i \in Instances, EntryExpires(i) PROVE KeptInv'
  BY <1>18 DEF EntryExpires
<1>15. ASSUME UNCHANGED vars PROVE KeptInv'
  BY <1>15 DEF vars
<1>16. QED
  BY <1>1, <1>2, <1>3, <1>4, <1>5, <1>6, <1>7, <1>8, <1>9, <1>10, <1>11,
     <1>12, <1>13, <1>14, <1>15, <1>17, <1>18 DEF Next

-----------------------------------------------------------------------------
(* The inductive invariant holds in every reachable state.                 *)
THEOREM Invariant == Spec => []IInv
<1>1. IInv /\ [Next]_vars => IInv'
  BY TypeNext, ConnNext, GoneNext, KeptNext DEF IInv
<1>2. QED
  BY <1>1, InvInit, PTL DEF Spec

(* The hub's goroutines, the cleanup task and the reads keep key, cache    *)
(* and tickers in their types: no time to live outgrows PresenceTTL.       *)
THEOREM TypeCorrect == Spec => []TypeOK
<1>1. IInv => TypeOK
  BY DEF IInv
<1>2. QED
  BY <1>1, Invariant, PTL

(* Whatever is late when the last connection ends - an online call, a      *)
(* refresh, a read - is forgotten one life of the key, one of a cache entry*)
(* and the time of two calls later.                                        *)
THEOREM Forgotten == Spec => []GoneIsForgotten
<1>1. IInv => GoneIsForgotten
  <2> SUFFICES ASSUME IInv, NEW i \in Instances,
                      IsUserOnline(i) \/ GetUsersOnline(i) \/ GetOnlineUsers(i)
               PROVE  gone <= PresenceTTL + CacheTime + 2
    BY DEF GoneIsForgotten
  <2> USE Times DEF IInv, TypeOK
  <2>2. CASE Connected(i)
    BY <2>2 DEF ConnInv
  <2>3. CASE CacheHit(i)
    BY <2>3 DEF CacheHit, GoneInv
  <2>4. CASE reader[i] = "found"
    <3>1. Late("reader", i) \in {0, 1}
      BY DEF Late
    <3>2. QED
      BY <2>4, <3>1 DEF GoneInv
  <2>5. CASE ttl > 0
    BY <2>5 DEF GoneInv
  <2>6. QED
    BY <2>2, <2>3, <2>4, <2>5 DEF IsUserOnline, GetUsersOnline, GetOnlineUsers
<1>2. QED
  BY <1>1, Invariant, PTL

(* A TTL of more than two refresh periods and a unit is enough for every   *)
(* second refresh to fail and each to take its time.                       *)
THEOREM KeyLasts == Spec => []HeldKeyLasts
<1>1. IInv => HeldKeyLasts
  <2>1. ASSUME IInv, NEW i \in kept PROVE ttl > 0
    <3>1. i \in Instances /\ ttl > Need(i) + 1 /\ Need(i) \in Nat /\ ttl \in Nat
      BY <2>1, NeedType, Times DEF IInv, KeptInv, TypeOK
    <3>2. QED
      BY <3>1
  <2>2. QED
    BY <2>1 DEF HeldKeyLasts
<1>2. QED
  BY <1>1, Invariant, PTL

=============================================================================
