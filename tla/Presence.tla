------------------------------ MODULE Presence ------------------------------
(***************************************************************************)
(* The online status of one user, as the server instances share it through *)
(* Redis: a key with a time to live that Run's goroutines set and delete   *)
(* when a connection comes or goes, the cleanup task of every instance     *)
(* that extends it, and the local cache in front of the reads.  Users do   *)
(* not interact (one key and one cache entry each), so one user is all.    *)
(*                                                                         *)
(* Time passes in units of the cache's five seconds, and what happens      *)
(* within a unit may happen at any moment of it.  A life of n units that   *)
(* begins in one therefore ends in the nth after it, at any moment of that *)
(* one: what is left of it counts from n + 1, at 1 it may end, and the     *)
(* tick that follows ends it.  Whatever waits for Redis is over before the *)
(* second tick after its start: SetUserOnline and SetUserOffline have a    *)
(* deadline of one unit (a call given up does not reach Redis later), and  *)
(* for the reads and the refreshes this is an assumption on Redis and the  *)
(* number of users.                                                        *)
(***************************************************************************)
EXTENDS Naturals, FiniteSets

CONSTANTS
    Instances,      \* server processes
    CallIds,        \* identities of the goroutines Run starts
    MaxConns,       \* connections the user may have with one instance
    PresenceTTL,    \* Hub.PresenceTTL (30 s, 6 units)
    RefreshPeriod,  \* of the cleanup ticker (10 s, 2 units)
    MaxEvents,      \* bound of the registrations, re-registrations and stops
    CacheTime,      \* life of an entry GetUserPresence makes (5 s, 1 unit)
    Horizon         \* bound of the clock that runs while the user is gone

ASSUME PresenceAssumption ==
    /\ MaxConns \in Nat /\ MaxEvents \in Nat /\ Horizon \in Nat
    /\ CacheTime \in Nat \ {0} /\ RefreshPeriod \in Nat \ {0, 1}
    /\ PresenceTTL \in Nat /\ PresenceTTL > 2 * RefreshPeriod + 1
    /\ CacheTime <= PresenceTTL

VARIABLES
    up,         \* the instances that run
    events,     \* how many of them there were
    conns,      \* connections of the user in UserConns of each instance
    ttl,        \* units left of the key in Redis, 0 when there is none
    cached,     \* the instances whose localCache has an entry
    fresh,      \* units left until its expiry
    calls,      \* goroutines that set the user online or offline
    due,        \* until the cleanup ticker of each instance fires
    task,       \* where RefreshLocalUsersTTL stands for the user
    reader,     \* where a GetUserPresence stands
    slow,       \* tasks and readers that started before the last tick
    \* what the properties remember
    gone,       \* how long the user has had no connection anywhere
    kept,       \* instances that set or extended the key of a user who has
                \* been connected to them ever since
    missed      \* instances whose last refresh failed

redisVars == <<ttl, calls>>
cacheVars == <<cached, fresh>>
taskVars  == <<due, task, missed>>
vars == <<up, events, conns, redisVars, cacheVars, taskVars, reader, slow, gone, kept>>

Ops == {"online", "offline", "clear"}

Connected(i) == conns[i] > 0

Init ==
    /\ up = Instances /\ events = 0
    /\ conns = [i \in Instances |-> 0]
    /\ ttl = 0
    /\ cached = {} /\ fresh = [i \in Instances |-> 0]
    /\ calls = {}
    /\ due = [i \in Instances |-> RefreshPeriod]
    /\ task = [i \in Instances |-> "idle"]
    /\ reader = [i \in Instances |-> "idle"]
    /\ slow = {}
    /\ gone = 0 /\ kept = {} /\ missed = {}

-----------------------------------------------------------------------------
(* Run: the maps, and a goroutine for Redis.                               *)

Spawn(i, op) ==
    \E id \in CallIds :
        /\ \A k \in calls : k.id # id
        /\ calls' = calls \cup {[id |-> id, op |-> op, from |-> i, old |-> FALSE]}

Event == events < MaxEvents /\ events' = events + 1

(* The Register case, for a connection with the user's id.                 *)
Register(i) ==
    /\ i \in up /\ conns[i] < MaxConns /\ Event
    /\ conns' = [conns EXCEPT ![i] = @ + 1]
    /\ Spawn(i, "online")
    /\ gone' = 0
    /\ UNCHANGED <<up, ttl, cacheVars, taskVars, reader, slow, kept>>

(* The Unregister case, for a connection in the maps.                      *)
Unregister(i) ==
    /\ i \in up /\ Connected(i)
    /\ conns' = [conns EXCEPT ![i] = @ - 1]
    /\ Spawn(i, "offline")
    /\ kept' = IF Connected(i)' THEN kept ELSE kept \ {i}
    /\ UNCHANGED <<up, events, ttl, cacheVars, taskVars, reader, slow, gone>>

(* The Unregister of handleAuth: the connection has the user's id already  *)
(* but is not among the user's, and the user is set offline all the same;  *)
(* a Register comes next.                                                  *)
UnregisterForAuth(i) ==
    /\ i \in up /\ Event
    /\ Spawn(i, "offline")
    /\ UNCHANGED <<up, conns, ttl, cacheVars, taskVars, reader, slow, gone, kept>>

(* A process ends, by a panic or a shutdown, which leaves the keys.        *)
Stop(i) ==
    /\ i \in up /\ Event
    /\ up' = up \ {i}
    /\ conns' = [conns EXCEPT ![i] = 0]
    /\ calls' = {k \in calls : k.from # i}
    /\ cached' = cached \ {i} /\ fresh' = [fresh EXCEPT ![i] = 0]
    /\ task' = [task EXCEPT ![i] = "idle"] /\ due' = [due EXCEPT ![i] = RefreshPeriod]
    /\ reader' = [reader EXCEPT ![i] = "idle"]
    /\ slow' = slow \ {<<"task", i>>, <<"reader", i>>}
    /\ kept' = kept \ {i} /\ missed' = missed \ {i}
    /\ UNCHANGED <<ttl, gone>>

(* NewHub, InitRedis and StartCleanupTask.                                 *)
Start(i) ==
    /\ i \notin up
    /\ up' = up \cup {i}
    /\ UNCHANGED <<events, conns, redisVars, cacheVars, taskVars, reader, slow, gone, kept>>

-----------------------------------------------------------------------------
(* The goroutines: a call is made, or fails, which is only logged.         *)

(* Mutant: the time to live is added to what is left.                      *)
SetUserOnlineAdding(k) ==
    /\ k \in calls /\ k.op = "online"
    /\ calls' = calls \ {k}
    /\ ttl' = ttl + PresenceTTL + 1
    /\ UNCHANGED <<up, conns, events, cacheVars, taskVars, reader, slow, gone, kept>>

(* SET with the full time to live, whoever has the key.                    *)
SetUserOnline(k) ==
    /\ k \in calls /\ k.op = "online"
    /\ calls' = calls \ {k}
    /\ \/ /\ ttl' = PresenceTTL + 1
          /\ kept' = IF Connected(k.from) THEN kept \cup {k.from} ELSE kept
       \/ UNCHANGED <<ttl, kept>>
    /\ UNCHANGED <<up, events, conns, cacheVars, taskVars, reader, slow, gone>>

(* DEL, also when the user has other connections.                          *)
SetUserOffline(k) ==
    /\ k \in calls /\ k.op = "offline"
    /\ \/ /\ calls' = (calls \ {k}) \cup {[k EXCEPT !.op = "clear"]}
          /\ ttl' = 0 /\ kept' = {}
       \/ calls' = calls \ {k} /\ UNCHANGED <<ttl, kept>>
    /\ UNCHANGED <<up, events, conns, cacheVars, taskVars, reader, slow, gone>>

(* After the DEL, the entry of the caller's own cache.                     *)
ClearLocalCache(k) ==
    /\ k \in calls /\ k.op = "clear"
    /\ calls' = calls \ {k}
    /\ cached' = cached \ {k.from} /\ fresh' = [fresh EXCEPT ![k.from] = 0]
    /\ UNCHANGED <<up, events, conns, ttl, taskVars, reader, slow, gone, kept>>

-----------------------------------------------------------------------------
(* The cleanup task.                                                       *)

(* Entries that have expired leave the cache.                              *)
CleanupLocalCache(i) ==
    cached' = IF fresh[i] = 0 THEN cached \ {i} ELSE cached

(* Mutant: the users of the cache are refreshed, too.                      *)
CleanupTickOfCache(i) ==
    /\ i \in up /\ due[i] = 0 /\ task[i] = "idle"
    /\ due' = [due EXCEPT ![i] = RefreshPeriod]
    /\ CleanupLocalCache(i)
    /\ task' = [task EXCEPT ![i] = IF Connected(i) \/ i \in cached'
                                     THEN "expire" ELSE "idle"]
    /\ UNCHANGED <<up, events, conns, redisVars, fresh, missed, reader, slow, gone, kept>>

(* The ticker fires: the cache is cleaned up, and the users in UserConns   *)
(* are copied to be refreshed.                                             *)
CleanupTick(i) ==
    /\ i \in up /\ due[i] = 0 /\ task[i] = "idle"
    /\ due' = [due EXCEPT ![i] = RefreshPeriod]
    /\ CleanupLocalCache(i)
    /\ task' = [task EXCEPT ![i] = IF Connected(i) THEN "expire" ELSE "idle"]
    /\ UNCHANGED <<up, events, conns, redisVars, fresh, missed, reader, slow, gone, kept>>

(* Mutant: a key whose entry is in the cache is taken for fresh.           *)
RefreshUserTTLUnlessCached(i) ==
    /\ task[i] = "expire"
    /\ \/ /\ ttl' = IF ttl > 0 /\ i \notin cached THEN PresenceTTL + 1 ELSE ttl
          /\ kept' = IF ttl > 0 /\ Connected(i) THEN kept \cup {i} ELSE kept
          /\ task' = [task EXCEPT ![i] = "extend"]
          /\ missed' = missed \ {i}
          /\ UNCHANGED slow
       \/ /\ i \notin missed
          /\ missed' = missed \cup {i}
          /\ task' = [task EXCEPT ![i] = "idle"] /\ slow' = slow \ {<<"task", i>>}
          /\ UNCHANGED <<ttl, kept>>
    /\ UNCHANGED <<up, events, conns, calls, cacheVars, due, reader, gone>>

(* EXPIRE, which leaves a missing key missing.  A failure is not even      *)
(* logged; the model lets no two refreshes of an instance fail in a row.   *)
RefreshUserTTL(i) ==
    /\ task[i] = "expire"
    /\ \/ /\ ttl' = IF ttl > 0 THEN PresenceTTL + 1 ELSE 0
          /\ kept' = IF ttl > 0 /\ Connected(i) THEN kept \cup {i} ELSE kept
          /\ task' = [task EXCEPT ![i] = "extend"]
          /\ missed' = missed \ {i}
          /\ UNCHANGED slow
       \/ /\ i \notin missed
          /\ missed' = missed \cup {i}
          /\ task' = [task EXCEPT ![i] = "idle"] /\ slow' = slow \ {<<"task", i>>}
          /\ UNCHANGED <<ttl, kept>>
    /\ UNCHANGED <<up, events, conns, calls, cacheVars, due, reader, gone>>

(* The expiry of the cache entry follows, be there a key or not.           *)
ExtendCache(i) ==
    /\ task[i] = "extend"
    /\ task' = [task EXCEPT ![i] = "idle"] /\ slow' = slow \ {<<"task", i>>}
    /\ fresh' = IF i \in cached THEN [fresh EXCEPT ![i] = PresenceTTL + 1] ELSE fresh
    /\ UNCHANGED <<up, events, conns, redisVars, cached, due, missed, reader, gone, kept>>

-----------------------------------------------------------------------------
(* Queries.                                                                *)

CacheHit(i) == i \in cached /\ fresh[i] > 0

(* A read that misses the cache and finds the key.  Its callers look for a *)
(* connection before, which may be there or gone by now.                   *)
GetUserPresence(i) ==
    /\ i \in up /\ reader[i] = "idle" /\ ~CacheHit(i) /\ ttl > 0
    /\ reader' = [reader EXCEPT ![i] = "found"]
    /\ UNCHANGED <<up, events, conns, redisVars, cacheVars, taskVars, slow, gone, kept>>

(* It stores what it found, which may be history by now.                   *)
FillCache(i) ==
    /\ reader[i] = "found"
    /\ reader' = [reader EXCEPT ![i] = "idle"] /\ slow' = slow \ {<<"reader", i>>}
    /\ cached' = cached \cup {i} /\ fresh' = [fresh EXCEPT ![i] = CacheTime + 1]
    /\ UNCHANGED <<up, events, conns, redisVars, taskVars, gone, kept>>

(* The answers an instance can give: to IsUserOnline and GetUserPresence,  *)
(* which routing, broadcasts and the members' status ask, to the question  *)
(* for several users, and to the listing of all.                           *)
IsUserOnline(i) ==
    i \in up /\ (Connected(i) \/ CacheHit(i) \/ reader[i] = "found" \/ ttl > 0)

GetUsersOnline(i) == i \in up /\ (CacheHit(i) \/ ttl > 0)

GetOnlineUsers(i) == i \in up /\ ttl > 0

-----------------------------------------------------------------------------
Less(n) == IF n > 0 THEN n - 1 ELSE 0

(* The key, or an entry, expires within its last unit.                     *)
KeyExpires ==
    /\ ttl = 1 /\ ttl' = 0
    /\ UNCHANGED <<up, events, conns, calls, cacheVars, taskVars, reader, slow, gone, kept>>

EntryExpires(i) ==
    /\ fresh[i] = 1 /\ fresh' = [fresh EXCEPT ![i] = 0]
    /\ UNCHANGED <<up, events, conns, redisVars, cached, taskVars, reader, slow, gone, kept>>

(* A unit ends, and with it whatever had to end in it.                     *)
Tick ==
    /\ slow = {} /\ \A k \in calls : ~k.old
    /\ \A i \in up : due[i] > 0
    /\ ttl' = Less(ttl)
    /\ fresh' = [i \in Instances |-> Less(fresh[i])]
    /\ due' = [i \in Instances |-> IF i \in up THEN due[i] - 1 ELSE due[i]]
    /\ calls' = {[k EXCEPT !.old = TRUE] : k \in calls}
    /\ slow' = {<<"task", i>> : i \in {j \in Instances : task[j] # "idle"}}
               \cup {<<"reader", i>> : i \in {j \in Instances : reader[j] # "idle"}}
    /\ gone' = IF gone < Horizon /\ \A i \in Instances : ~Connected(i)
               THEN gone + 1 ELSE gone
    /\ UNCHANGED <<up, events, conns, cached, task, missed, reader, kept>>

Next ==
    \/ \E i \in Instances :
          \/ Register(i) \/ Unregister(i) \/ UnregisterForAuth(i)
          \/ Stop(i) \/ Start(i)
          \/ CleanupTick(i) \/ RefreshUserTTL(i) \/ ExtendCache(i)
          \/ GetUserPresence(i) \/ FillCache(i) \/ EntryExpires(i)
    \/ \E k \in calls : SetUserOnline(k) \/ SetUserOffline(k) \/ ClearLocalCache(k)
    \/ KeyExpires \/ Tick

Spec == Init /\ [][Next]_vars

-----------------------------------------------------------------------------
(* Every variable stays in its type.                                       *)
TypeOK ==
    /\ up \subseteq Instances /\ events \in 0..MaxEvents /\ conns \in [Instances -> 0..MaxConns]
    /\ ttl \in 0..PresenceTTL + 1
    /\ cached \subseteq Instances /\ fresh \in [Instances -> 0..PresenceTTL + 1]
    /\ calls \subseteq [id : CallIds, op : Ops, from : Instances, old : BOOLEAN]
    /\ due \in [Instances -> 0..RefreshPeriod]
    /\ task \in [Instances -> {"idle", "expire", "extend"}]
    /\ reader \in [Instances -> {"idle", "found"}]
    /\ slow \subseteq {"task", "reader"} \X Instances
    /\ gone \in 0..Horizon /\ kept \subseteq Instances /\ missed \subseteq Instances

(* A user who has left is forgotten.  No answer of any instance calls the  *)
(* user online more than 45 seconds after the last connection ended: five  *)
(* for an online call still under way, the 30 of the key, five for a read  *)
(* under way when it expired and five for the entry that read makes.  The  *)
(* offline call may fail or never be made and a refresh may extend key and *)
(* cache behind its back, but these delays never add up to more or renew   *)
(* each other.  (Nine ticks, wherever the units begin, are 45 seconds.)    *)
GoneIsForgotten ==
    \A i \in Instances :
        IsUserOnline(i) \/ GetUsersOnline(i) \/ GetOnlineUsers(i)
            => gone <= PresenceTTL + CacheTime + 2

(* The key of a connected user does not run out: once an instance has set  *)
(* it, or found and extended it, it lasts as long as the connection, with  *)
(* every second refresh failing and each taking its time.  Only an offline *)
(* call removes it: that of another connection's departure, or that of the *)
(* re-registration of this or another connection.                          *)
HeldKeyLasts == kept # {} => ttl > 0

=============================================================================
