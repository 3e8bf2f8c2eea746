--------------------------- MODULE CircuitBreaker ---------------------------
(***************************************************************************)
(* circuit.Breaker: a guard around calls of something that may fail.  Its  *)
(* state and its counters are separate atomics, so that an operation of a  *)
(* goroutine is a sequence of loads and stores between which other         *)
(* goroutines take theirs; one action is one of them.  The counters are    *)
(* only compared with their thresholds and are counted up to those.        *)
(***************************************************************************)
EXTENDS Naturals, FiniteSets

CONSTANTS
    Procs,              \* goroutines that use the breaker
    FailureThreshold,   \* failures in a row that open it
    SuccessThreshold,   \* successes in a row that close it
    HalfOpenMaxCalls    \* permits while it is half open

ASSUME BreakerAssumption ==
    /\ IsFiniteSet(Procs)
    /\ {FailureThreshold, SuccessThreshold, HalfOpenMaxCalls} \subseteq Nat \ {0}

VARIABLES
    state,          \* "closed", "half_open" or "open"
    failureCount,
    successCount,
    halfOpenCalls,  \* permits taken
    pc,             \* the next access of each goroutine
    health          \* of what is called: "any", or "good" or "bad" from now on

counters == <<failureCount, successCount, halfOpenCalls>>
vars == <<state, counters, pc, health>>

Init ==
    /\ state = "closed"
    /\ failureCount = 0 /\ successCount = 0 /\ halfOpenCalls = 0
    /\ pc = [p \in Procs |-> "idle"]
    /\ health = "any"

Step(p, here, there) == pc[p] = here /\ pc' = [pc EXCEPT ![p] = there]

Up(n, bound) == IF n < bound THEN n + 1 ELSE bound

-----------------------------------------------------------------------------
(* Execute.                                                                *)

IsOpen(p) ==
    /\ Step(p, "idle", IF state = "open" THEN "probe" ELSE "permit")
    /\ UNCHANGED <<state, counters, health>>

(* Mutant: the reset is never attempted.                                   *)
TryOpenHalfNever(p) ==
    /\ Step(p, "probe", "idle")
    /\ UNCHANGED <<state, counters, health>>

(* shouldAttemptReset and tryOpenHalf: the call makes the breaker half     *)
(* open and is itself refused.  lastStateChange is stored in milliseconds  *)
(* and read as nanoseconds: it lies in the first hour of 1970, more than   *)
(* any Timeout ago, and the answer of shouldAttemptReset is always yes.    *)
TryOpenHalf(p) ==
    /\ Step(p, "probe", "idle")
    /\ state' = IF state = "open" THEN "half_open" ELSE state
    /\ UNCHANGED <<counters, health>>

(* acquireHalfOpenPermit: any other state than half open needs no permit,  *)
(* also the open one that came after IsOpen.                               *)
NeedPermit(p) ==
    /\ Step(p, "permit", IF state = "half_open" THEN "take" ELSE "call")
    /\ UNCHANGED <<state, counters, health>>

(* Mutant: one permit more than there are.                                 *)
TakePermitOneMore(p) ==
    /\ IF halfOpenCalls <= HalfOpenMaxCalls
       THEN Step(p, "take", "give") /\ halfOpenCalls' = halfOpenCalls + 1
       ELSE Step(p, "take", "idle") /\ UNCHANGED halfOpenCalls
    /\ UNCHANGED <<state, failureCount, successCount, health>>

(* The load and the CompareAndSwap that succeeds.                          *)
TakePermit(p) ==
    /\ IF halfOpenCalls < HalfOpenMaxCalls
       THEN Step(p, "take", "give") /\ halfOpenCalls' = halfOpenCalls + 1
       ELSE Step(p, "take", "idle") /\ UNCHANGED halfOpenCalls
    /\ UNCHANGED <<state, failureCount, successCount, health>>

(* Mutant: the deferred decrement is missing.                              *)
GivePermitNever(p) ==
    /\ Step(p, "give", "call")
    /\ UNCHANGED <<state, counters, health>>

(* The deferred decrement runs when acquireHalfOpenPermit returns, before  *)
(* the call is made.                                                       *)
GivePermit(p) ==
    /\ Step(p, "give", "call")
    /\ halfOpenCalls' = halfOpenCalls - 1
    /\ UNCHANGED <<state, failureCount, successCount, health>>

(* fn returns.                                                             *)
Call(p) ==
    /\ \/ health # "good" /\ Step(p, "call", "failed")
       \/ health # "bad" /\ Step(p, "call", "succeeded")
    /\ UNCHANGED <<state, counters, health>>

-----------------------------------------------------------------------------
(* recordFailure and open.                                                 *)

CountFailure(p) ==
    /\ Step(p, "failed", "break")
    /\ failureCount' = Up(failureCount, FailureThreshold)
    /\ UNCHANGED <<state, successCount, halfOpenCalls, health>>

BreakSuccesses(p) ==
    /\ Step(p, "break", "many")
    /\ successCount' = 0
    /\ UNCHANGED <<state, failureCount, halfOpenCalls, health>>

ManyFailures(p) ==
    /\ Step(p, "many", IF failureCount >= FailureThreshold THEN "open" ELSE "idle")
    /\ UNCHANGED <<state, counters, health>>

(* Mutant: only a closed breaker is opened.                                *)
OpenClosedOnly(p) ==
    /\ Step(p, "open", IF state # "closed" THEN "idle" ELSE "store open")
    /\ UNCHANGED <<state, counters, health>>

Open(p) ==
    /\ Step(p, "open", IF state = "open" THEN "idle" ELSE "store open")
    /\ UNCHANGED <<state, counters, health>>

StoreOpen(p) ==
    /\ Step(p, "store open", "forget failures")
    /\ state' = "open"
    /\ UNCHANGED <<counters, health>>

ForgetFailures(p) ==
    /\ Step(p, "forget failures", "idle")
    /\ failureCount' = 0
    /\ UNCHANGED <<state, successCount, halfOpenCalls, health>>

-----------------------------------------------------------------------------
(* recordSuccess and close.                                                *)

CountSuccess(p) ==
    /\ Step(p, "succeeded", "mend")
    /\ successCount' = Up(successCount, SuccessThreshold)
    /\ UNCHANGED <<state, failureCount, halfOpenCalls, health>>

BreakFailures(p) ==
    /\ Step(p, "mend", "trial")
    /\ failureCount' = 0
    /\ UNCHANGED <<state, successCount, halfOpenCalls, health>>

IsTrial(p) ==
    /\ Step(p, "trial", IF state = "half_open" THEN "enough" ELSE "idle")
    /\ UNCHANGED <<state, counters, health>>

EnoughSuccesses(p) ==
    /\ Step(p, "enough", IF successCount >= SuccessThreshold THEN "close" ELSE "idle")
    /\ UNCHANGED <<state, counters, health>>

Close(p) ==
    /\ Step(p, "close", IF state = "closed" THEN "idle" ELSE "store closed")
    /\ UNCHANGED <<state, counters, health>>

StoreClosed(p) ==
    /\ Step(p, "store closed", "forget successes")
    /\ state' = "closed"
    /\ UNCHANGED <<counters, health>>

ForgetSuccesses(p) ==
    /\ Step(p, "forget successes", "idle")
    /\ successCount' = 0
    /\ UNCHANGED <<state, failureCount, halfOpenCalls, health>>

-----------------------------------------------------------------------------
(* Reset, by an operator.                                                  *)

Reset(p) ==
    /\ Step(p, "idle", "reset failures")
    /\ state' = "closed"
    /\ UNCHANGED <<counters, health>>

ResetFailures(p) ==
    /\ Step(p, "reset failures", "reset successes")
    /\ failureCount' = 0
    /\ UNCHANGED <<state, successCount, halfOpenCalls, health>>

ResetSuccesses(p) ==
    /\ Step(p, "reset successes", "idle")
    /\ successCount' = 0
    /\ UNCHANGED <<state, failureCount, halfOpenCalls, health>>

(* What is called goes down, or comes back, for good.                      *)
Settle ==
    /\ health = "any" /\ health' \in {"good", "bad"}
    /\ UNCHANGED <<state, counters, pc>>

-----------------------------------------------------------------------------
Record(p) ==
    \/ CountFailure(p) \/ BreakSuccesses(p) \/ ManyFailures(p)
    \/ Open(p) \/ StoreOpen(p) \/ ForgetFailures(p)
    \/ CountSuccess(p) \/ BreakFailures(p) \/ IsTrial(p) \/ EnoughSuccesses(p)
    \/ Close(p) \/ StoreClosed(p) \/ ForgetSuccesses(p)

Continue(p) ==
    \/ TryOpenHalf(p) \/ NeedPermit(p) \/ TakePermit(p) \/ GivePermit(p) \/ Call(p)
    \/ Record(p) \/ ResetFailures(p) \/ ResetSuccesses(p)

Next ==
    \/ \E p \in Procs : IsOpen(p) \/ Reset(p) \/ Continue(p)
    \/ Settle

Spec == Init /\ [][Next]_vars

(* A goroutine in the breaker goes on, and what it calls returns.          *)
FairSpec == Spec /\ \A p \in Procs : WF_vars(Continue(p))

-----------------------------------------------------------------------------
Places == {"idle", "probe", "permit", "take", "give", "call", "failed", "break",
           "many", "open", "store open", "forget failures", "succeeded", "mend",
           "trial", "enough", "close", "store closed", "forget successes",
           "reset failures", "reset successes"}

(* Every variable stays in its type.                                       *)
TypeOK ==
    /\ state \in {"closed", "half_open", "open"}
    /\ failureCount \in 0..FailureThreshold
    /\ successCount \in 0..SuccessThreshold
    /\ halfOpenCalls \in 0..HalfOpenMaxCalls
    /\ pc \in [Procs -> Places]
    /\ health \in {"any", "good", "bad"}

Holders == {p \in Procs : pc[p] = "give"}

(* Every permit is held by a goroutine that gives it back: none is lost,   *)
(* whatever state the breaker is brought to meanwhile.                     *)
PermitsReturned == halfOpenCalls = Cardinality(Holders)

CallsKeepComing == []<>(\E p \in Procs : pc[p] \in {"probe", "permit"})

ResetsEnd ==
    <>[](\A p \in Procs : pc[p] \notin {"reset failures", "reset successes"})

(* When what is called fails for good, and calls keep coming, the breaker  *)
(* is open again and again: counters that other goroutines reset, and      *)
(* successes that are recorded late, cannot keep it closed or half open.   *)
DownIsNoticed ==
    CallsKeepComing /\ ResetsEnd /\ <>(health = "bad") => []<>(state = "open")

(* When what is called succeeds from some time on, and calls keep coming,  *)
(* the breaker closes and stays closed: no late failure and no lost permit *)
(* leaves it open or half open for ever.                                   *)
RecoversWhenHealthy ==
    CallsKeepComing /\ ResetsEnd /\ <>(health = "good") => <>[](state = "closed")

=============================================================================
