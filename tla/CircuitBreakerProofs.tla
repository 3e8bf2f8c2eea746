------------------------ MODULE CircuitBreakerProofs ------------------------
(***************************************************************************)
(* Proofs about CircuitBreaker for every finite set of goroutines and      *)
(* all thresholds: type correctness, that no permit is lost, and that a    *)
(* recovery and an alarm last.                                             *)
(***************************************************************************)
EXTENDS CircuitBreaker, TLAPS, FiniteSetTheorems

(* The two invariants are inductive together: that a permit given back was *)
(* counted is what keeps the counter from going below zero.                *)
IInv == TypeOK /\ PermitsReturned

-----------------------------------------------------------------------------
(* A counter that is counted up stays within its threshold.                *)
LEMMA UpType ==
  ASSUME NEW bound \in Nat, NEW n \in 0..bound
  PROVE  Up(n, bound) \in 0..bound
  BY DEF Up

(* A goroutine with a permit is one of those that are counted.             *)
LEMMA HolderCounted ==
  ASSUME IInv, NEW p \in Procs, pc[p] = "give"
  PROVE  halfOpenCalls > 0
<1>1. IsFiniteSet(Holders) /\ p \in Holders
  BY BreakerAssumption, FS_Subset DEF Holders
<1>2. Cardinality(Holders) # 0
  BY <1>1, FS_EmptySet
<1>3. QED
  BY <1>2 DEF IInv, PermitsReturned, TypeOK

(* The empty breaker is closed and has no permit out.                      *)
LEMMA InvInit == Init => IInv
<1> SUFFICES ASSUME Init PROVE IInv
  OBVIOUS
<1>1. TypeOK
  BY BreakerAssumption DEF Init, TypeOK, Places
<1>2. Holders = {}
  BY DEF Init, Holders
<1>3. QED
  BY <1>1, <1>2, FS_EmptySet DEF IInv, PermitsReturned, Init

(* A step keeps the types.                                                 *)
LEMMA TypeNext == IInv /\ [Next]_vars => TypeOK'
<1> SUFFICES ASSUME IInv, [Next]_vars PROVE TypeOK'
  OBVIOUS
<1>0. {FailureThreshold, SuccessThreshold, HalfOpenMaxCalls} \subseteq Nat \ {0}
  BY BreakerAssumption
<1>0a. /\ FailureThreshold \in Nat \ {0} /\ SuccessThreshold \in Nat \ {0}
       /\ HalfOpenMaxCalls \in Nat \ {0}
  BY <1>0
<1>0b. 0 \in 0..FailureThreshold /\ 0 \in 0..SuccessThreshold
  BY <1>0a
<1> USE <1>0a, <1>0b DEF IInv, counters
<1>1. ASSUME NEW p \in Procs, IsOpen(p) PROVE TypeOK'
  BY <1>1 DEF IsOpen, TypeOK, Places, Step
<1>2. ASSUME NEW p \in Procs, TryOpenHalf(p) PROVE TypeOK'
  BY <1>2 DEF TryOpenHalf, TypeOK, Places, Step
<1>3. ASSUME NEW p \in Procs, NeedPermit(p) PROVE TypeOK'
  BY <1>3 DEF NeedPermit, TypeOK, Places, Step
<1>4. ASSUME NEW p \in Procs, TakePermit(p) PROVE TypeOK'
  <2>1. /\ failureCount' \in 0..FailureThreshold /\ successCount' \in 0..SuccessThreshold
        /\ halfOpenCalls' \in 0..HalfOpenMaxCalls
    BY <1>4 DEF TakePermit, TypeOK
  <2>2. pc' \in [Procs -> Places] /\ UNCHANGED <<state, health>>
    BY <1>4 DEF TakePermit, Step, Places, TypeOK
  <2>3. QED
    BY <2>1, <2>2 DEF TypeOK
<1>5. ASSUME NEW p \in Procs, GivePermit(p) PROVE TypeOK'
  <2>0. halfOpenCalls > 0
    BY <1>5, HolderCounted DEF GivePermit, Step
  <2>1. /\ failureCount' \in 0..FailureThreshold /\ successCount' \in 0..SuccessThreshold
        /\ halfOpenCalls' \in 0..HalfOpenMaxCalls
    BY <1>5, <2>0 DEF GivePermit, TypeOK
  <2>2. pc' \in [Procs -> Places] /\ UNCHANGED <<state, health>>
    BY <1>5 DEF GivePermit, Step, Places, TypeOK
  <2>3. QED
    BY <2>1, <2>2 DEF TypeOK
<1>6. ASSUME NEW p \in Procs, Call(p) PROVE TypeOK'
  BY <1>6 DEF Call, TypeOK, Places, Step
<1>7. ASSUME NEW p \in Procs, CountFailure(p) PROVE TypeOK'
  <2>1. /\ failureCount' \in 0..FailureThreshold /\ successCount' \in 0..SuccessThreshold
        /\ halfOpenCalls' \in 0..HalfOpenMaxCalls
    BY <1>7, UpType DEF CountFailure, TypeOK
  <2>2. pc' \in [Procs -> Places] /\ UNCHANGED <<state, health>>
    BY <1>7 DEF CountFailure, Step, Places, TypeOK
  <2>3. QED
    BY <2>1, <2>2 DEF TypeOK
<1>8. ASSUME NEW p \in Procs, BreakSuccesses(p) PROVE TypeOK'
  <2>1. /\ failureCount' \in 0..FailureThreshold /\ successCount' \in 0..SuccessThreshold
        /\ halfOpenCalls' \in 0..HalfOpenMaxCalls
    BY <1>8 DEF BreakSuccesses, TypeOK
  <2>2. pc' \in [Procs -> Places] /\ UNCHANGED <<state, health>>
    BY <1>8 DEF BreakSuccesses, Step, Places, TypeOK
  <2>3. QED
    BY <2>1, <2>2 DEF TypeOK
<1>9. ASSUME NEW p \in Procs, ManyFailures(p) PROVE TypeOK'
  BY <1>9 DEF ManyFailures, TypeOK, Places, Step
<1>10. ASSUME NEW p \in Procs, Open(p) PROVE TypeOK'
  BY <1>10 DEF Open, TypeOK, Places, Step
<1>11. ASSUME NEW p \in Procs, StoreOpen(p) PROVE TypeOK'
  BY <1>11 DEF StoreOpen, TypeOK, Places, Step
<1>12. ASSUME NEW p \in Procs, ForgetFailures(p) PROVE TypeOK'
  <2>1. /\ failureCount' \in 0..FailureThreshold /\ successCount' \in 0..SuccessThreshold
        /\ halfOpenCalls' \in 0..HalfOpenMaxCalls
    BY <1>12 DEF ForgetFailures, TypeOK
  <2>2. pc' \in [Procs -> Places] /\ UNCHANGED <<state, health>>
    BY <1>12 DEF ForgetFailures, Step, Places, TypeOK
  <2>3. QED
    BY <2>1, <2>2 DEF TypeOK
<1>13. ASSUME NEW p \in Procs, CountSuccess(p) PROVE TypeOK'
  <2>1. /\ failureCount' \in 0..FailureThreshold /\ successCount' \in 0..SuccessThreshold
        /\ halfOpenCalls' \in 0..HalfOpenMaxCalls
    BY <1>13, UpType DEF CountSuccess, TypeOK
  <2>2. pc' \in [Procs -> Places] /\ UNCHANGED <<state, health>>
    BY <1>13 DEF CountSuccess, Step, Places, TypeOK
  <2>3. QED
    BY <2>1, <2>2 DEF TypeOK
<1>14. ASSUME NEW p \in Procs, BreakFailures(p) PROVE TypeOK'
  <2>1. /\ failureCount' \in 0..FailureThreshold /\ successCount' \in 0..SuccessThreshold
        /\ halfOpenCalls' \in 0..HalfOpenMaxCalls
    BY <1>14 DEF BreakFailures, TypeOK
  <2>2. pc' \in [Procs -> Places] /\ UNCHANGED <<state, health>>
    BY <1>14 DEF BreakFailures, Step, Places, TypeOK
  <2>3. QED
    BY <2>1, <2>2 DEF TypeOK
<1>15. ASSUME NEW p \in Procs, IsTrial(p) PROVE TypeOK'
  BY <1>15 DEF IsTrial, TypeOK, Places, Step
<1>16. ASSUME NEW p \in Procs, EnoughSuccesses(p) PROVE TypeOK'
  BY <1>16 DEF EnoughSuccesses, TypeOK, Places, Step
<1>17. ASSUME NEW p \in Procs, Close(p) PROVE TypeOK'
  BY <1>17 DEF Close, TypeOK, Places, Step
<1>18. ASSUME NEW p \in Procs, StoreClosed(p) PROVE TypeOK'
  BY <1>18 DEF StoreClosed, TypeOK, Places, Step
<1>19. ASSUME NEW p \in Procs, ForgetSuccesses(p) PROVE TypeOK'
  <2>1. /\ failureCount' \in 0..FailureThreshold /\ successCount' \in 0..SuccessThreshold
        /\ halfOpenCalls' \in 0..HalfOpenMaxCalls
    BY <1>19 DEF ForgetSuccesses, TypeOK
  <2>2. pc' \in [Procs -> Places] /\ UNCHANGED <<state, health>>
    BY <1>19 DEF ForgetSuccesses, Step, Places, TypeOK
  <2>3. QED
    BY <2>1, <2>2 DEF TypeOK
<1>20. ASSUME NEW p \in Procs, Reset(p) PROVE TypeOK'
  BY <1>20 DEF Reset, TypeOK, Places, Step
<1>21. ASSUME NEW p \in Procs, ResetFailures(p) PROVE TypeOK'
  <2>1. /\ failureCount' \in 0..FailureThreshold /\ successCount' \in 0..SuccessThreshold
        /\ halfOpenCalls' \in 0..HalfOpenMaxCalls
    BY <1>21 DEF ResetFailures, TypeOK
  <2>2. pc' \in [Procs -> Places] /\ UNCHANGED <<state, health>>
    BY <1>21 DEF ResetFailures, Step, Places, TypeOK
  <2>3. QED
    BY <2>1, <2>2 DEF TypeOK
<1>22. ASSUME NEW p \in Procs, ResetSuccesses(p) PROVE TypeOK'
  <2>1. /\ failureCount' \in 0..FailureThreshold /\ successCount' \in 0..SuccessThreshold
        /\ halfOpenCalls' \in 0..HalfOpenMaxCalls
    BY <1>22 DEF ResetSuccesses, TypeOK
  <2>2. pc' \in [Procs -> Places] /\ UNCHANGED <<state, health>>
    BY <1>22 DEF ResetSuccesses, Step, Places, TypeOK
  <2>3. QED
    BY <2>1, <2>2 DEF TypeOK
<1>23. ASSUME Settle PROVE TypeOK'
  BY <1>23 DEF Settle, TypeOK
<1>24. ASSUME UNCHANGED vars PROVE TypeOK'
  BY <1>24 DEF vars, TypeOK
<1>25. QED
  BY <1>1, <1>2, <1>3, <1>4, <1>5, <1>6, <1>7, <1>8, <1>9, <1>10, <1>11,
     <1>12, <1>13, <1>14, <1>15, <1>16, <1>17, <1>18, <1>19, <1>20, <1>21, <1>22,
     <1>23, <1>24
     DEF Next, Continue, Record

(* Only the taking and the giving back of a permit change who holds one.   *)
LEMMA PermitsNext == IInv /\ [Next]_vars => PermitsReturned'
<1> SUFFICES ASSUME IInv, [Next]_vars PROVE PermitsReturned'
  OBVIOUS
<1>0. IsFiniteSet(Holders) /\ halfOpenCalls = Cardinality(Holders)
  BY BreakerAssumption, FS_Subset DEF Holders, IInv, PermitsReturned
<1>u. ASSUME Holders' = Holders, UNCHANGED halfOpenCalls PROVE PermitsReturned'
  BY <1>0, <1>u DEF PermitsReturned
<1> USE DEF IInv, TypeOK, Step, counters, Holders
<1>1. ASSUME NEW p \in Procs, IsOpen(p) PROVE PermitsReturned'
  BY <1>u, <1>1 DEF IsOpen
<1>2. ASSUME NEW p \in Procs, TryOpenHalf(p) PROVE PermitsReturned'
  BY <1>u, <1>2 DEF TryOpenHalf
<1>3. ASSUME NEW p \in Procs, NeedPermit(p) PROVE PermitsReturned'
  BY <1>u, <1>3 DEF NeedPermit
<1>4. ASSUME NEW p \in Procs, TakePermit(p) PROVE PermitsReturned'
  <2>1. CASE halfOpenCalls < HalfOpenMaxCalls
    <3>1. p \notin Holders /\ Holders' = Holders \cup {p}
      BY <1>4, <2>1 DEF TakePermit
    <3>2. Cardinality(Holders') = Cardinality(Holders) + 1
      BY <1>0, <3>1, FS_AddElement
    <3>3. QED
      BY <1>0, <1>4, <2>1, <3>2 DEF TakePermit, PermitsReturned
  <2>2. CASE ~(halfOpenCalls < HalfOpenMaxCalls)
    BY <1>u, <1>4, <2>2 DEF TakePermit
  <2>3. QED
    BY <2>1, <2>2
<1>5. ASSUME NEW p \in Procs, GivePermit(p) PROVE PermitsReturned'
  <2>1. p \in Holders /\ Holders' = Holders \ {p}
    BY <1>5 DEF GivePermit
  <2>2. Cardinality(Holders') = Cardinality(Holders) - 1
    BY <1>0, <2>1, FS_RemoveElement
  <2>3. QED
    BY <1>0, <1>5, <2>2 DEF GivePermit, PermitsReturned
<1>6. ASSUME NEW p \in Procs, Call(p) PROVE PermitsReturned'
  BY <1>u, <1>6 DEF Call
<1>7. ASSUME NEW p \in Procs, CountFailure(p) PROVE PermitsReturned'
  BY <1>u, <1>7 DEF CountFailure
<1>8. ASSUME NEW p \in Procs, BreakSuccesses(p) PROVE PermitsReturned'
  BY <1>u, <1>8 DEF BreakSuccesses
<1>9. ASSUME NEW p \in Procs, ManyFailures(p) PROVE PermitsReturned'
  BY <1>u, <1>9 DEF ManyFailures
<1>10. ASSUME NEW p \in Procs, Open(p) PROVE PermitsReturned'
  BY <1>u, <1>10 DEF Open
<1>11. ASSUME NEW p \in Procs, StoreOpen(p) PROVE PermitsReturned'
  BY <1>u, <1>11 DEF StoreOpen
<1>12. ASSUME NEW p \in Procs, ForgetFailures(p) PROVE PermitsReturned'
  BY <1>u, <1>12 DEF ForgetFailures
<1>13. ASSUME NEW p \in Procs, CountSuccess(p) PROVE PermitsReturned'
  BY <1>u, <1>13 DEF CountSuccess
<1>14. ASSUME NEW p \in Procs, BreakFailures(p) PROVE PermitsReturned'
  BY <1>u, <1>14 DEF BreakFailures
<1>15. ASSUME NEW p \in Procs, IsTrial(p) PROVE PermitsReturned'
  BY <1>u, <1>15 DEF IsTrial
<1>16. ASSUME NEW p \in Procs, EnoughSuccesses(p) PROVE PermitsReturned'
  BY <1>u, <1>16 DEF EnoughSuccesses
<1>17. ASSUME NEW p \in Procs, Close(p) PROVE PermitsReturned'
  BY <1>u, <1>17 DEF Close
<1>18. ASSUME NEW p \in Procs, StoreClosed(p) PROVE PermitsReturned'
  BY <1>u, <1>18 DEF StoreClosed
<1>19. ASSUME NEW p \in Procs, ForgetSuccesses(p) PROVE PermitsReturned'
  BY <1>u, <1>19 DEF ForgetSuccesses
<1>20. ASSUME NEW p \in Procs, Reset(p) PROVE PermitsReturned'
  BY <1>u, <1>20 DEF Reset
<1>21. ASSUME NEW p \in Procs, ResetFailures(p) PROVE PermitsReturned'
  BY <1>u, <1>21 DEF ResetFailures
<1>22. ASSUME NEW p \in Procs, ResetSuccesses(p) PROVE PermitsReturned'
  BY <1>u, <1>22 DEF ResetSuccesses
<1>23. ASSUME Settle PROVE PermitsReturned'
  BY <1>u, <1>23 DEF Settle
<1>24. ASSUME UNCHANGED vars PROVE PermitsReturned'
  BY <1>u, <1>24 DEF vars
<1>25. QED
  BY <1>1, <1>2, <1>3, <1>4, <1>5, <1>6, <1>7, <1>8, <1>9, <1>10, <1>11,
     <1>12, <1>13, <1>14, <1>15, <1>16, <1>17, <1>18, <1>19, <1>20, <1>21, <1>22,
     <1>23, <1>24
     DEF Next, Continue, Record

-----------------------------------------------------------------------------
(* The inductive invariant holds in every reachable state.                 *)
THEOREM Invariant == Spec => []IInv
<1>1. IInv /\ [Next]_vars => IInv'
  BY TypeNext, PermitsNext DEF IInv
<1>2. QED
  BY <1>1, InvInit, PTL DEF Spec

(* Every load, store and swap of Execute and Reset keeps the breaker's     *)
(* variables in their types: the permits never go below zero nor above     *)
(* HalfOpenMaxCalls, however the goroutines interleave.                    *)
THEOREM TypeCorrect == Spec => []TypeOK
<1>1. IInv => TypeOK
  BY DEF IInv
<1>2. QED
  BY <1>1, Invariant, PTL

(* The permits taken are those of the goroutines inside                    *)
(* acquireHalfOpenPermit: none is lost, so that a half-open breaker does   *)
(* not run out of them.                                                    *)
THEOREM NoPermitLost == Spec => []PermitsReturned
<1>1. IInv => PermitsReturned
  BY DEF IInv
<1>2. QED
  BY <1>1, Invariant, PTL

-----------------------------------------------------------------------------
(* The safety half of the two liveness properties, which are TLC's.        *)

(* What is called is well, or down, for good, and no goroutine still has   *)
(* an answer of before to record.                                          *)
Well == /\ health = "good"
        /\ \A p \in Procs : pc[p] \notin {"failed", "break", "many", "open", "store open"}
Down == /\ health = "bad"
        /\ \A p \in Procs :
              pc[p] \notin {"succeeded", "mend", "trial", "enough", "close", "store closed"}

(* How far the breaker is from letting every call through.                 *)
Distance ==
    [s \in {"closed", "half_open", "open"} |->
        IF s = "closed" THEN 0 ELSE IF s = "half_open" THEN 1 ELSE 2]

(* A goroutine that takes a step is where its action says, and the others  *)
(* are where they were.                                                    *)
LEMMA StepMoves ==
  ASSUME TypeOK, NEW p \in Procs, NEW here, NEW there, Step(p, here, there)
  PROVE  pc[p] = here /\ \A q \in Procs : pc'[q] = IF q = p THEN there ELSE pc[q]
  BY DEF Step, TypeOK

(* Once what is called is well and the last failure recorded, the breaker  *)
(* only comes nearer to closing, and a closed one stays closed: no late    *)
(* store of a slow goroutine, and no counter, opens it again.              *)
RecoveryLasts == [][Well => Well' /\ Distance[state'] <= Distance[state]]_vars

(* Once what is called is down and the last success recorded, a breaker    *)
(* that is not closed does not close but by Reset.                         *)
AlarmLasts ==
    [][Down => Down' /\ (state # "closed" /\ state' = "closed" => \E p \in Procs : Reset(p))]_vars

(* One step of the first.                                                  *)
LEMMA WellNext ==
  ASSUME TypeOK, Well, Next
  PROVE  Well' /\ Distance[state'] <= Distance[state]
<1> USE DEF Well, TypeOK
<1>1. ASSUME NEW p \in Procs, IsOpen(p) \/ NeedPermit(p) \/ GivePermit(p) \/ ForgetFailures(p)
                               \/ CountSuccess(p) \/ BreakFailures(p) \/ IsTrial(p)
                               \/ EnoughSuccesses(p) \/ Close(p) \/ ForgetSuccesses(p)
                               \/ ResetFailures(p) \/ ResetSuccesses(p)
      PROVE  Well' /\ state' = state
  BY <1>1, StepMoves DEF IsOpen, NeedPermit, GivePermit, ForgetFailures, CountSuccess,
     BreakFailures, IsTrial, EnoughSuccesses, Close, ForgetSuccesses, ResetFailures,
     ResetSuccesses, Step
<1>2. ASSUME NEW p \in Procs, Call(p) PROVE Well' /\ state' = state
  BY <1>2, StepMoves DEF Call, Step
<1>3. ASSUME NEW p \in Procs, TakePermit(p) PROVE Well' /\ state' = state
  BY <1>3, StepMoves DEF TakePermit, Step
<1>4. ASSUME NEW p \in Procs, TryOpenHalf(p)
      PROVE  Well' /\ state' = IF state = "open" THEN "half_open" ELSE state
  BY <1>4, StepMoves DEF TryOpenHalf, Step
<1>5. ASSUME NEW p \in Procs, StoreClosed(p) \/ Reset(p) PROVE Well' /\ state' = "closed"
  BY <1>5, StepMoves DEF StoreClosed, Reset, Step
<1>6. ASSUME NEW p \in Procs
      PROVE  ~(CountFailure(p) \/ BreakSuccesses(p) \/ ManyFailures(p) \/ Open(p) \/ StoreOpen(p))
  BY DEF CountFailure, BreakSuccesses, ManyFailures, Open, StoreOpen, Step
<1>7. ~Settle
  BY DEF Settle
<1>8. Well' /\ state' \in {state, "closed", IF state = "open" THEN "half_open" ELSE state}
  <2> HIDE DEF Well, TypeOK
  <2>1. QED
    BY <1>1, <1>2, <1>3, <1>4, <1>5, <1>6, <1>7 DEF Next, Continue, Record
<1>9. Distance["closed"] = 0 /\ Distance["half_open"] = 1 /\ Distance["open"] = 2
  BY DEF Distance
<1>10. state \in {"closed", "half_open", "open"}
  OBVIOUS
<1>11. Distance[state'] <= Distance[state]
  <2> HIDE DEF Well, TypeOK
  <2>1. CASE state = "closed"
    BY <1>8, <1>9, <2>1
  <2>2. CASE state = "half_open"
    BY <1>8, <1>9, <2>2
  <2>3. CASE state = "open"
    BY <1>8, <1>9, <2>3
  <2>4. QED
    BY <1>10, <2>1, <2>2, <2>3
<1>12. QED
  BY <1>8, <1>11

(* And one of the other.                                                   *)
LEMMA DownNext ==
  ASSUME TypeOK, Down, Next
  PROVE  Down' /\ (state # "closed" /\ state' = "closed" => \E p \in Procs : Reset(p))
<1> USE DEF Down, TypeOK
<1>1. ASSUME NEW p \in Procs, IsOpen(p) \/ NeedPermit(p) \/ GivePermit(p) \/ CountFailure(p)
                               \/ BreakSuccesses(p) \/ ManyFailures(p) \/ Open(p)
                               \/ ForgetFailures(p) \/ ForgetSuccesses(p)
                               \/ ResetFailures(p) \/ ResetSuccesses(p)
      PROVE  Down' /\ state' = state
  BY <1>1, StepMoves DEF IsOpen, NeedPermit, GivePermit, CountFailure, BreakSuccesses,
     ManyFailures, Open, ForgetFailures, ForgetSuccesses, ResetFailures, ResetSuccesses, Step
<1>2. ASSUME NEW p \in Procs, Call(p) PROVE Down' /\ state' = state
  BY <1>2, StepMoves DEF Call, Step
<1>3. ASSUME NEW p \in Procs, TakePermit(p) PROVE Down' /\ state' = state
  BY <1>3, StepMoves DEF TakePermit, Step
<1>4. ASSUME NEW p \in Procs, TryOpenHalf(p)
      PROVE  Down' /\ state' = IF state = "open" THEN "half_open" ELSE state
  BY <1>4, StepMoves DEF TryOpenHalf, Step
<1>5. ASSUME NEW p \in Procs, StoreOpen(p) PROVE Down' /\ state' = "open"
  BY <1>5, StepMoves DEF StoreOpen, Step
<1>6. ASSUME NEW p \in Procs, Reset(p) PROVE Down'
  BY <1>6, StepMoves DEF Reset, Step
<1>7. ASSUME NEW p \in Procs
      PROVE  ~(CountSuccess(p) \/ BreakFailures(p) \/ IsTrial(p) \/ EnoughSuccesses(p)
               \/ Close(p) \/ StoreClosed(p))
  BY DEF CountSuccess, BreakFailures, IsTrial, EnoughSuccesses, Close, StoreClosed, Step
<1>8. ~Settle
  BY DEF Settle
<1>9. QED
  BY <1>1, <1>2, <1>3, <1>4, <1>5, <1>6, <1>7, <1>8 DEF Next, Continue, Record

(* RecoversWhenHealthy asks that the breaker close and stay closed; that   *)
(* it stays closed, and never opens on the way, is proved.                 *)
THEOREM RecoveryLastsHolds == Spec => RecoveryLasts
<1>1. TypeOK /\ [Next]_vars => (Well => Well' /\ Distance[state'] <= Distance[state]) \/ UNCHANGED vars
  BY WellNext
<1>2. QED
  BY <1>1, TypeCorrect, PTL DEF Spec, RecoveryLasts

(* DownIsNoticed asks that the breaker open again and again; that it does  *)
(* not close meanwhile, unless an operator resets it, is proved.           *)
THEOREM AlarmLastsHolds == Spec => AlarmLasts
<1>1. TypeOK /\ [Next]_vars =>
         \/ Down => Down' /\ (state # "closed" /\ state' = "closed" => \E p \in Procs : Reset(p))
         \/ UNCHANGED vars
  BY DownNext
<1>2. QED
  BY <1>1, TypeCorrect, PTL DEF Spec, AlarmLasts

=============================================================================
