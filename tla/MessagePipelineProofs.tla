----------------------- MODULE MessagePipelineProofs -----------------------
(***************************************************************************)
(* Proofs about MessagePipeline for every set of messages and instances    *)
(* and every bound: type correctness, the inductive invariant IInv, the    *)
(* safety properties it implies, the bound on attempts, the refinement of  *)
(* DeliveryContract, and that nothing promised is taken back.              *)
(***************************************************************************)
EXTENDS MessagePipeline, TLAPS

(* The unique index holds, and only inserted rows count as consumed.       *)
RowInv ==
    /\ \A m \in Msgs : rows[m] <= 1
    /\ \A m \in consumed : rows[m] = 1

(* Whatever a session is past is settled; that is what it may commit.      *)
ClaimInv ==
    /\ \A k \in 1..committed : Settled(log[k])
    /\ \A i \in Instances : InSession(i) =>
          \A k \in DOMAIN log : k < pos[i] => Settled(log[k])

(* Consumers write and bury records of the log only, in its order.         *)
OrderInv ==
    /\ \A m \in Msgs : m \in consumed \/ Buried(m) => Logged(m)
    /\ SettledInOrder

(* The consumer about to push is the one that wrote the row.               *)
PushInv ==
    /\ PushedOnceAfterStored
    /\ \A i \in Instances : cpc[i] = "push" =>
          /\ Cur(i) \in consumed
          /\ \A k \in DOMAIN pushed : pushed[k] # Cur(i)
    /\ \A i, j \in Instances :
          cpc[i] = "push" /\ cpc[j] = "push" /\ Cur(i) = Cur(j) => i = j

(* A call on its way to success has made its message durable.              *)
DurableInv ==
    \A m \in Msgs :
        spc[m] \in {"respond", "ok"} \/ bcast[m] \in {"pending", "sent"}
            => Logged(m) \/ Stored(m)

IInv == /\ TypeOK /\ RowInv /\ ClaimInv
        /\ OrderInv /\ PushInv /\ DurableInv

-----------------------------------------------------------------------------
(* Type correctness: every variable keeps its type, and the position of a  *)
(* live claim its bounds in the log.                                       *)
LEMMA TypeInit == Init => TypeOK
  BY ConstantsAssumption
  DEF Init, TypeOK, BrokerType, DbType, ProcType, ClaimType, SendType,
      Phases, ClaimStates, SendStates, InFlight

(* A step of the pipeline, or a stuttering one, keeps the types.           *)
LEMMA TypeNext == TypeOK /\ [Next]_vars => TypeOK'
<1> SUFFICES ASSUME TypeOK, [Next]_vars PROVE TypeOK'
  OBVIOUS
<1>0. BrokerType /\ DbType /\ ProcType /\ ClaimType /\ SendType
  BY DEF TypeOK
<1>a. UNCHANGED brokerVars => BrokerType'
  BY <1>0 DEF brokerVars, BrokerType
<1>b. UNCHANGED dbVars => DbType'
  BY <1>0 DEF dbVars, DbType
<1>c. UNCHANGED <<procVars, disruptions>> => ProcType'
  BY <1>0 DEF procVars, ProcType
<1>d. UNCHANGED <<claimVars, log>> => ClaimType'
  BY <1>0 DEF claimVars, ClaimType
<1>e. UNCHANGED sendVars => SendType'
  BY <1>0 DEF sendVars, SendType
<1>f. UNCHANGED brokerVars => UNCHANGED log
  BY DEF brokerVars
<1> USE ConstantsAssumption
<1>1. CASE UNCHANGED vars
  BY <1>1, <1>a, <1>b, <1>c, <1>d, <1>e, <1>f DEF vars, TypeOK
<1>2. ASSUME NEW m \in Msgs, NEW i \in Instances, Request(m, i) PROVE TypeOK'
  <2>1. SendType'
    BY <1>0, <1>2 DEF SendType, Request, SendStates, InFlight
  <2>2. QED
    BY <2>1, <1>2, <1>a, <1>b, <1>c, <1>d, <1>f DEF TypeOK, Request
<1>3. ASSUME NEW m \in Msgs, CheckProducer(m) PROVE TypeOK'
  <2>1. SendType'
    BY <1>0, <1>3 DEF SendType, CheckProducer, SendStates, InFlight
  <2>2. QED
    BY <2>1, <1>3, <1>a, <1>b, <1>c, <1>d, <1>f DEF TypeOK, CheckProducer
<1>4. ASSUME NEW m \in Msgs, Produce(m) PROVE TypeOK'
  <2>1. requests[m] + 1 \in 0..MaxResends + 1 /\ spc' = spc /\ at' = at /\ bcast' = bcast
    BY <1>0, <1>4 DEF SendType, Produce
  <2>2. SendType'
    BY <1>0, <1>4, <2>1 DEF SendType, Produce
  <2>3. ProcType'
    BY <1>0, <1>4 DEF ProcType, Produce, procVars
  <2>4. QED
    BY <2>2, <2>3, <1>4, <1>a, <1>b, <1>d, <1>f DEF TypeOK, Produce
<1>k. ASSUME NEW m \in Msgs, ProduceReturns(m) PROVE TypeOK'
  <2>1. SendType'
    BY <1>0, <1>k DEF SendType, ProduceReturns, SendStates, InFlight
  <2>2. QED
    BY <2>1, <1>k, <1>a, <1>b, <1>c, <1>d, <1>f DEF TypeOK, ProduceReturns
<1>l. ASSUME NEW m \in Msgs, AppendRecord(m) PROVE TypeOK'
  <2>1. log' \in Seq(Msgs) /\ Len(log') >= Len(log)
    BY <1>0, <1>l DEF BrokerType, AppendRecord
  <2>2. BrokerType'
    BY <1>0, <1>l, <2>1 DEF BrokerType, AppendRecord
  <2>3. ClaimType'
    BY <1>0, <1>l, <2>1 DEF BrokerType, ClaimType, AppendRecord, claimVars
  <2>4. QED
    BY <2>2, <2>3, <1>l, <1>b, <1>c, <1>e DEF TypeOK, AppendRecord
<1>5. ASSUME NEW m \in Msgs, CreateDirect(m) PROVE TypeOK'
  <2>1. SendType'
    BY <1>0, <1>5 DEF SendType, CreateDirect, SendStates, InFlight
  <2>2. DbType'
    BY <1>0, <1>5 DEF DbType, CreateDirect, CreateMessage
  <2>3. QED
    BY <2>1, <2>2, <1>5, <1>a, <1>c, <1>d, <1>f DEF TypeOK, CreateDirect
<1>6. ASSUME NEW m \in Msgs, Respond(m) PROVE TypeOK'
  <2>1. SendType'
    BY <1>0, <1>6 DEF SendType, Respond, SendStates, InFlight
  <2>2. QED
    BY <2>1, <1>6, <1>a, <1>b, <1>c, <1>d, <1>f DEF TypeOK, Respond
<1>7. ASSUME NEW m \in Msgs, BroadcastGroupMessage(m) PROVE TypeOK'
  <2>1. SendType'
    BY <1>0, <1>7 DEF SendType, BroadcastGroupMessage, InFlight
  <2>2. QED
    BY <2>1, <1>7, <1>a, <1>b, <1>c, <1>d, <1>f
    DEF TypeOK, BroadcastGroupMessage
<1>8. ASSUME NEW i \in Instances, Fetch(i) PROVE TypeOK'
  <2>1. ClaimType'
    BY <1>0, <1>8, <1>f DEF ClaimType, Fetch, ClaimStates
  <2>2. QED
    BY <2>1, <1>8, <1>a, <1>b, <1>c, <1>e DEF TypeOK, Fetch
<1>g. ASSUME NEW i \in Instances, cpc[i] \notin {"none", "idle"},
             MarkAndAdvance(i), UNCHANGED log
      PROVE  ClaimType'
  BY <1>0, <1>g DEF BrokerType, ClaimType, MarkAndAdvance, ClaimStates
<1>h. ASSUME NEW i \in Instances, cpc[i] \notin {"none", "idle"}
      PROVE  Cur(i) \in Msgs
  BY <1>0, <1>h DEF BrokerType, ClaimType, Cur
<1>9. ASSUME NEW i \in Instances, CheckExisting(i) PROVE TypeOK'
  <2>1. CASE MarkAndAdvance(i)
    BY <2>1, <1>9, <1>g, <1>f, <1>a, <1>b, <1>c, <1>e
    DEF TypeOK, CheckExisting
  <2>2. CASE cpc' = [cpc EXCEPT ![i] = "create"] /\ UNCHANGED <<pos, mark, retry>>
    <3>1. ClaimType'
      BY <2>2, <1>9, <1>0, <1>f DEF ClaimType, CheckExisting, ClaimStates
    <3>2. QED
      BY <3>1, <1>9, <1>a, <1>b, <1>c, <1>e DEF TypeOK, CheckExisting
  <2>3. QED
    BY <2>1, <2>2, <1>9 DEF CheckExisting
<1>10. ASSUME NEW i \in Instances, CreateFromRecord(i) PROVE TypeOK'
  <2>0. Cur(i) \in Msgs
    BY <1>10, <1>h DEF CreateFromRecord
  <2>1. DbType'
    BY <1>0, <1>10, <2>0 DEF DbType, CreateFromRecord, CreateMessage
  <2>2. log' = log /\ pos' = pos /\ mark' = mark
    BY <1>10 DEF CreateFromRecord, brokerVars
  <2>3. \/ AttemptFailed(i)
        \/ cpc' = [cpc EXCEPT ![i] = "push"] /\ UNCHANGED retry
    BY <1>10 DEF CreateFromRecord
  <2>4. /\ cpc[i] = "create" /\ retry[i] + 1 \in 0..MaxAttempts + 1
        /\ pos[i] <= Len(log)
    <3>1. cpc[i] = "create"
      BY <1>10 DEF CreateFromRecord
    <3>2. retry[i] \in 0..MaxAttempts + 1 /\ retry[i] <= MaxAttempts
      BY <3>1, <1>0 DEF ClaimType
    <3>3. pos[i] <= Len(log)
      BY <3>1, <1>0 DEF ClaimType
    <3>4. QED
      BY <3>1, <3>2, <3>3
  <2>5. ClaimType'
    <3>1. CASE AttemptFailed(i)
      <4>1. retry' \in [Instances -> 0..MaxAttempts + 1]
        BY <3>1, <2>4, <1>0 DEF ClaimType, AttemptFailed
      <4>2. cpc' \in [Instances -> ClaimStates]
        BY <3>1, <1>0 DEF ClaimType, AttemptFailed, ClaimStates
      <4>3. \A j \in Instances :
               /\ cpc'[j] \notin {"none", "idle"} => pos[j] <= Len(log)
               /\ cpc'[j] # "dlq" => retry'[j] <= MaxAttempts
        BY <3>1, <2>4, <1>0 DEF ClaimType, AttemptFailed
      <4>4. QED
        BY <2>2, <4>1, <4>2, <4>3, <1>0 DEF ClaimType
    <3>2. CASE cpc' = [cpc EXCEPT ![i] = "push"] /\ UNCHANGED retry
      BY <2>2, <2>4, <3>2, <1>0 DEF ClaimType, ClaimStates
    <3>3. QED
      BY <2>3, <3>1, <3>2
  <2>6. QED
    BY <2>1, <2>5, <1>10, <1>a, <1>c, <1>e DEF TypeOK, CreateFromRecord
<1>11. ASSUME NEW i \in Instances, Deliver(i) PROVE TypeOK'
  <2>1. DbType'
    BY <1>0, <1>11, <1>h DEF DbType, Deliver
  <2>2. ClaimType'
    BY <1>11, <1>g, <1>f DEF Deliver
  <2>3. QED
    BY <2>1, <2>2, <1>11, <1>a, <1>c, <1>e DEF TypeOK, Deliver
<1>12. ASSUME NEW i \in Instances, RetryAfterDelay(i) PROVE TypeOK'
  <2>1. ClaimType'
    BY <1>0, <1>12, <1>f DEF ClaimType, RetryAfterDelay, ClaimStates
  <2>2. QED
    BY <2>1, <1>12, <1>a, <1>b, <1>c, <1>e DEF TypeOK, RetryAfterDelay
<1>13. ASSUME NEW i \in Instances, SendToDLQ(i) PROVE TypeOK'
  <2>0. Cur(i) \in Msgs
    BY <1>13, <1>h DEF SendToDLQ
  <2>1. DbType' /\ BrokerType'
    BY <1>0, <1>13, <2>0 DEF DbType, BrokerType, SendToDLQ
  <2>2. ClaimType'
    BY <1>13, <1>g DEF SendToDLQ
  <2>3. QED
    BY <2>1, <2>2, <1>13, <1>c, <1>e DEF TypeOK, SendToDLQ
<1>14. ASSUME NEW i \in Instances, Assign(i) PROVE TypeOK'
  <2>1. BrokerType'
    BY <1>0, <1>14 DEF BrokerType, Assign
  <2>2. ProcType'
    BY <1>0, <1>14 DEF ProcType, Assign, procVars
  <2>3. ClaimType'
    BY <1>0, <1>14 DEF BrokerType, ClaimType, Assign, InSession, ClaimStates
  <2>4. QED
    BY <2>1, <2>2, <2>3, <1>14, <1>b, <1>e DEF TypeOK, Assign
<1>15. ASSUME NEW i \in Instances, AutoCommit(i) PROVE TypeOK'
  <2>1. BrokerType'
    BY <1>0, <1>15 DEF BrokerType, ClaimType, AutoCommit
  <2>2. QED
    BY <2>1, <1>15, <1>b, <1>c, <1>d, <1>e DEF TypeOK, AutoCommit
<1>i. ASSUME NEW i \in Instances, LeaveSession(i), UNCHANGED log
      PROVE  ClaimType'
  BY <1>0, <1>i DEF BrokerType, ClaimType, LeaveSession, ClaimStates
<1>16. ASSUME NEW i \in Instances, EndSession(i) PROVE TypeOK'
  <2>1. BrokerType'
    BY <1>0, <1>16 DEF BrokerType, ClaimType, EndSession
  <2>2. ProcType'
    BY <1>0, <1>16 DEF ProcType, EndSession, procVars
  <2>3. ClaimType'
    BY <1>16, <1>i DEF EndSession
  <2>4. QED
    BY <2>1, <2>2, <2>3, <1>16, <1>b, <1>e DEF TypeOK, EndSession
<1>17. ASSUME NEW i \in Instances, Start(i) PROVE TypeOK'
  <2>1. ProcType'
    BY <1>0, <1>17 DEF ProcType, Start, Phases
  <2>2. QED
    BY <2>1, <1>17, <1>a, <1>b, <1>d, <1>e, <1>f DEF TypeOK, Start
<1>j. ASSUME NEW i \in Instances, ProcessEnds(i) PROVE SendType' /\ ClaimType'
  <2>1. SendType'
    BY <1>0, <1>j DEF SendType, ProcessEnds, SendStates, InFlight
  <2>2. QED
    BY <2>1, <1>i, <1>f, <1>j DEF ProcessEnds
<1>18. ASSUME NEW i \in Instances, Crash(i) PROVE TypeOK'
  <2>1. ProcType'
    BY <1>0, <1>18 DEF ProcType, Crash, ProcessEnds, Phases
  <2>2. QED
    BY <2>1, <1>18, <1>j, <1>a, <1>b DEF TypeOK, Crash, ProcessEnds
<1>19. ASSUME NEW i \in Instances, Shutdown(i) PROVE TypeOK'
  <2>1. ProcType'
    BY <1>0, <1>19 DEF ProcType, Shutdown, Phases
  <2>2. QED
    BY <2>1, <1>19, <1>a, <1>b, <1>d, <1>e, <1>f DEF TypeOK, Shutdown
<1>20. ASSUME NEW i \in Instances, CloseProducer(i) PROVE TypeOK'
  <2>1. ProcType'
    BY <1>0, <1>20 DEF ProcType, CloseProducer
  <2>2. QED
    BY <2>1, <1>20, <1>a, <1>b, <1>d, <1>e, <1>f DEF TypeOK, CloseProducer
<1>21. ASSUME NEW i \in Instances, Exit(i) PROVE TypeOK'
  <2>1. ProcType'
    BY <1>0, <1>21 DEF ProcType, Exit, ProcessEnds, Phases
  <2>2. QED
    BY <2>1, <1>21, <1>j, <1>a, <1>b DEF TypeOK, Exit, ProcessEnds
<1>22. QED
  BY <1>1, <1>2, <1>3, <1>4, <1>5, <1>6, <1>7, <1>8, <1>9, <1>10, <1>11,
     <1>12, <1>13, <1>14, <1>15, <1>16, <1>17, <1>18, <1>19, <1>20, <1>21,
     <1>k, <1>l
  DEF Next, Send, HandleRecord, Process

(* Every reachable state of the pipeline is well typed: retryCount stays   *)
(* within its bound and a claim stays within the log.                      *)
THEOREM TypeCorrect == Spec => []TypeOK
<1>1. QED
  BY TypeInit, TypeNext, PTL DEF Spec

-----------------------------------------------------------------------------
(* A consumer handling a record handles one of the log.                    *)
LEMMA CurLogged ==
  ASSUME TypeOK, NEW i \in Instances, cpc[i] \notin {"none", "idle"}
  PROVE  pos[i] \in DOMAIN log /\ log[pos[i]] = Cur(i) /\ Cur(i) \in Msgs
BY DEF TypeOK, BrokerType, ClaimType, Cur

(* What a step can do to the log: nothing, or append a record.             *)
LEMMA LogSteps ==
  ASSUME TypeOK, [Next]_vars
  PROVE  \/ log' = log
         \/ \E m \in Msgs : AppendRecord(m) /\ log' = Append(log, m)
BY DEF Next, vars, brokerVars, dbVars, procVars, claimVars, sendVars,
       Send, HandleRecord, Process, Request, CheckProducer, Produce,
       ProduceReturns, AppendRecord, CreateDirect, Respond,
       BroadcastGroupMessage, Fetch, CheckExisting,
       CreateFromRecord, Deliver, RetryAfterDelay, SendToDLQ, Assign,
       AutoCommit, EndSession, Start, Crash, Shutdown, CloseProducer, Exit,
       ProcessEnds

(* What a step can do to the messages table: nothing, or insert the one    *)
(* row of a message, from a call in "direct" or from a consumer.           *)
LEMMA RowSteps ==
  ASSUME TypeOK, [Next]_vars
  PROVE  \/ UNCHANGED <<rows, consumed>>
         \/ \E m \in Msgs : /\ CreateDirect(m) /\ rows[m] = 0
                            /\ rows' = [rows EXCEPT ![m] = 1]
                            /\ UNCHANGED consumed
         \/ \E i \in Instances : /\ CreateFromRecord(i)
                                 /\ Cur(i) \in Msgs /\ rows[Cur(i)] = 0
                                 /\ rows' = [rows EXCEPT ![Cur(i)] = 1]
                                 /\ consumed' = consumed \cup {Cur(i)}
<1>1. ASSUME NEW m \in Msgs, CreateDirect(m)
      PROVE  \/ UNCHANGED <<rows, consumed>>
             \/ /\ rows[m] = 0 /\ UNCHANGED consumed
                /\ rows' = [rows EXCEPT ![m] = 1]
  BY <1>1 DEF CreateDirect, CreateMessage, TypeOK, DbType
<1>2. ASSUME NEW i \in Instances, CreateFromRecord(i)
      PROVE  /\ Cur(i) \in Msgs
             /\ \/ UNCHANGED <<rows, consumed>>
                \/ /\ rows[Cur(i)] = 0
                   /\ rows' = [rows EXCEPT ![Cur(i)] = 1]
                   /\ consumed' = consumed \cup {Cur(i)}
  <2>1. Cur(i) \in Msgs
    BY <1>2, CurLogged DEF CreateFromRecord
  <2>2. CASE rows' = rows
    BY <1>2, <2>1, <2>2 DEF CreateFromRecord
  <2>3. CASE rows' # rows
    <3>1. rows[Cur(i)] = 0 /\ rows' = [rows EXCEPT ![Cur(i)] = @ + 1]
      BY <1>2, <2>3 DEF CreateFromRecord, CreateMessage
    <3>2. QED
      BY <1>2, <2>1, <2>3, <3>1 DEF CreateFromRecord, TypeOK, DbType
  <2>4. QED
    BY <2>1, <2>2, <2>3
<1>3. CASE UNCHANGED <<rows, consumed>>
  BY <1>3
<1>4. CASE \E m \in Msgs : CreateDirect(m)
  BY <1>4, <1>1
<1>5. CASE \E i \in Instances : CreateFromRecord(i)
  BY <1>5, <1>2
<1>6. QED
  BY <1>3, <1>4, <1>5
  DEF Next, vars, dbVars, Send, HandleRecord, Process, Request,
      CheckProducer, Produce, ProduceReturns, AppendRecord, Respond,
      BroadcastGroupMessage, Fetch,
      CheckExisting, Deliver, RetryAfterDelay, SendToDLQ, Assign,
      AutoCommit, EndSession, Start, Crash, Shutdown, CloseProducer, Exit,
      ProcessEnds

(* What a step can do to the given-up messages: nothing, or sendToDLQ adds *)
(* its record.                                                             *)
LEMMA BuriedSteps ==
  ASSUME TypeOK, [Next]_vars
  PROVE  \/ UNCHANGED <<dlq, dropped>>
         \/ \E i \in Instances :
               /\ SendToDLQ(i) /\ Cur(i) \in Msgs
               /\ dlq' \cup dropped' = dlq \cup dropped \cup {Cur(i)}
<1>1. ASSUME NEW i \in Instances, SendToDLQ(i)
      PROVE  /\ Cur(i) \in Msgs
             /\ dlq' \cup dropped' = dlq \cup dropped \cup {Cur(i)}
  <2>1. Cur(i) \in Msgs
    BY <1>1, CurLogged DEF SendToDLQ
  <2>2. QED
    BY <2>1, <1>1 DEF SendToDLQ
<1>2. CASE \E i \in Instances : SendToDLQ(i)
  BY <1>1, <1>2
<1>3. CASE UNCHANGED <<dlq, dropped>>
  BY <1>3
<1>4. QED
  BY <1>2, <1>3
  DEF Next, vars, brokerVars, dbVars, Send, HandleRecord, Process, Request,
      CheckProducer, Produce, ProduceReturns, AppendRecord, CreateDirect,
      Respond, BroadcastGroupMessage,
      Fetch, CheckExisting, CreateFromRecord, Deliver, RetryAfterDelay,
      Assign, AutoCommit, EndSession, Start, Crash, Shutdown, CloseProducer,
      Exit, ProcessEnds

(* What is logged, stored or settled stays so, and records keep their      *)
(* offsets.                                                                *)
LEMMA Persistence ==
  ASSUME TypeOK, [Next]_vars
  PROVE  /\ Len(log') >= Len(log)
         /\ \A k \in DOMAIN log : k \in DOMAIN log' /\ log'[k] = log[k]
         /\ \A m \in Msgs : Logged(m) => Logged(m)'
         /\ \A m \in Msgs : Stored(m) => Stored(m)'
         /\ \A m \in Msgs : Settled(m) => Settled(m)'
         /\ consumed \subseteq consumed'
<1>1. /\ Len(log') >= Len(log)
      /\ \A k \in DOMAIN log : k \in DOMAIN log' /\ log'[k] = log[k]
  BY LogSteps DEF TypeOK, BrokerType
<1>2. \A m \in Msgs : Logged(m) => Logged(m)'
  BY <1>1 DEF Logged
<1>3. \A m \in Msgs : Stored(m) => Stored(m)'
  BY RowSteps DEF Stored, TypeOK, DbType
<1>4. dlq \cup dropped \subseteq dlq' \cup dropped'
  BY BuriedSteps
<1>5. consumed \subseteq consumed'
  BY RowSteps
<1>6. QED
  BY <1>1, <1>2, <1>3, <1>4, <1>5 DEF Settled, Buried

-----------------------------------------------------------------------------
(* Preservation of the parts of IInv.                                      *)

(* An insert hits the unique index when the row is there, so no step makes *)
(* a second row.                                                           *)
LEMMA RowNext ==
  ASSUME TypeOK, RowInv, [Next]_vars PROVE RowInv'
BY RowSteps DEF RowInv, TypeOK, DbType

(* The record i handles is settled after the step.                         *)
SettlesCur(i) == \E m \in Msgs : m = Cur(i) /\ Settled(m)'

(* How the position of a session moves: not at all, past a record that is  *)
(* settled by then, or to the committed offset when the session begins.    *)
LEMMA ClaimSteps ==
  ASSUME IInv, [Next]_vars, NEW i \in Instances, InSession(i)'
  PROVE  \/ InSession(i) /\ pos'[i] = pos[i]
         \/ /\ cpc[i] \notin {"none", "idle"} /\ pos'[i] = pos[i] + 1
            /\ SettlesCur(i)
         \/ pos'[i] = committed + 1 /\ committed' = committed
<1> USE DEF InSession
<1>0. TypeOK /\ ClaimType
  BY DEF IInv, TypeOK
<1>1. CASE UNCHANGED claimVars
  BY <1>1 DEF claimVars
<1>2. ASSUME NEW j \in Instances, Fetch(j) \/ RetryAfterDelay(j)
      PROVE  InSession(i) /\ pos'[i] = pos[i]
  BY <1>0, <1>2 DEF Fetch, RetryAfterDelay, ClaimType
<1>3. ASSUME NEW j \in Instances, CreateFromRecord(j)
      PROVE  InSession(i) /\ pos'[i] = pos[i]
  BY <1>0, <1>3 DEF CreateFromRecord, AttemptFailed, ClaimType
<1>4. ASSUME NEW j \in Instances, cpc[j] \notin {"none", "idle"}, MarkAndAdvance(j)
      PROVE  IF i = j THEN pos'[i] = pos[i] + 1
                      ELSE InSession(i) /\ pos'[i] = pos[i]
  BY <1>0, <1>4 DEF MarkAndAdvance, ClaimType
<1>5. ASSUME NEW j \in Instances, CheckExisting(j)
      PROVE  \/ InSession(i) /\ pos'[i] = pos[i]
             \/ /\ cpc[i] \notin {"none", "idle"} /\ pos'[i] = pos[i] + 1
                /\ SettlesCur(i)
  <2>1. CASE Stored(Cur(j)) /\ MarkAndAdvance(j)
    <3>1. SettlesCur(j)
      BY <2>1, <1>5, <1>0, CurLogged, Persistence
      DEF CheckExisting, Settled, SettlesCur
    <3>2. QED
      BY <2>1, <1>5, <3>1, <1>4 DEF CheckExisting
  <2>2. CASE cpc' = [cpc EXCEPT ![j] = "create"] /\ UNCHANGED <<pos, mark, retry>>
    BY <2>2, <1>5, <1>0 DEF CheckExisting, ClaimType
  <2>3. QED
    BY <2>1, <2>2, <1>5 DEF CheckExisting
<1>6. ASSUME NEW j \in Instances, Deliver(j)
      PROVE  \/ InSession(i) /\ pos'[i] = pos[i]
             \/ /\ cpc[i] \notin {"none", "idle"} /\ pos'[i] = pos[i] + 1
                /\ SettlesCur(i)
  <2>1. SettlesCur(j)
    BY <1>6, <1>0, CurLogged
    DEF Deliver, IInv, PushInv, RowInv, Settled, Stored, SettlesCur
  <2>2. QED
    BY <2>1, <1>6, <1>4 DEF Deliver
<1>7. ASSUME NEW j \in Instances, SendToDLQ(j)
      PROVE  \/ InSession(i) /\ pos'[i] = pos[i]
             \/ /\ cpc[i] \notin {"none", "idle"} /\ pos'[i] = pos[i] + 1
                /\ SettlesCur(i)
  <2>1. SettlesCur(j)
    BY <1>7, <1>0, CurLogged DEF SendToDLQ, Settled, Buried, SettlesCur
  <2>2. QED
    BY <2>1, <1>7, <1>4 DEF SendToDLQ
<1>8. ASSUME NEW j \in Instances, Assign(j)
      PROVE  \/ InSession(i) /\ pos'[i] = pos[i]
             \/ pos'[i] = committed + 1 /\ committed' = committed
  BY <1>0, <1>8 DEF Assign, ClaimType
<1>9. ASSUME NEW j \in Instances, LeaveSession(j)
      PROVE  InSession(i) /\ pos'[i] = pos[i]
  BY <1>0, <1>9 DEF LeaveSession, ClaimType
<1>10. QED
  BY <1>1, <1>2, <1>3, <1>5, <1>6, <1>7, <1>8, <1>9
  DEF Next, vars, Send, HandleRecord, Process, Request, CheckProducer,
      Produce, ProduceReturns, AppendRecord, CreateDirect, Respond,
      BroadcastGroupMessage, AutoCommit,
      EndSession, Start, Crash, Shutdown, CloseProducer, Exit, ProcessEnds

(* The committed offset moves only to what a session marked.               *)
LEMMA CommitSteps ==
  ASSUME TypeOK, [Next]_vars
  PROVE  \/ committed' = committed
         \/ \E i \in Instances : InSession(i) /\ committed' = mark[i]
BY DEF Next, vars, brokerVars, InSession, Send, HandleRecord, Process,
       Request, CheckProducer, Produce, ProduceReturns, AppendRecord,
       CreateDirect, Respond,
       BroadcastGroupMessage, Fetch, CheckExisting, CreateFromRecord,
       Deliver, RetryAfterDelay, SendToDLQ, Assign, AutoCommit, EndSession,
       Start, Crash, Shutdown, CloseProducer, Exit, ProcessEnds

(* Marks and the committed offset only ever cover settled records, as a    *)
(* session advances past a record only when it is settled.                 *)
LEMMA ClaimNext ==
  ASSUME IInv, [Next]_vars PROVE ClaimInv'
<1>0. TypeOK /\ ClaimInv /\ BrokerType /\ ClaimType
  BY DEF IInv, TypeOK
<1>1. ASSUME NEW k \in DOMAIN log, Settled(log[k])
      PROVE  Settled(log[k])'
  BY <1>0, <1>1, Persistence DEF BrokerType
<1>2. ASSUME NEW k \in 1..committed' PROVE Settled(log[k])'
  <2>1. CASE committed' = committed
    BY <1>0, <1>1, <2>1 DEF ClaimInv, BrokerType
  <2>2. ASSUME NEW i \in Instances, InSession(i), committed' = mark[i]
        PROVE  Settled(log[k])'
    <3>1. k \in DOMAIN log /\ k < pos[i]
      BY <1>0, <2>2 DEF BrokerType, ClaimType
    <3>2. QED
      BY <1>0, <1>1, <2>2, <3>1 DEF ClaimInv
  <2>3. QED
    BY <1>0, <2>1, <2>2, CommitSteps
<1>3. ASSUME NEW i \in Instances, InSession(i)', NEW k \in DOMAIN log', k < pos'[i]
      PROVE  Settled(log[k])'
  <2>0. k \in Nat \ {0} /\ pos[i] \in Nat /\ committed \in Nat
    <3>1. log' \in Seq(Msgs)
      BY <1>0, TypeNext DEF TypeOK, BrokerType
    <3>2. k \in 1..Len(log')
      BY <3>1, <1>3
    <3>3. QED
      BY <3>1, <3>2, <1>0 DEF BrokerType, ClaimType
  <2>1. CASE InSession(i) /\ pos'[i] = pos[i]
    <3>1. k \in DOMAIN log
      BY <1>0, <1>3, <2>1, Persistence DEF BrokerType, ClaimType
    <3>2. QED
      BY <1>0, <1>1, <1>3, <2>1, <3>1 DEF ClaimInv
  <2>2. CASE /\ cpc[i] \notin {"none", "idle"} /\ pos'[i] = pos[i] + 1
             /\ SettlesCur(i)
    <3>1. pos[i] \in DOMAIN log /\ log[pos[i]] = Cur(i)
      BY <1>0, <2>2, CurLogged
    <3>2. CASE k = pos[i]
      <4>1. log'[k] = Cur(i)
        BY <1>0, <3>1, <3>2, Persistence
      <4>2. QED
        BY <2>2, <4>1 DEF SettlesCur
    <3>3. CASE k < pos[i]
      <4>1. k \in DOMAIN log
        BY <1>0, <2>0, <3>1, <3>3 DEF BrokerType
      <4>2. QED
        BY <1>0, <1>1, <2>2, <3>3, <4>1 DEF ClaimInv, InSession
    <3>4. QED
      BY <1>3, <2>0, <2>2, <3>2, <3>3
  <2>3. CASE pos'[i] = committed + 1 /\ committed' = committed
    BY <2>0, <1>2, <1>3, <2>3
  <2>4. QED
    BY <1>3, <2>1, <2>2, <2>3, ClaimSteps
<1>4. QED
  BY <1>2, <1>3 DEF ClaimInv

(* A consumer writes or gives up the record at its position, and every     *)
(* record before that position is settled.                                 *)
LEMMA OrderNext ==
  ASSUME IInv, [Next]_vars PROVE OrderInv'
<1>0. TypeOK /\ ClaimInv /\ OrderInv /\ BrokerType
  BY DEF IInv, TypeOK
<1> DEFINE Done(m) == m \in consumed \/ Buried(m)
<1>1. ASSUME NEW m \in Msgs, Done(m)', ~Done(m)
      PROVE  \E i \in Instances : InSession(i) /\ pos[i] \in DOMAIN log /\ log[pos[i]] = m
  <2>1. ASSUME NEW i \in Instances, CreateFromRecord(i) \/ SendToDLQ(i), m = Cur(i)
        PROVE  InSession(i) /\ pos[i] \in DOMAIN log /\ log[pos[i]] = m
    BY <1>0, <2>1, CurLogged DEF CreateFromRecord, SendToDLQ, InSession
  <2>2. CASE m \in consumed'
    BY <1>1, <2>1, <2>2, <1>0, RowSteps
  <2>3. CASE m \in dlq' \cup dropped'
    BY <1>1, <2>1, <2>3, <1>0, BuriedSteps DEF Buried
  <2>4. QED
    BY <1>1, <2>2, <2>3 DEF Buried
<1>2. ASSUME NEW m \in Msgs, Done(m)' PROVE Logged(m)
  BY <1>0, <1>1, <1>2 DEF OrderInv, Logged
<1>3. ASSUME NEW j \in DOMAIN log', NEW k \in DOMAIN log', j < k, Done(log[k])',
             FirstRecord(k)'
      PROVE  Settled(log[j])'
  <2>0. /\ j \in 1..Len(log') /\ k \in 1..Len(log') /\ log'[k] \in Msgs
        /\ log' \in Seq(Msgs) /\ log \in Seq(Msgs)
    BY <1>0, TypeNext DEF TypeOK, BrokerType
  <2>a. \A l \in DOMAIN log : l < k => log[l] # log'[k]
    <3>1. \A l \in DOMAIN log : l \in Nat \ {0} /\ log'[l] = log[l]
      BY <1>0, <2>0, Persistence
    <3>2. QED
      BY <1>3, <2>0, <3>1 DEF FirstRecord
  <2>1. k \in DOMAIN log
    <3>1. PICK l \in DOMAIN log : log[l] = log'[k]
      BY <1>2, <1>3, <2>0 DEF Logged
    <3>2. l \in 1..Len(log) /\ ~(l < k)
      BY <2>0, <2>a, <3>1
    <3>3. QED
      BY <2>0, <3>2
  <2>2. j \in DOMAIN log /\ log'[j] = log[j] /\ log'[k] = log[k] /\ log[k] \in Msgs
    BY <1>0, <1>3, <2>0, <2>1, Persistence
  <2>b. FirstRecord(k)
    BY <2>0, <2>1, <2>2, <2>a DEF FirstRecord
  <2>3. Settled(log[j])
    <3>1. CASE Done(log[k])
      BY <1>0, <1>3, <2>1, <2>2, <2>b, <3>1 DEF OrderInv, SettledInOrder
    <3>2. CASE ~Done(log[k])
      <4>1. PICK i \in Instances :
               InSession(i) /\ pos[i] \in DOMAIN log /\ log[pos[i]] = log[k]
        BY <1>1, <1>3, <2>2, <3>2
      <4>2. pos[i] \in 1..Len(log) /\ ~(pos[i] < k)
        BY <2>0, <2>2, <2>a, <4>1
      <4>3. j < pos[i]
        BY <1>3, <2>0, <4>2
      <4>4. QED
        BY <1>0, <4>1, <4>3, <2>2 DEF ClaimInv
    <3>3. QED
      BY <3>1, <3>2
  <2>4. QED
    BY <1>0, <2>0, <2>2, <2>3, Persistence
<1>4. ASSUME NEW m \in Msgs, Done(m)' PROVE Logged(m)'
  BY <1>0, <1>2, <1>4, Persistence
<1>5. QED
  BY <1>3, <1>4 DEF OrderInv, SettledInOrder

(* HandleMessage pushes after its own insert succeeded, which can happen to*)
(* one consumer and one attempt only.                                      *)
LEMMA PushNext ==
  ASSUME IInv, [Next]_vars PROVE PushInv'
<1>0. TypeOK /\ RowInv /\ PushInv
  BY DEF IInv
<1> DEFINE Pushed(m) == \E k \in DOMAIN pushed : pushed[k] = m
           Pushing(i, m) == cpc[i] = "push" /\ Cur(i) = m
<1>1. ASSUME NEW i \in Instances, Deliver(i) PROVE PushInv'
  <2>0. /\ Cur(i) \in consumed /\ ~Pushed(Cur(i))
        /\ pushed' = pushed \/ pushed' = Append(pushed, Cur(i))
        /\ consumed' = consumed
        /\ pushed \in Seq(Msgs) /\ Cur(i) \in Msgs
    BY <1>0, <1>1, CurLogged DEF PushInv, Deliver, TypeOK, DbType
  <2>1. PushedOnceAfterStored'
    BY <1>0, <2>0 DEF PushInv, PushedOnceAfterStored
  <2>2. ASSUME NEW j \in Instances, cpc'[j] = "push"
        PROVE  j # i /\ cpc[j] = "push" /\ pos'[j] = pos[j]
    BY <1>0, <1>1, <2>2 DEF Deliver, MarkAndAdvance, TypeOK, ClaimType
  <2>3. ASSUME NEW j \in Instances, cpc'[j] = "push"
        PROVE  Cur(j)' = Cur(j) /\ Cur(j) # Cur(i)
    BY <1>0, <1>1, <2>2, <2>3 DEF Cur, PushInv, Deliver, brokerVars
  <2>4. QED
    BY <1>0, <2>0, <2>1, <2>2, <2>3 DEF PushInv
<1>2. ASSUME pushed' = pushed,
             \A i \in Instances : cpc'[i] = "push" =>
                 \/ cpc[i] = "push" /\ pos'[i] = pos[i]
                 \/ /\ cpc[i] = "create" /\ pos'[i] = pos[i]
                    /\ rows[Cur(i)] = 0 /\ Cur(i) \in consumed'
                    /\ \A j \in Instances \ {i} : cpc'[j] = cpc[j]
      PROVE  PushInv'
  <2>1. PushedOnceAfterStored'
    BY <1>0, <1>2, Persistence DEF PushInv, PushedOnceAfterStored
  <2>2. ASSUME NEW i \in Instances, cpc'[i] = "push"
        PROVE  Cur(i)' = Cur(i) /\ Cur(i) \in Msgs
    BY <1>0, <1>2, <2>2, CurLogged, Persistence DEF Cur
  <2>3. ASSUME NEW i \in Instances, cpc'[i] = "push"
        PROVE  Cur(i) \in consumed' /\ ~Pushed(Cur(i))
    <3>1. CASE cpc[i] = "push"
      BY <1>0, <3>1, Persistence DEF PushInv
    <3>2. CASE rows[Cur(i)] = 0 /\ Cur(i) \in consumed'
      BY <1>0, <3>2 DEF PushInv, PushedOnceAfterStored, RowInv
    <3>3. QED
      BY <1>2, <2>3, <3>1, <3>2
  <2>4. ASSUME NEW i \in Instances, NEW j \in Instances,
               cpc'[i] = "push", cpc'[j] = "push", Cur(i) = Cur(j)
        PROVE  i = j
    <3>1. CASE cpc[i] = "push" /\ cpc[j] = "push"
      BY <1>0, <2>4, <3>1 DEF PushInv
    <3>2. ASSUME NEW x \in Instances, NEW y \in Instances, x # y,
                 cpc[x] = "push", cpc'[y] = "push", cpc[y] # "push", Cur(x) = Cur(y)
          PROVE  FALSE
      BY <1>0, <1>2, <3>2 DEF PushInv, RowInv
    <3>3. QED
      BY <1>2, <2>4, <3>1, <3>2
  <2>5. QED
    BY <1>2, <2>1, <2>2, <2>3, <2>4 DEF PushInv
<1>3. ASSUME NEW i \in Instances, CreateFromRecord(i) PROVE PushInv'
  <2>0. /\ cpc[i] = "create" /\ pos' = pos /\ pushed' = pushed /\ log' = log
        /\ Cur(i) \in Msgs
    BY <1>0, <1>3, CurLogged DEF CreateFromRecord, brokerVars
  <2>1. CASE AttemptFailed(i)
    BY <1>0, <1>2, <2>0, <2>1 DEF AttemptFailed, TypeOK, ClaimType
  <2>2. CASE ~AttemptFailed(i)
    <3>1. /\ CreateMessage(Cur(i), FALSE)
          /\ cpc' = [cpc EXCEPT ![i] = "push"]
          /\ consumed' = IF rows' # rows THEN consumed \cup {Cur(i)} ELSE consumed
      BY <1>3, <2>2 DEF CreateFromRecord
    <3>2. rows[Cur(i)] = 0 /\ rows' # rows
      BY <1>0, <2>0, <3>1 DEF CreateMessage, TypeOK, DbType
    <3>3. QED
      BY <1>0, <1>2, <2>0, <3>1, <3>2 DEF TypeOK, ClaimType
  <2>3. QED
    BY <2>1, <2>2
<1>4. ASSUME pushed' = pushed,
             \A i \in Instances : cpc'[i] = "push" => cpc[i] = "push" /\ pos'[i] = pos[i]
      PROVE  PushInv'
  BY <1>2, <1>4
<1>5. ASSUME NEW j \in Instances, NEW i \in Instances, cpc'[i] = "push",
             \/ Fetch(j) \/ CheckExisting(j) \/ RetryAfterDelay(j)
             \/ SendToDLQ(j) \/ Assign(j) \/ LeaveSession(j)
      PROVE  cpc[i] = "push" /\ pos'[i] = pos[i]
  BY <1>0, <1>5
  DEF Fetch, CheckExisting, MarkAndAdvance, RetryAfterDelay, SendToDLQ,
      Assign, LeaveSession, TypeOK, ClaimType
<1>6. CASE UNCHANGED <<pushed, claimVars>>
  BY <1>4, <1>6 DEF claimVars
<1>7. ASSUME NEW j \in Instances,
             \/ Fetch(j) \/ CheckExisting(j) \/ RetryAfterDelay(j)
             \/ SendToDLQ(j) \/ Assign(j) \/ EndSession(j) \/ Crash(j) \/ Exit(j)
      PROVE  PushInv'
  <2>1. pushed' = pushed
    BY <1>7 DEF Fetch, CheckExisting, RetryAfterDelay, SendToDLQ, Assign,
                EndSession, Crash, Exit, ProcessEnds, dbVars
  <2>2. LeaveSession(j) \/ Fetch(j) \/ CheckExisting(j) \/ RetryAfterDelay(j)
        \/ SendToDLQ(j) \/ Assign(j)
    BY <1>7 DEF EndSession, Crash, Exit, ProcessEnds
  <2>3. QED
    BY <1>4, <1>5, <2>1, <2>2
<1>8. QED
  BY <1>1, <1>3, <1>6, <1>7
  DEF Next, vars, dbVars, claimVars, Send, HandleRecord, Process, Request,
      CheckProducer, Produce, ProduceReturns, AppendRecord, CreateDirect,
      Respond, BroadcastGroupMessage,
      AutoCommit, Start, Shutdown, CloseProducer

(* A call reaches "respond" only after the broker appended its record or   *)
(* the fallback insert succeeded.                                          *)
LEMMA DurableNext ==
  ASSUME IInv, [Next]_vars PROVE DurableInv'
<1>0. TypeOK /\ SendType /\ DurableInv
  BY DEF IInv, TypeOK
<1> DEFINE Claimed(m) == spc[m] \in {"respond", "ok"} \/ bcast[m] \in {"pending", "sent"}
<1>1. ASSUME NEW m \in Msgs, Claimed(m)
      PROVE  (Logged(m) \/ Stored(m))'
  BY <1>0, <1>1, Persistence DEF DurableInv
<1>2. ASSUME NEW n \in Msgs, ProduceReturns(n), NEW m \in Msgs, Claimed(m)', ~Claimed(m)
      PROVE  (Logged(m) \/ Stored(m))'
  <2>1. m = n /\ Logged(m) /\ log' = log
    BY <1>0, <1>2 DEF ProduceReturns, SendType, brokerVars
  <2>2. QED
    BY <2>1 DEF Logged
<1>a. ASSUME NEW n \in Msgs, Produce(n) \/ AppendRecord(n), NEW m \in Msgs,
Claimed(m)'
      PROVE  Claimed(m)
  BY <1>a DEF Produce, AppendRecord, sendVars
<1>3. ASSUME NEW n \in Msgs, CreateDirect(n), NEW m \in Msgs, Claimed(m)', ~Claimed(m)
      PROVE  (Logged(m) \/ Stored(m))'
  <2>1. m = n /\ CreateMessage(m, FALSE)
    BY <1>0, <1>3 DEF CreateDirect, SendType
  <2>2. QED
    BY <1>0, <2>1 DEF CreateMessage, Stored, TypeOK, DbType
<1>4. ASSUME NEW n \in Msgs, Respond(n) \/ CheckProducer(n) \/ BroadcastGroupMessage(n),
             NEW m \in Msgs, Claimed(m)'
      PROVE  Claimed(m)
  BY <1>0, <1>4 DEF Respond, CheckProducer, BroadcastGroupMessage, SendType
<1>5. ASSUME NEW n \in Msgs, NEW i \in Instances, Request(n, i), NEW m \in Msgs, Claimed(m)'
      PROVE  Claimed(m)
  BY <1>0, <1>5 DEF Request, SendType
<1>6. ASSUME NEW i \in Instances, ProcessEnds(i), NEW m \in Msgs, Claimed(m)'
      PROVE  Claimed(m)
  BY <1>0, <1>6 DEF ProcessEnds, SendType
<1>7. ASSUME UNCHANGED sendVars, NEW m \in Msgs, Claimed(m)'
      PROVE  Claimed(m)
  BY <1>7 DEF sendVars
<1>8. ASSUME NEW m \in Msgs, Claimed(m)'
      PROVE  (Logged(m) \/ Stored(m))'
  BY <1>1, <1>2, <1>a, <1>3, <1>4, <1>5, <1>6, <1>7, <1>8
  DEF Next, vars, Send, HandleRecord, Process, Fetch, CheckExisting,
      CreateFromRecord, Deliver, RetryAfterDelay, SendToDLQ, Assign,
      AutoCommit, EndSession, Start, Crash, Shutdown, CloseProducer, Exit
<1>9. QED
  BY <1>8 DEF DurableInv

-----------------------------------------------------------------------------
(* The inductive invariant and what follows from it.                       *)

(* The inductive invariant holds at the start and over every step.         *)
LEMMA Inductive ==
  /\ Init => IInv
  /\ IInv /\ [Next]_vars => IInv'
<1>1. ASSUME Init PROVE IInv
  <2>1. RowInv /\ ClaimInv /\ OrderInv /\ PushInv /\ DurableInv
    BY <1>1
    DEF Init, RowInv, ClaimInv, OrderInv, PushInv, DurableInv,
        Logged, Stored, Settled, Buried, InSession, SettledInOrder,
        PushedOnceAfterStored
  <2>2. QED
    BY <1>1, <2>1, TypeInit DEF IInv
<1>2. ASSUME IInv, [Next]_vars PROVE IInv'
  BY <1>2, TypeNext, RowNext, ClaimNext, OrderNext, PushNext,
     DurableNext
  DEF IInv
<1>3. QED
  BY <1>1, <1>2

(* Every reachable state satisfies the inductive invariant, the source of  *)
(* the safety theorems below.                                              *)
THEOREM Invariance == Spec => []IInv
BY Inductive, PTL DEF Spec

(* The group commits past settled records only.                            *)
THEOREM CommittedIsSettledHolds == Spec => []CommittedIsSettled
<1>1. IInv => CommittedIsSettled
  BY DEF IInv, ClaimInv, CommittedIsSettled
<1>2. QED
  BY <1>1, Invariance, PTL

(* Messages settle in the order of their first records.                    *)
THEOREM SettledInOrderHolds == Spec => []SettledInOrder
<1>1. IInv => SettledInOrder
  BY DEF IInv, OrderInv
<1>2. QED
  BY <1>1, Invariance, PTL

(* Consumers push a message at most once, after writing its row.           *)
THEOREM PushedOnceHolds == Spec => []PushedOnceAfterStored
<1>1. IInv => PushedOnceAfterStored
  BY DEF IInv, PushInv
<1>2. QED
  BY <1>1, Invariance, PTL

(* A message is acknowledged to its sender only when it is durable.        *)
THEOREM AcceptedIsDurableHolds == Spec => []AcceptedIsDurable
<1>1. IInv => AcceptedIsDurable
  BY DEF IInv, DurableInv, AcceptedIsDurable
<1>2. QED
  BY <1>1, Invariance, PTL

-----------------------------------------------------------------------------
(* Attempts at a record.                                                   *)

(* A record is on its way to the dead letter queue only after all attempts.*)
GiveUpInv == \A i \in Instances : cpc[i] = "dlq" => retry[i] = MaxAttempts + 1

(* What a step does to the claim of an instance, by the actions that touch *)
(* it.                                                                     *)
LEMMA ClaimStep ==
  ASSUME TypeOK, [Next]_vars, NEW i \in Instances
  PROVE  \/ cpc'[i] = cpc[i] /\ pos'[i] = pos[i] /\ retry'[i] = retry[i]
         \/ HandleRecord(i)
         \/ ~ InSession(i) /\ cpc'[i] = "idle"
         \/ ~ InSession(i)'
<1>0. ClaimType
  BY DEF TypeOK
<1>1. ASSUME NEW j \in Instances, Fetch(j) \/ RetryAfterDelay(j), j # i
      PROVE  cpc'[i] = cpc[i] /\ pos'[i] = pos[i] /\ retry'[i] = retry[i]
  BY <1>0, <1>1 DEF Fetch, RetryAfterDelay, ClaimType
<1>2. ASSUME NEW j \in Instances, CheckExisting(j) \/ Deliver(j) \/ SendToDLQ(j), j # i
      PROVE  cpc'[i] = cpc[i] /\ pos'[i] = pos[i] /\ retry'[i] = retry[i]
  BY <1>0, <1>2 DEF CheckExisting, Deliver, SendToDLQ, MarkAndAdvance, ClaimType
<1>3. ASSUME NEW j \in Instances, CreateFromRecord(j), j # i
      PROVE  cpc'[i] = cpc[i] /\ pos'[i] = pos[i] /\ retry'[i] = retry[i]
  BY <1>0, <1>3 DEF CreateFromRecord, AttemptFailed, ClaimType
<1>4. ASSUME NEW j \in Instances, HandleRecord(j)
      PROVE  HandleRecord(i) \/ (cpc'[i] = cpc[i] /\ pos'[i] = pos[i] /\ retry'[i] = retry[i])
  BY <1>1, <1>2, <1>3, <1>4 DEF HandleRecord
<1>5. ASSUME NEW j \in Instances, Assign(j)
      PROVE  \/ cpc'[i] = cpc[i] /\ pos'[i] = pos[i] /\ retry'[i] = retry[i]
             \/ ~ InSession(i) /\ cpc'[i] = "idle"
  BY <1>0, <1>5 DEF Assign, ClaimType
<1>6. ASSUME NEW j \in Instances, LeaveSession(j)
      PROVE  \/ cpc'[i] = cpc[i] /\ pos'[i] = pos[i] /\ retry'[i] = retry[i]
             \/ ~ InSession(i)'
  BY <1>0, <1>6 DEF LeaveSession, ClaimType, InSession
<1>7. CASE UNCHANGED claimVars
  BY <1>7 DEF claimVars
<1>8. QED
  BY <1>4, <1>5, <1>6, <1>7
  DEF Next, vars, Send, Process, Request, CheckProducer, Produce,
      ProduceReturns, AppendRecord, CreateDirect, Respond,
      BroadcastGroupMessage, AutoCommit, EndSession, Start, Crash, Shutdown, CloseProducer,
      Exit, ProcessEnds

(* One attempt after the other fails until none is left.                   *)
LEMMA GiveUpNext ==
  ASSUME TypeOK, GiveUpInv, [Next]_vars
  PROVE  GiveUpInv'
<1> SUFFICES ASSUME NEW i \in Instances, cpc'[i] = "dlq"
             PROVE  retry'[i] = MaxAttempts + 1
  BY DEF GiveUpInv
<1>0. ClaimType /\ MaxAttempts \in Nat
  BY ConstantsAssumption DEF TypeOK
<1>1. CASE cpc'[i] = cpc[i] /\ retry'[i] = retry[i]
  BY <1>1 DEF GiveUpInv
<1>2. CASE HandleRecord(i)
  <2>1. CreateFromRecord(i)
    BY <1>0, <1>2 DEF HandleRecord, Fetch, CheckExisting, Deliver, RetryAfterDelay, SendToDLQ,
                      MarkAndAdvance, ClaimType
  <2>2. AttemptFailed(i) /\ retry[i] \in Nat /\ retry[i] <= MaxAttempts
    BY <1>0, <2>1 DEF CreateFromRecord, ClaimType
  <2>3. QED
    BY <1>0, <2>2 DEF AttemptFailed, ClaimType
<1>3. QED
  BY <1>1, <1>2, ClaimStep DEF InSession

(* A record is left stored or after MaxAttempts + 1 attempts, and there    *)
(* are no more of them while a consumer keeps it.                          *)
THEOREM AttemptsAreBoundedHolds == Spec => AttemptsAreBounded
<1>1. Init => GiveUpInv
  BY DEF Init, GiveUpInv
<1>2. ASSUME IInv, GiveUpInv, [Next]_vars, NEW i \in Instances, InSession(i), InSession(i)'
      PROVE  IF pos'[i] = pos[i]
             THEN (cpc'[i] = cpc[i] /\ retry'[i] = retry[i]) \/ Left(i)' < Left(i)
             ELSE Stored(Cur(i)) \/ retry[i] = MaxAttempts + 1
  <2>0. /\ TypeOK /\ ClaimType /\ MaxAttempts \in Nat
        /\ pos[i] \in Nat /\ retry[i] \in Nat
    BY <1>2, ConstantsAssumption DEF IInv, TypeOK, ClaimType
  <2>1. ASSUME NEW k \in Nat, retry'[i] = retry[i] + k,
               StepsLeft[cpc'[i]] \in Nat, StepsLeft[cpc[i]] \in Nat,
               StepsLeft[cpc'[i]] < StepsLeft[cpc[i]] + 4 * k
        PROVE  Left(i)' < Left(i)
    BY <2>0, <2>1 DEF Left
  <2>2. /\ StepsLeft["idle"] = 3 /\ StepsLeft["backoff"] = 3 /\ StepsLeft["check"] = 2
        /\ StepsLeft["create"] = 1 /\ StepsLeft["push"] = 0 /\ StepsLeft["dlq"] = 0
    BY DEF StepsLeft
  <2>3. ASSUME Fetch(i) \/ RetryAfterDelay(i) PROVE pos'[i] = pos[i] /\ Left(i)' < Left(i)
    <3>1. /\ pos'[i] = pos[i] /\ retry'[i] = retry[i] + 0
          /\ cpc'[i] = "check" /\ cpc[i] \in {"idle", "backoff"}
      BY <2>0, <2>3 DEF Fetch, RetryAfterDelay, ClaimType
    <3>2. QED
      BY <2>1, <2>2, <3>1
  <2>4. ASSUME CheckExisting(i)
        PROVE  \/ pos'[i] = pos[i] /\ Left(i)' < Left(i)
               \/ pos'[i] # pos[i] /\ Stored(Cur(i))
    <3>1. CASE Stored(Cur(i)) /\ MarkAndAdvance(i)
      BY <2>0, <3>1 DEF MarkAndAdvance, ClaimType
    <3>2. CASE cpc' = [cpc EXCEPT ![i] = "create"] /\ UNCHANGED <<pos, mark, retry>>
      <4>1. /\ pos'[i] = pos[i] /\ retry'[i] = retry[i] + 0
            /\ cpc'[i] = "create" /\ cpc[i] = "check"
        BY <2>0, <2>4, <3>2 DEF CheckExisting, ClaimType
      <4>2. QED
        BY <2>1, <2>2, <4>1
    <3>3. QED
      BY <2>4, <3>1, <3>2 DEF CheckExisting
  <2>5. ASSUME CreateFromRecord(i) PROVE pos'[i] = pos[i] /\ Left(i)' < Left(i)
    <3>1. pos'[i] = pos[i] /\ cpc[i] = "create"
      BY <2>5 DEF CreateFromRecord
    <3>2. CASE AttemptFailed(i)
      <4>1. retry'[i] = retry[i] + 1 /\ cpc'[i] \in {"backoff", "dlq"}
        BY <2>0, <3>2 DEF AttemptFailed, ClaimType
      <4>2. QED
        BY <2>1, <2>2, <3>1, <4>1
    <3>3. CASE cpc' = [cpc EXCEPT ![i] = "push"] /\ UNCHANGED retry
      <4>1. retry'[i] = retry[i] + 0 /\ cpc'[i] = "push"
        BY <2>0, <3>3 DEF ClaimType
      <4>2. QED
        BY <2>1, <2>2, <3>1, <4>1
    <3>4. QED
      BY <2>5, <3>1, <3>2, <3>3 DEF CreateFromRecord
  <2>6. ASSUME Deliver(i) PROVE pos'[i] # pos[i] /\ Stored(Cur(i))
    <3>1. pos'[i] = pos[i] + 1 /\ cpc[i] = "push"
      BY <2>0, <2>6 DEF Deliver, MarkAndAdvance, ClaimType
    <3>2. Cur(i) \in consumed
      BY <1>2, <3>1 DEF IInv, PushInv
    <3>3. QED
      BY <1>2, <2>0, <3>1, <3>2 DEF IInv, RowInv, Stored
  <2>7. ASSUME SendToDLQ(i) PROVE pos'[i] # pos[i] /\ retry[i] = MaxAttempts + 1
    BY <1>2, <2>0, <2>7 DEF SendToDLQ, MarkAndAdvance, ClaimType, GiveUpInv
  <2>8. QED
    BY <1>2, <2>0, <2>3, <2>4, <2>5, <2>6, <2>7, ClaimStep DEF HandleRecord
<1>3. ASSUME IInv, GiveUpInv, [Next]_vars
      PROVE  \A i \in Instances :
                InSession(i) /\ InSession(i)' =>
                   IF pos'[i] = pos[i]
                   THEN (cpc'[i] = cpc[i] /\ retry'[i] = retry[i]) \/ Left(i)' < Left(i)
                   ELSE Stored(Cur(i)) \/ retry[i] = MaxAttempts + 1
  BY <1>2, <1>3
<1>4. IInv /\ GiveUpInv /\ [Next]_vars => GiveUpInv'
  BY GiveUpNext DEF IInv
<1>5. QED
  BY <1>1, <1>3, <1>4, Invariance, PTL DEF Spec, AttemptsAreBounded

-----------------------------------------------------------------------------
(* The pipeline implements DeliveryContract.                               *)

Answered == {m \in Msgs : spc[m] = "ok"}

(* The empty pipeline is the initial state of the contract.                *)
LEMMA InitRefines == Init => Contract!Init
BY DEF Init, Contract!Init, StoreView

(* Everything but Respond leaves the set of answered calls alone.          *)
LEMMA AnsweredSteps ==
  ASSUME TypeOK, [Next]_vars
  PROVE  \/ Answered' = Answered
         \/ \E m \in Msgs : Respond(m) /\ Answered' = Answered \cup {m}
<1>0. SendType
  BY DEF TypeOK
<1>1. ASSUME NEW m \in Msgs, Respond(m) PROVE Answered' = Answered \cup {m}
  BY <1>0, <1>1 DEF Respond, Answered, SendType
<1>2. ASSUME NEW m \in Msgs,
             \/ \E i \in Instances : Request(m, i)
             \/ CheckProducer(m) \/ Produce(m) \/ ProduceReturns(m)
             \/ AppendRecord(m) \/ CreateDirect(m)
             \/ BroadcastGroupMessage(m)
      PROVE  Answered' = Answered
  BY <1>0, <1>2 DEF Request, CheckProducer, Produce, ProduceReturns,
                    AppendRecord, CreateDirect, BroadcastGroupMessage,
                    sendVars, Answered, SendType
<1>3. ASSUME NEW i \in Instances, ProcessEnds(i) PROVE Answered' = Answered
  BY <1>0, <1>3 DEF ProcessEnds, Answered, SendType, InFlight
<1>4. CASE UNCHANGED spc
  BY <1>4 DEF Answered
<1>5. QED
  BY <1>1, <1>2, <1>3, <1>4
  DEF Next, vars, sendVars, Send, HandleRecord, Process, Fetch,
      CheckExisting, CreateFromRecord, Deliver, RetryAfterDelay, SendToDLQ,
      Assign, AutoCommit, EndSession, Start, Crash, Shutdown,
      CloseProducer, Exit

(* An insert, seen through StoreView.                                      *)
LEMMA StoreViewInsert ==
  ASSUME DbType, NEW m \in Msgs, NEW writer,
         rows[m] = 0, rows' = [rows EXCEPT ![m] = @ + 1],
         \/ consumed' = consumed /\ m \notin consumed /\ writer = "handler"
         \/ consumed' = consumed \cup {m} /\ writer = "queue"
  PROVE  StoreView[m] = "none" /\ StoreView' = [StoreView EXCEPT ![m] = writer]
<1>1. StoreView[m] = "none"
  BY DEF StoreView
<1>2. \A n \in Msgs : rows'[n] = IF n = m THEN 1 ELSE rows[n]
  BY DEF DbType
<1>3. \A n \in Msgs : StoreView'[n] = IF n = m THEN writer ELSE StoreView[n]
  BY <1>2 DEF StoreView
<1>4. DOMAIN StoreView = Msgs /\ DOMAIN StoreView' = Msgs
  BY DEF StoreView
<1>5. StoreView = [n \in Msgs |-> StoreView[n]]
      /\ StoreView' = [n \in Msgs |-> StoreView'[n]]
  BY DEF StoreView
<1>6. QED
  BY <1>1, <1>3, <1>4, <1>5

(* The step of the contract that a step of the pipeline is.                *)
LEMMA NextRefines ==
  ASSUME IInv, [Next]_vars
  PROVE  [Contract!Next]_Contract!vars
<1>0. TypeOK /\ BrokerType /\ DbType /\ ClaimType /\ RowInv /\ ClaimInv /\ PushInv
  BY DEF IInv, TypeOK
<1> DEFINE Grave == dlq \cup dropped
<1>a. ASSUME UNCHANGED <<rows, consumed>> PROVE StoreView' = StoreView
  BY <1>a DEF StoreView
<1>b. ASSUME UNCHANGED <<dlq, dropped>> PROVE Grave' = Grave
  BY <1>b
<1>c. ASSUME UNCHANGED <<log, committed, pushed>>, Answered' = Answered,
             StoreView' = StoreView, Grave' = Grave
      PROVE  UNCHANGED Contract!vars
  BY <1>c DEF Contract!vars, Answered
<1>d. \A m \in Msgs : /\ Contract!Settled(m) <=> Settled(m)
                      /\ Contract!InQueue(m) <=> Logged(m)
  BY <1>0 DEF Contract!Settled, Contract!InQueue, Settled, Stored, Buried,
              Logged, StoreView, DbType
<1>e. ASSUME NEW i \in Instances, cpc[i] \notin {"none", "idle"}
      PROVE  /\ pos[i] \in DOMAIN log /\ log[pos[i]] = Cur(i) /\ Cur(i) \in Msgs
             /\ Contract!SettledTo(pos[i] - 1)
  <2>1. pos[i] \in DOMAIN log /\ log[pos[i]] = Cur(i) /\ Cur(i) \in Msgs
    BY <1>0, <1>e, CurLogged
  <2>2. \A k \in 1..(pos[i] - 1) : k \in DOMAIN log /\ k < pos[i] /\ log[k] \in Msgs
    BY <1>0, <2>1 DEF BrokerType
  <2>3. QED
    BY <1>0, <1>d, <1>e, <2>1, <2>2 DEF Contract!SettledTo, ClaimInv, InSession
<1>1. ASSUME NEW m \in Msgs, AppendRecord(m) PROVE [Contract!Next]_Contract!vars
  <2>1. /\ UNCHANGED <<committed, pushed, rows, consumed, dlq, dropped>>
        /\ log' = Append(log, m) /\ Answered' = Answered
    BY <1>1 DEF AppendRecord, dbVars, sendVars, Answered
  <2>2. QED
    BY <1>a, <2>1 DEF Contract!Next, Contract!Enqueue, Answered
<1>2. ASSUME NEW m \in Msgs, CreateDirect(m) PROVE [Contract!Next]_Contract!vars
  <2>1. UNCHANGED <<log, committed, pushed, consumed, dlq, dropped>> /\ spc[m] = "direct"
    BY <1>2 DEF CreateDirect, brokerVars
  <2>2. Answered' = Answered
    BY <1>0, <1>2 DEF CreateDirect, Answered, TypeOK, SendType
  <2>3. CASE rows' = rows
    BY <1>a, <1>b, <1>c, <2>1, <2>2, <2>3
  <2>4. CASE rows[m] = 0 /\ rows' = [rows EXCEPT ![m] = @ + 1]
    <3>1. m \notin consumed
      BY <1>0, <2>4 DEF RowInv
    <3>2. StoreView[m] = "none" /\ StoreView' = [StoreView EXCEPT ![m] = "handler"]
      BY <1>0, <2>1, <2>4, <3>1, StoreViewInsert
    <3>3. m \notin Answered
      BY <2>1 DEF Answered
    <3>4. QED
      BY <2>1, <2>2, <3>2, <3>3 DEF Contract!Next, Contract!WriteDirect, Answered
  <2>5. QED
    BY <1>2, <2>3, <2>4 DEF CreateDirect, CreateMessage
<1>3. ASSUME NEW m \in Msgs, Respond(m) PROVE [Contract!Next]_Contract!vars
  <2>1. /\ UNCHANGED <<log, committed, pushed, rows, consumed, dlq, dropped>>
        /\ Answered' = Answered \cup {m}
    BY <1>0, <1>3 DEF Respond, brokerVars, dbVars, Answered, TypeOK, SendType
  <2>2. Logged(m) \/ Stored(m)
    BY <1>3 DEF IInv, DurableInv, Respond
  <2>3. Contract!InQueue(m) \/ StoreView[m] # "none"
    BY <1>0, <1>d, <2>2 DEF Stored, StoreView, DbType
  <2>4. QED
    BY <1>a, <2>1, <2>3 DEF Contract!Next, Contract!Answer, Answered
<1>4. ASSUME NEW i \in Instances, CreateFromRecord(i) PROVE [Contract!Next]_Contract!vars
  <2>1. /\ UNCHANGED <<log, committed, pushed, dlq, dropped>>
        /\ cpc[i] = "create" /\ Answered' = Answered
    BY <1>4 DEF CreateFromRecord, brokerVars, sendVars, Answered
  <2>2. CASE UNCHANGED <<rows, consumed>>
    BY <1>a, <1>b, <1>c, <2>1, <2>2
  <2>3. CASE /\ rows[Cur(i)] = 0 /\ rows' = [rows EXCEPT ![Cur(i)] = @ + 1]
             /\ consumed' = consumed \cup {Cur(i)}
    <3>1. pos[i] \in DOMAIN log /\ log[pos[i]] = Cur(i) /\ Cur(i) \in Msgs
          /\ Contract!SettledTo(pos[i] - 1)
      BY <1>e, <2>1
    <3>2. /\ StoreView[Cur(i)] = "none"
          /\ StoreView' = [StoreView EXCEPT ![Cur(i)] = "queue"]
      BY <1>0, <2>3, <3>1, StoreViewInsert
    <3>3. Contract!Settle(pos[i])
      BY <2>1, <3>1, <3>2 DEF Contract!Settle, Answered
    <3>4. QED
      BY <3>1, <3>3 DEF Contract!Next
  <2>4. QED
    BY <1>4, <2>2, <2>3 DEF CreateFromRecord, CreateMessage
<1>5. ASSUME NEW i \in Instances, SendToDLQ(i) PROVE [Contract!Next]_Contract!vars
  <2>1. /\ UNCHANGED <<log, committed, pushed, rows, consumed>>
        /\ cpc[i] = "dlq" /\ Answered' = Answered
        /\ Grave' = Grave \cup {Cur(i)}
    BY <1>5 DEF SendToDLQ, sendVars, Answered
  <2>2. Contract!Settle(pos[i]) /\ pos[i] \in DOMAIN log
    BY <1>a, <1>e, <2>1 DEF Contract!Settle, Answered
  <2>3. QED
    BY <2>2 DEF Contract!Next
<1>6. ASSUME NEW i \in Instances, Deliver(i) PROVE [Contract!Next]_Contract!vars
  <2>1. /\ UNCHANGED <<log, committed, rows, consumed, dlq, dropped>>
        /\ cpc[i] = "push" /\ Answered' = Answered
        /\ pushed' = pushed \/ pushed' = Append(pushed, Cur(i))
    BY <1>6 DEF Deliver, brokerVars, sendVars, Answered
  <2>2. Cur(i) \in Msgs /\ Cur(i) \in consumed
        /\ \A k \in DOMAIN pushed : pushed[k] # Cur(i)
    BY <1>0, <1>e, <2>1 DEF PushInv
  <2>3. StoreView[Cur(i)] = "queue"
    BY <1>0, <2>2 DEF StoreView, RowInv
  <2>4. CASE pushed' = Append(pushed, Cur(i))
    <3>1. Contract!Deliver(Cur(i))
      BY <1>a, <2>1, <2>2, <2>3, <2>4 DEF Contract!Deliver, Contract!Delivered, Answered
    <3>2. QED
      BY <2>2, <3>1 DEF Contract!Next
  <2>5. CASE pushed' = pushed
    BY <1>a, <1>b, <1>c, <2>1, <2>5
  <2>6. QED
    BY <2>1, <2>4, <2>5
<1>7. ASSUME NEW i \in Instances, AutoCommit(i) \/ EndSession(i)
      PROVE  [Contract!Next]_Contract!vars
  <2>1. UNCHANGED <<log, pushed, rows, consumed, dlq, dropped>> /\ Answered' = Answered
    BY <1>7 DEF AutoCommit, EndSession, dbVars, sendVars, Answered
  <2>2. CASE committed' = committed
    BY <1>a, <1>b, <1>c, <2>1, <2>2
  <2>3. CASE committed' = mark[i] /\ mark[i] > committed /\ InSession(i)
    <3>1. mark[i] \in DOMAIN log /\ mark[i] < pos[i]
      BY <1>0, <2>3 DEF BrokerType, ClaimType
    <3>2. \A k \in 1..mark[i] : k \in DOMAIN log /\ k < pos[i] /\ log[k] \in Msgs
      BY <1>0, <3>1 DEF BrokerType, ClaimType
    <3>3. Contract!SettledTo(mark[i])
      BY <1>0, <1>d, <2>3, <3>2 DEF Contract!SettledTo, ClaimInv
    <3>4. Contract!Acknowledge(mark[i])
      BY <1>a, <2>1, <2>3, <3>3 DEF Contract!Acknowledge, Answered
    <3>5. QED
      BY <3>1, <3>4 DEF Contract!Next
  <2>4. QED
    BY <1>7, <2>2, <2>3 DEF AutoCommit, EndSession, InSession
<1>8. ASSUME UNCHANGED <<log, committed, pushed, rows, consumed, dlq, dropped>>,
             ~\E m \in Msgs : Respond(m)
      PROVE  [Contract!Next]_Contract!vars
  BY <1>0, <1>a, <1>b, <1>c, <1>8, AnsweredSteps
<1>9. QED
  BY <1>1, <1>2, <1>3, <1>4, <1>5, <1>6, <1>7, <1>8
  DEF Next, vars, brokerVars, dbVars, Send, HandleRecord, Process, Request,
      CheckProducer, Produce, ProduceReturns, BroadcastGroupMessage, Fetch,
      CheckExisting, RetryAfterDelay, Assign, Start, Crash, Shutdown, CloseProducer, Exit,
      ProcessEnds

(* Every behaviour of the pipeline is one of the contract: messages settle *)
(* in order, only settled ones are acknowledged, answers come after        *)
(* durability and pushes after rows, once.                                 *)
THEOREM Refinement == Spec => ImplementsContract
BY InitRefines, NextRefines, Invariance, PTL
DEF Spec, ImplementsContract, Contract!Spec

-----------------------------------------------------------------------------
(* What the contract allows takes nothing back, and so the pipeline never  *)
(* does: what is in the log and the pushes made keep their places, the     *)
(* committed offset never moves back, an answer stands, a record given up  *)
(* stays given up, and a row keeps the writer it has.                      *)
NothingUndone ==
    /\ \A k \in DOMAIN log : k \in DOMAIN log' /\ log'[k] = log[k]
    /\ \A k \in DOMAIN pushed : k \in DOMAIN pushed' /\ pushed'[k] = pushed[k]
    /\ committed <= committed'
    /\ Answered \subseteq Answered' /\ dlq \cup dropped \subseteq dlq' \cup dropped'
    /\ \A m \in Msgs : rows[m] > 0 =>
          rows'[m] = rows[m] /\ (m \in consumed <=> m \in consumed')

(* The same of a step of the contract.                                     *)
LEMMA ContractKeeps ==
  ASSUME log \in Seq(Msgs), pushed \in Seq(Msgs), committed \in Nat, committed' \in Nat,
         log' \in Seq(Msgs), [Contract!Next]_Contract!vars
  PROVE  /\ \A k \in DOMAIN log : k \in DOMAIN log' /\ log'[k] = log[k]
         /\ \A k \in DOMAIN pushed : k \in DOMAIN pushed' /\ pushed'[k] = pushed[k]
         /\ committed <= committed'
         /\ Answered \subseteq Answered' /\ dlq \cup dropped \subseteq dlq' \cup dropped'
         /\ \A m \in Msgs : StoreView[m] # "none" => StoreView'[m] = StoreView[m]
<1> DEFINE Grave == dlq \cup dropped
           Keeps == /\ \A k \in DOMAIN log : k \in DOMAIN log' /\ log'[k] = log[k]
                    /\ \A k \in DOMAIN pushed : k \in DOMAIN pushed' /\ pushed'[k] = pushed[k]
                    /\ committed <= committed'
                    /\ Answered \subseteq Answered' /\ Grave \subseteq Grave'
                    /\ \A m \in Msgs : StoreView[m] # "none" => StoreView'[m] = StoreView[m]
<1>0. DOMAIN StoreView = Msgs
  BY DEF StoreView
<1>1. CASE UNCHANGED <<log, StoreView, Grave, committed, Answered, pushed>>
  BY <1>1
<1>2. ASSUME NEW m \in Msgs, Contract!Enqueue(m) PROVE Keeps
  <2>1. /\ log' = Append(log, m) /\ UNCHANGED <<StoreView, Grave, committed, pushed>>
        /\ Answered' = Answered
    BY <1>2 DEF Contract!Enqueue, Answered
  <2>2. QED
    BY <2>1
<1>3. ASSUME NEW m \in Msgs, Contract!WriteDirect(m) PROVE Keeps
  <2>1. /\ StoreView[m] = "none" /\ StoreView' = [StoreView EXCEPT ![m] = "handler"]
        /\ UNCHANGED <<log, Grave, committed, pushed>> /\ Answered' = Answered
    BY <1>3 DEF Contract!WriteDirect, Answered
  <2>2. QED
    BY <1>0, <2>1
<1>4. ASSUME NEW m \in Msgs, Contract!Answer(m) PROVE Keeps
  <2>1. /\ Answered' = Answered \cup {m}
        /\ UNCHANGED <<log, StoreView, Grave, committed, pushed>>
    BY <1>4 DEF Contract!Answer, Answered
  <2>2. QED
    BY <2>1
<1>5. ASSUME NEW m \in Msgs, Contract!Deliver(m) PROVE Keeps
  <2>1. /\ pushed' = Append(pushed, m) /\ UNCHANGED <<log, StoreView, Grave, committed>>
        /\ Answered' = Answered
    BY <1>5 DEF Contract!Deliver, Answered
  <2>2. QED
    BY <2>1
<1>6. ASSUME NEW k \in DOMAIN log, Contract!Settle(k) PROVE Keeps
  <2>1. /\ \/ /\ StoreView[log[k]] = "none" /\ UNCHANGED Grave
              /\ StoreView' = [StoreView EXCEPT ![log[k]] = "queue"]
           \/ Grave' = Grave \cup {log[k]} /\ UNCHANGED StoreView
        /\ UNCHANGED <<log, committed, pushed>> /\ Answered' = Answered
    BY <1>6 DEF Contract!Settle, Answered
  <2>2. \A m \in Msgs : StoreView[m] # "none" => StoreView'[m] = StoreView[m]
    BY <1>0, <2>1
  <2>3. Grave \subseteq Grave'
    BY <2>1
  <2>4. QED
    BY <2>1, <2>2, <2>3
<1>7. ASSUME NEW k \in DOMAIN log, Contract!Acknowledge(k) PROVE Keeps
  <2>1. /\ committed < k /\ committed' = k /\ UNCHANGED <<log, StoreView, Grave, pushed>>
        /\ Answered' = Answered
    BY <1>7 DEF Contract!Acknowledge, Answered
  <2>2. QED
    BY <2>1
<1>8. QED
  BY <1>1, <1>2, <1>3, <1>4, <1>5, <1>6, <1>7 DEF Contract!Next, Contract!vars, Answered

(* No step of the pipeline takes anything back, whatever fails, restarts   *)
(* or is rebalanced.                                                       *)
THEOREM NothingUndoneHolds == Spec => [][NothingUndone]_vars
<1>1. IInv /\ IInv' /\ [Next]_vars => NothingUndone
  <2> SUFFICES ASSUME IInv, IInv', [Next]_vars PROVE NothingUndone
    OBVIOUS
  <2>1. /\ log \in Seq(Msgs) /\ log' \in Seq(Msgs) /\ pushed \in Seq(Msgs)
        /\ committed \in Nat /\ committed' \in Nat
        /\ rows \in [Msgs -> Nat] /\ rows' \in [Msgs -> Nat]
    BY DEF IInv, TypeOK, BrokerType, DbType, ProcType
  <2>2. \A m \in Msgs : rows[m] <= 1 /\ rows'[m] <= 1
                        /\ (m \in consumed => rows[m] = 1)
    BY DEF IInv, RowInv
  <2>3. ASSUME NEW m \in Msgs, rows[m] > 0
        PROVE  rows'[m] = rows[m] /\ (m \in consumed <=> m \in consumed')
    <3>1. StoreView[m] # "none" /\ StoreView'[m] = StoreView[m]
      <4>1. StoreView[m] # "none"
        BY <2>3 DEF StoreView
      <4>2. QED
        BY <2>1, <4>1, NextRefines, ContractKeeps
    <3>2. rows'[m] # 0 /\ (m \in consumed <=> m \in consumed')
      BY <2>3, <3>1 DEF StoreView
    <3>3. QED
      BY <2>1, <2>2, <2>3, <3>2
  <2>4. QED
    BY <2>1, <2>3, NextRefines, ContractKeeps DEF NothingUndone
<1>2. QED
  BY <1>1, Invariance, PTL DEF Spec

=============================================================================
