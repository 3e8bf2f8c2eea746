-------------------------- MODULE MessagePipeline --------------------------
(***************************************************************************)
(* The path of a message from the REST call that sends it to the database  *)
(* row and the push that make it visible:                                  *)
(*                                                                         *)
(*   handler goroutine (MessageService.SendMessage,                        *)
(*                      GroupService.SendGroupMessage)                     *)
(*     -> kafka.Producer -> one partition of the message topic             *)
(*     -> kafka.Consumer (one per server instance, one group)              *)
(*     -> KafkaMessageConsumer.HandleMessage -> messages table, hub push   *)
(*                                                                         *)
(* with the fallback that writes the row from the handler when the         *)
(* producer fails, the retry loop and the dead letter queue.  A message is *)
(* one call of a Send operation and stands for its uuid msg_id.  All       *)
(* messages share a partition: those of one conversation always do (the    *)
(* record key is the conversation), so this is the finest ordering the     *)
(* code can rely on.  Payloads are abstracted; a record therefore always   *)
(* parses, as every record Producer.SendMessage writes does.               *)
(***************************************************************************)
EXTENDS Naturals, Sequences, FiniteSets

CONSTANTS
    Msgs,                \* messages that may be sent
    GroupMsgs,           \* those sent to a group
    Instances,           \* server processes, one consumer each
    NoInstance,          \* "the partition has no owner"
    MaxAttempts,         \* RetryConfig.MaxAttempts, at least one
    EnableDLQ,           \* Config.EnableDLQ
    DLQReturnSuccesses,  \* Producer.Return.Successes of the DLQ producer
    InitMayFail,         \* may NewProducer / NewConsumer fail at start-up?
    MaxResends,          \* Producer.Retry.Max
    MaxDisruptions       \* bound: crashes + shutdowns + forced rebalances
                         \* + repeated produce requests

ASSUME ConstantsAssumption ==
    /\ GroupMsgs \subseteq Msgs
    /\ NoInstance \notin Instances
    /\ MaxAttempts \in Nat \ {0}
    /\ MaxResends \in Nat
    /\ MaxDisruptions \in Nat
    /\ EnableDLQ \in BOOLEAN
    /\ DLQReturnSuccesses \in BOOLEAN
    /\ InitMayFail \in BOOLEAN

VARIABLES
    \* the broker
    log,        \* records of the partition, in offset order
    committed,  \* number of records the group has committed past
    owner,      \* instance the group coordinator gives the partition to
    dlq,        \* messages in the dead letter topic
    \* the database and what clients saw
    rows,       \* number of rows of the messages table with this msg_id
    consumed,   \* messages whose row was written by HandleMessage
    dropped,    \* messages sendToDLQ gave up without a DLQ record
    pushed,     \* hub.SendToUser calls made by HandleMessage, in order
    \* server processes
    phase,      \* "down", "running", or "stopping" once a signal arrived
    producer,   \* kafkaProducer: "nil", "open" or "closed"
    consumer,   \* is kafkaConsumer non-nil?
    \* consumer goroutines
    cpc,        \* where ConsumeClaim of the instance stands
    pos,        \* index of the record it handles, or handles next
    mark,       \* number of records marked in its session
    retry,      \* retryCount
    \* handler goroutines, one per message
    spc,        \* where the Send call of the message stands
    at,         \* instance that serves it
    requests,   \* produce requests the producer made for it
    bcast,      \* the group broadcast goroutine of the message
    disruptions

brokerVars == <<log, committed, owner, dlq>>
dbVars     == <<rows, consumed, dropped, pushed>>
procVars   == <<phase, producer, consumer>>
claimVars  == <<cpc, pos, mark, retry>>
sendVars   == <<spc, at, requests, bcast>>
vars == <<brokerVars, dbVars, procVars, claimVars, sendVars, disruptions>>

Phases      == {"down", "running", "stopping"}
ClaimStates == {"none", "idle", "check", "create", "push", "backoff", "dlq"}
SendStates  == {"new", "check", "produce", "direct", "respond",
                "ok", "error", "dead"}
InFlight    == {"check", "produce", "direct", "respond"}

(* sarama.NewSyncProducer refuses a configuration whose                    *)
(* Producer.Return.Successes is not set; NewConsumer then clears           *)
(* cfg.EnableDLQ and goes on without a DLQ producer.                       *)
NewSyncProducerSucceeds(returnSuccesses) == returnSuccesses
DLQEnabled == EnableDLQ /\ NewSyncProducerSucceeds(DLQReturnSuccesses)

Logged(m)  == \E k \in DOMAIN log : log[k] = m
Copies(m)  == Cardinality({k \in DOMAIN log : log[k] = m})
Stored(m)  == rows[m] > 0
Buried(m)  == m \in dlq \/ m \in dropped
Settled(m) == Stored(m) \/ Buried(m)
Cur(i)     == log[pos[i]]
InSession(i) == cpc[i] # "none"
OwnerGone  == owner \notin {i \in Instances : InSession(i)}

Init ==
    /\ log = <<>> /\ committed = 0 /\ owner = NoInstance /\ dlq = {}
    /\ rows = [m \in Msgs |-> 0] /\ consumed = {} /\ dropped = {}
    /\ pushed = <<>>
    /\ phase = [i \in Instances |-> "down"]
    /\ producer = [i \in Instances |-> "nil"]
    /\ consumer = [i \in Instances |-> FALSE]
    /\ cpc = [i \in Instances |-> "none"]
    /\ pos = [i \in Instances |-> 1]
    /\ mark = [i \in Instances |-> 0]
    /\ retry = [i \in Instances |-> 0]
    /\ spc = [m \in Msgs |-> "new"]
    /\ at = [m \in Msgs |-> NoInstance]
    /\ requests = [m \in Msgs |-> 0]
    /\ bcast = [m \in Msgs |-> "none"]
    /\ disruptions = 0

-----------------------------------------------------------------------------
(* The messages table.                                                     *)

(* Repository.CreateMessage.  The unique index on msg_id makes a second    *)
(* insert fail.  An error leaves the table alone, except when the answer   *)
(* to a committed insert is lost.                                          *)
CreateMessage(m, err) ==
    \/ /\ rows[m] = 0
       /\ rows' = [rows EXCEPT ![m] = @ + 1]
    \/ /\ err
       /\ UNCHANGED rows

-----------------------------------------------------------------------------
(* The handler goroutine of a Send call.                                   *)

(* A request reaches a running server.                                     *)
Request(m, i) ==
    /\ spc[m] = "new" /\ phase[i] = "running"
    /\ at' = [at EXCEPT ![m] = i]
    /\ spc' = [spc EXCEPT ![m] = "check"]
    /\ UNCHANGED <<brokerVars, dbVars, procVars, claimVars, requests, bcast, disruptions>>

(* The conversation (or group) lookup fails and the call returns its       *)
(* error, or the producer is asked: it is used when it is open, a nil or   *)
(* closed one sends the call to the direct write.                          *)
CheckProducer(m) ==
    /\ spc[m] = "check"
    /\ \E next \in {"error",
                    IF producer[at[m]] = "open" THEN "produce" ELSE "direct"} :
          spc' = [spc EXCEPT ![m] = next]
    /\ UNCHANGED <<brokerVars, dbVars, procVars, claimVars, at, requests, bcast, disruptions>>

(* sarama's SendMessage asks the broker to append the record and, when the *)
(* answer is an error or is lost, asks again.  A closed producer takes no  *)
(* new record, but still asks again for one it has.                        *)
Produce(m) ==
    /\ spc[m] = "produce"
    /\ \/ requests[m] = 0 /\ producer[at[m]] = "open" /\ UNCHANGED disruptions
       \/ /\ requests[m] \in 1..MaxResends /\ disruptions < MaxDisruptions
          /\ disruptions' = disruptions + 1
    /\ requests' = [requests EXCEPT ![m] = @ + 1]
    /\ UNCHANGED <<brokerVars, dbVars, procVars, claimVars, spc, at, bcast>>

(* The broker carries a request out, at any time or never: the producer is *)
(* not idempotent, so a record asked for again is appended again, behind   *)
(* whatever was appended meanwhile.                                        *)
AppendRecord(m) ==
    /\ Copies(m) < requests[m]
    /\ log' = Append(log, m)
    /\ UNCHANGED <<committed, owner, dlq, dbVars, procVars, claimVars, sendVars, disruptions>>

(* SendMessage returns.  It may report an error for a record the broker    *)
(* did append, or will.  The closed flag was read before, outside this     *)
(* call: a producer closed in between refuses the record, or panics on its *)
(* closed input channel, which RecoveryMiddleware turns into an error      *)
(* answer.                                                                 *)
ProduceReturns(m) ==
    /\ spc[m] = "produce"
    /\ \E next \in {"respond", "direct", "error"} :
          /\ next = "respond" => Logged(m)
          /\ next = "error" => producer[at[m]] = "closed" /\ requests[m] = 0
          /\ spc' = [spc EXCEPT ![m] = next]
    /\ UNCHANGED <<brokerVars, dbVars, procVars, claimVars, at, requests, bcast, disruptions>>

(* Mutant: the error of the fallback insert is only logged.                *)
CreateDirectErrorIgnored(m) ==
    /\ spc[m] = "direct"
    /\ \E err \in BOOLEAN : CreateMessage(m, err)
    /\ spc' = [spc EXCEPT ![m] = "respond"]
    /\ UNCHANGED <<brokerVars, consumed, dropped, pushed, procVars, claimVars, at, requests, bcast, disruptions>>

(* No producer, or it failed: write the row from the handler.              *)
CreateDirect(m) ==
    /\ spc[m] = "direct"
    /\ \E err \in BOOLEAN :
          /\ CreateMessage(m, err)
          /\ spc' = [spc EXCEPT ![m] = IF err THEN "error" ELSE "respond"]
    /\ UNCHANGED <<brokerVars, consumed, dropped, pushed, procVars, claimVars, at, requests, bcast, disruptions>>

(* The call answers success; a group message also gets its broadcast       *)
(* goroutine.                                                              *)
Respond(m) ==
    /\ spc[m] = "respond"
    /\ spc' = [spc EXCEPT ![m] = "ok"]
    /\ bcast' = [bcast EXCEPT ![m] = IF m \in GroupMsgs THEN "pending" ELSE @]
    /\ UNCHANGED <<brokerVars, dbVars, procVars, claimVars, at, requests, disruptions>>

(* broadcastGroupMessage: reads the members (the read may fail) and sends  *)
(* to the local connections of each.                                       *)
BroadcastGroupMessage(m) ==
    /\ bcast[m] = "pending"
    /\ \E next \in {"sent", "failed"} : bcast' = [bcast EXCEPT ![m] = next]
    /\ UNCHANGED <<brokerVars, dbVars, procVars, claimVars, spc, at, requests, disruptions>>

-----------------------------------------------------------------------------
(* The consumer of instance i.                                             *)

(* MarkMessage and on to the next record.                                  *)
MarkAndAdvance(i) ==
    /\ mark' = [mark EXCEPT ![i] = pos[i]]
    /\ pos' = [pos EXCEPT ![i] = @ + 1]
    /\ retry' = [retry EXCEPT ![i] = 0]
    /\ cpc' = [cpc EXCEPT ![i] = "idle"]

(* The session and the claim's local variables are gone.                   *)
LeaveSession(i) ==
    /\ cpc' = [cpc EXCEPT ![i] = "none"]
    /\ pos' = [pos EXCEPT ![i] = 1]
    /\ mark' = [mark EXCEPT ![i] = 0]
    /\ retry' = [retry EXCEPT ![i] = 0]

(* Mutant: Offsets.Initial = OffsetNewest.                                 *)
AssignNewest(i) ==
    /\ consumer[i] /\ phase[i] = "running" /\ ~InSession(i) /\ OwnerGone
    /\ owner' = i
    /\ cpc' = [cpc EXCEPT ![i] = "idle"]
    /\ pos' = [pos EXCEPT ![i] = IF committed = 0 THEN Len(log) + 1 ELSE committed + 1]
    /\ mark' = [mark EXCEPT ![i] = pos'[i] - 1]
    /\ UNCHANGED <<log, committed, dlq, dbVars, procVars, retry, sendVars, disruptions>>

(* The group gives i the partition and its session starts at the           *)
(* committed offset.  This happens when nobody consumes the partition; a   *)
(* member that is alive but slow can also be evicted, and then goes on     *)
(* with the records it holds.                                              *)
Assign(i) ==
    /\ consumer[i] /\ phase[i] = "running" /\ ~InSession(i)
    /\ \/ OwnerGone /\ UNCHANGED disruptions
       \/ /\ ~OwnerGone /\ disruptions < MaxDisruptions
          /\ disruptions' = disruptions + 1
    /\ owner' = i
    /\ cpc' = [cpc EXCEPT ![i] = "idle"]
    /\ pos' = [pos EXCEPT ![i] = committed + 1]
    /\ mark' = [mark EXCEPT ![i] = committed]
    /\ UNCHANGED <<log, committed, dlq, dbVars, procVars, retry, sendVars>>

(* Mutant: the record is marked when it is received, not when handled.     *)
FetchMarkingFirst(i) ==
    /\ cpc[i] = "idle" /\ pos[i] <= Len(log)
    /\ cpc' = [cpc EXCEPT ![i] = "check"]
    /\ mark' = [mark EXCEPT ![i] = pos[i]]
    /\ UNCHANGED <<brokerVars, dbVars, procVars, pos, retry, sendVars, disruptions>>

(* claim.Messages() yields the next record.                                *)
Fetch(i) ==
    /\ cpc[i] = "idle" /\ pos[i] <= Len(log)
    /\ cpc' = [cpc EXCEPT ![i] = "check"]
    /\ UNCHANGED <<brokerVars, dbVars, procVars, pos, mark, retry, sendVars, disruptions>>

(* HandleMessage's idempotency check.  Only a successful read of an        *)
(* existing row skips the record; a read error goes on to the insert.      *)
CheckExisting(i) ==
    /\ cpc[i] = "check"
    /\ \/ Stored(Cur(i)) /\ MarkAndAdvance(i)
       \/ cpc' = [cpc EXCEPT ![i] = "create"] /\ UNCHANGED <<pos, mark, retry>>
    /\ UNCHANGED <<brokerVars, dbVars, procVars, sendVars, disruptions>>

(* Mutant: the loop condition tests the counter before it is incremented.  *)
AttemptFailedOffByOne(i) ==
    /\ retry' = [retry EXCEPT ![i] = @ + 1]
    /\ cpc' = [cpc EXCEPT ![i] =
                 IF retry[i] <= MaxAttempts THEN "backoff" ELSE "dlq"]

(* Mutant: retryCount is never incremented.                                *)
AttemptFailedUncounted(i) ==
    /\ UNCHANGED retry
    /\ cpc' = [cpc EXCEPT ![i] = "backoff"]

(* Mutant: the last attempt is not made.                                   *)
AttemptFailedOneFewer(i) ==
    /\ retry' = [retry EXCEPT ![i] = @ + 1]
    /\ cpc' = [cpc EXCEPT ![i] =
                 IF retry[i] + 1 < MaxAttempts THEN "backoff" ELSE "dlq"]

(* A failed attempt: another one after a delay, or the DLQ when the        *)
(* retries are exhausted.                                                  *)
AttemptFailed(i) ==
    /\ retry' = [retry EXCEPT ![i] = @ + 1]
    /\ cpc' = [cpc EXCEPT ![i] =
                 IF retry[i] + 1 <= MaxAttempts THEN "backoff" ELSE "dlq"]

(* Mutant: a duplicate-key error counts as success (an upsert).            *)
CreateFromRecordUpsert(i) ==
    /\ cpc[i] = "create"
    /\ \E err \in BOOLEAN :
          /\ CreateMessage(Cur(i), err)
          /\ IF err /\ ~Stored(Cur(i)) THEN AttemptFailed(i)
             ELSE cpc' = [cpc EXCEPT ![i] = "push"] /\ UNCHANGED retry
    /\ consumed' = IF rows' # rows THEN consumed \cup {Cur(i)} ELSE consumed
    /\ UNCHANGED <<brokerVars, dropped, pushed, procVars, pos, mark, sendVars, disruptions>>

(* HandleMessage's insert.                                                 *)
CreateFromRecord(i) ==
    /\ cpc[i] = "create"
    /\ \E err \in BOOLEAN :
          /\ CreateMessage(Cur(i), err)
          /\ IF err THEN AttemptFailed(i)
                    ELSE cpc' = [cpc EXCEPT ![i] = "push"] /\ UNCHANGED retry
    /\ consumed' = IF rows' # rows THEN consumed \cup {Cur(i)} ELSE consumed
    /\ UNCHANGED <<brokerVars, dropped, pushed, procVars, pos, mark, sendVars, disruptions>>

(* HandleMessage's delivery through the hub of this instance: to the       *)
(* recipient, or to the members of a group if they can be read; it counts  *)
(* as handled either way.  deliverMessage always reports "not delivered",  *)
(* so no status is written.                                                *)
Deliver(i) ==
    /\ cpc[i] = "push"
    /\ \/ pushed' = Append(pushed, Cur(i))
       \/ Cur(i) \in GroupMsgs /\ UNCHANGED pushed
    /\ MarkAndAdvance(i)
    /\ UNCHANGED <<brokerVars, rows, consumed, dropped, procVars, sendVars, disruptions>>

(* The delay before the next attempt elapses.                              *)
RetryAfterDelay(i) ==
    /\ cpc[i] = "backoff"
    /\ cpc' = [cpc EXCEPT ![i] = "check"]
    /\ UNCHANGED <<brokerVars, dbVars, procVars, pos, mark, retry, sendVars, disruptions>>

(* sendToDLQ, then MarkMessage whatever came of it.                        *)
SendToDLQ(i) ==
    /\ cpc[i] = "dlq"
    /\ \/ /\ DLQEnabled
          /\ dlq' = dlq \cup {Cur(i)}
          /\ UNCHANGED dropped
       \/ /\ dropped' = dropped \cup {Cur(i)}
          /\ UNCHANGED dlq
    /\ MarkAndAdvance(i)
    /\ UNCHANGED <<log, committed, owner, rows, consumed, pushed, procVars, sendVars, disruptions>>

(* sarama commits the marked offset; the coordinator accepts it only from  *)
(* the current owner.                                                      *)
AutoCommit(i) ==
    /\ owner = i /\ InSession(i) /\ mark[i] > committed
    /\ committed' = mark[i]
    /\ UNCHANGED <<log, owner, dlq, dbVars, procVars, claimVars, sendVars, disruptions>>

(* Mutant: a record interrupted by the shutdown is marked as well.         *)
EndSessionMarking(i) ==
    /\ cpc[i] \in {"idle", "backoff"} /\ phase[i] = "stopping"
    /\ LeaveSession(i)
    /\ IF owner = i
       THEN /\ committed' = IF cpc[i] = "backoff" THEN pos[i] ELSE mark[i]
            /\ owner' = NoInstance
       ELSE UNCHANGED <<committed, owner>>
    /\ UNCHANGED <<log, dlq, dbVars, procVars, sendVars, disruptions>>

(* ConsumeClaim returns: between records when the claim is closed or the   *)
(* context is done, and in the middle of a delay only when the context is  *)
(* done - the record is then not marked.  The session flushes its marks.   *)
EndSession(i) ==
    /\ \/ cpc[i] = "idle" /\ (phase[i] = "stopping" \/ owner # i)
          /\ UNCHANGED disruptions
       \/ cpc[i] = "backoff" /\ phase[i] = "stopping" /\ UNCHANGED disruptions
       \/ /\ cpc[i] = "idle" /\ phase[i] = "running" /\ owner = i
          /\ disruptions < MaxDisruptions
          /\ disruptions' = disruptions + 1
    /\ LeaveSession(i)
    /\ IF owner = i
       THEN /\ committed' = IF mark[i] > committed THEN mark[i] ELSE committed
            /\ owner' = NoInstance
       ELSE UNCHANGED <<committed, owner>>
    /\ UNCHANGED <<log, dlq, dbVars, procVars, sendVars>>

-----------------------------------------------------------------------------
(* The server process of instance i.                                       *)

(* main: a producer that cannot be made leaves Kafka off altogether; a     *)
(* consumer that cannot be made leaves a producer without consumer.        *)
Start(i) ==
    /\ phase[i] = "down"
    /\ phase' = [phase EXCEPT ![i] = "running"]
    /\ \E prod \in {"nil", "open"}, cons \in BOOLEAN :
          /\ cons => prod = "open"
          /\ ~InitMayFail => cons
          /\ producer' = [producer EXCEPT ![i] = prod]
          /\ consumer' = [consumer EXCEPT ![i] = cons]
    /\ UNCHANGED <<brokerVars, dbVars, claimVars, sendVars, disruptions>>

(* What a process takes with it: its claim and its goroutines.             *)
ProcessEnds(i) ==
    /\ phase' = [phase EXCEPT ![i] = "down"]
    /\ producer' = [producer EXCEPT ![i] = "nil"]
    /\ consumer' = [consumer EXCEPT ![i] = FALSE]
    /\ LeaveSession(i)
    /\ spc' = [m \in Msgs |-> IF at[m] = i /\ spc[m] \in InFlight
                              THEN "dead" ELSE spc[m]]
    /\ bcast' = [m \in Msgs |-> IF at[m] = i /\ bcast[m] = "pending"
                                THEN "failed" ELSE bcast[m]]
    /\ UNCHANGED <<brokerVars, dbVars, at, requests>>

Crash(i) ==
    /\ phase[i] # "down" /\ disruptions < MaxDisruptions
    /\ disruptions' = disruptions + 1
    /\ ProcessEnds(i)

(* A signal: srv.Close stops new requests without waiting for the running  *)
(* ones, and Consumer.Stop cancels the context.                            *)
Shutdown(i) ==
    /\ phase[i] = "running" /\ disruptions < MaxDisruptions
    /\ disruptions' = disruptions + 1
    /\ phase' = [phase EXCEPT ![i] = "stopping"]
    /\ UNCHANGED <<brokerVars, dbVars, producer, consumer, claimVars, sendVars>>

(* Producer.Close, after Consumer.Stop has waited for the claim.           *)
CloseProducer(i) ==
    /\ phase[i] = "stopping" /\ ~InSession(i) /\ producer[i] = "open"
    /\ producer' = [producer EXCEPT ![i] = "closed"]
    /\ UNCHANGED <<brokerVars, dbVars, phase, consumer, claimVars, sendVars, disruptions>>

(* Producer.Close returns when sarama is done with the records it has, and *)
(* main returns while handler goroutines may still be running.             *)
Exit(i) ==
    /\ phase[i] = "stopping" /\ ~InSession(i) /\ producer[i] # "open"
    /\ \A m \in Msgs : at[m] = i /\ spc[m] = "produce" => requests[m] = 0
    /\ ProcessEnds(i)
    /\ UNCHANGED disruptions

-----------------------------------------------------------------------------
Send(m) == \/ CheckProducer(m) \/ Produce(m) \/ ProduceReturns(m)
           \/ CreateDirect(m) \/ Respond(m) \/ BroadcastGroupMessage(m)

HandleRecord(i) == \/ Fetch(i) \/ CheckExisting(i) \/ CreateFromRecord(i)
                   \/ Deliver(i) \/ RetryAfterDelay(i) \/ SendToDLQ(i)

Process(i) == Start(i) \/ Crash(i) \/ Shutdown(i) \/ CloseProducer(i) \/ Exit(i)

Next ==
    \/ \E m \in Msgs : \/ Send(m) \/ AppendRecord(m)
                       \/ \E i \in Instances : Request(m, i)
    \/ \E i \in Instances : \/ HandleRecord(i) \/ Process(i)
                            \/ Assign(i) \/ AutoCommit(i) \/ EndSession(i)

Spec == Init /\ [][Next]_vars

(* Goroutines are scheduled, the coordinator assigns an orphaned           *)
(* partition, sarama's commit timer fires and a stopped server is started  *)
(* again.  Requests, crashes and shutdowns are never forced; a rebalance   *)
(* takes a budget, so forcing one is harmless.                             *)
Fairness ==
    /\ \A m \in Msgs : WF_vars(Send(m))
    /\ \A i \in Instances :
          /\ WF_vars(HandleRecord(i)) /\ WF_vars(Assign(i))
          /\ WF_vars(AutoCommit(i)) /\ WF_vars(EndSession(i))
          /\ WF_vars(Start(i) \/ CloseProducer(i) \/ Exit(i))

FairSpec == Spec /\ Fairness

-----------------------------------------------------------------------------
BrokerType ==
    /\ log \in Seq(Msgs) /\ committed \in 0..Len(log)
    /\ owner \in Instances \cup {NoInstance} /\ dlq \subseteq Msgs

DbType ==
    /\ rows \in [Msgs -> Nat] /\ pushed \in Seq(Msgs)
    /\ consumed \subseteq Msgs /\ dropped \subseteq Msgs

ProcType ==
    /\ phase \in [Instances -> Phases]
    /\ producer \in [Instances -> {"nil", "open", "closed"}]
    /\ consumer \in [Instances -> BOOLEAN]
    /\ disruptions \in 0..MaxDisruptions

ClaimType ==
    /\ cpc \in [Instances -> ClaimStates]
    /\ pos \in [Instances -> Nat] /\ mark \in [Instances -> Nat]
    /\ retry \in [Instances -> 0..MaxAttempts + 1]
    /\ \A i \in Instances : /\ mark[i] < pos[i] /\ pos[i] <= Len(log) + 1
                            /\ cpc[i] \notin {"none", "idle"} => pos[i] <= Len(log)
                            /\ cpc[i] # "dlq" => retry[i] <= MaxAttempts

SendType ==
    /\ spc \in [Msgs -> SendStates]
    /\ at \in [Msgs -> Instances \cup {NoInstance}]
    /\ \A m \in Msgs : spc[m] \in InFlight => at[m] \in Instances
    /\ requests \in [Msgs -> 0..MaxResends + 1]
    /\ bcast \in [Msgs -> {"none", "pending", "sent", "failed"}]

(* Every variable stays in its type; the indices of a live claim stay      *)
(* within the log, and a session never marks beyond what it handled.       *)
TypeOK == BrokerType /\ DbType /\ ProcType /\ ClaimType /\ SendType

(* README "At-Least-Once Delivery", as far as the code carries it: the     *)
(* group never commits past a record that has neither a row nor a trace of *)
(* exhausted retries - over crashes, shutdowns in the middle of a retry    *)
(* and rebalances to a second consumer.                                    *)
CommittedIsSettled == \A k \in 1..committed : Settled(log[k])

(* The first record of its message.                                        *)
FirstRecord(k) == \A j \in 1..(k - 1) : log[j] # log[k]

(* One conversation is processed in order: when a consumer wrote or gave   *)
(* up a message, every record before the first of that message has its row *)
(* or was given up - although the producer may repeat records behind later *)
(* ones, and two members may work on the partition at the same time.       *)
SettledInOrder ==
    \A j, k \in DOMAIN log :
        j < k /\ FirstRecord(k) /\ (log[k] \in consumed \/ Buried(log[k]))
            => Settled(log[j])

(* README "Idempotency": HandleMessage pushes only a message whose row a   *)
(* consumer wrote, and pushes it once, whatever is repeated by the         *)
(* producer, redelivered, or handled by two members at once.               *)
PushedOnceAfterStored ==
    /\ \A k \in DOMAIN pushed : pushed[k] \in consumed
    /\ \A j, k \in DOMAIN pushed : pushed[j] = pushed[k] => j = k

(* A sender is told "success", and group members are shown the message,    *)
(* only when the message cannot vanish: it is in Kafka or has its row.     *)
AcceptedIsDurable ==
    \A m \in Msgs : spc[m] = "ok" \/ bcast[m] = "sent" => Logged(m) \/ Stored(m)

(* README "no message loss" and "After all retries exhausted, message is   *)
(* sent to Dead Letter Queue": a message whose sender was told success and *)
(* whose record the group has committed past has its row or is in the DLQ. *)
(* The code does not keep this.                                            *)
NoMessageLoss ==
    \A k \in 1..committed : spc[log[k]] = "ok" => Stored(log[k]) \/ log[k] \in dlq

(* A record cannot block its partition: retries are bounded, an orphaned   *)
(* partition finds a new consumer, so the group comes to commit past every *)
(* record there is, the repeated ones too - unless from some time on no    *)
(* process has a consumer, because each failed to make one when it started.*)
(* (The log is finite, so this is the same as asking it of each record.)   *)
RecordsGetCommitted ==
    []<>(\E i \in Instances : consumer[i]) => []<>(committed = Len(log))

(* How far a consumer is from being done with its record: the attempts it  *)
(* has left, of at most four steps each.                                   *)
StepsLeft ==
    [idle |-> 3, backoff |-> 3, check |-> 2, create |-> 1, push |-> 0, dlq |-> 0]
Left(i) == 4 * (MaxAttempts + 1 - retry[i]) + StepsLeft[cpc[i]]

(* README "Retry" and "After all retries exhausted": while it stays with a *)
(* record a consumer only comes nearer to being done with it, and it moves *)
(* on only past a record that has its row, or after MaxAttempts + 1        *)
(* attempts - whatever fails, or is done to the record elsewhere meanwhile.*)
AttemptsAreBounded ==
    [][\A i \in Instances :
          InSession(i) /\ InSession(i)' =>
             IF pos'[i] = pos[i]
             THEN (cpc'[i] = cpc[i] /\ retry'[i] = retry[i]) \/ Left(i)' < Left(i)
             ELSE Stored(Cur(i)) \/ retry[i] = MaxAttempts + 1]_vars

(* The pipeline seen through its contract.                                 *)
StoreView ==
    [m \in Msgs |-> IF rows[m] = 0 THEN "none"
                    ELSE IF m \in consumed THEN "queue" ELSE "handler"]

Contract == INSTANCE DeliveryContract WITH
    queue <- log, store <- StoreView, buried <- dlq \cup dropped,
    acked <- committed, answered <- {m \in Msgs : spc[m] = "ok"},
    delivered <- pushed

(* Every step of the pipeline is a step the contract allows, or none.      *)
ImplementsContract == Contract!Spec

=============================================================================
