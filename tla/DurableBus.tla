------------------------------ MODULE DurableBus ------------------------------
(***************************************************************************)
(* One durable channel of RedisMessageBus with its consumer group: the     *)
(* publication behind an idempotency key, the consumer loop with its       *)
(* pending list, the table processed_agent_messages, retry copies and the  *)
(* dead-letter stream.                                                     *)
(*                                                                         *)
(* Every await is a step.  A producer is whoever calls publish for one     *)
(* envelope and calls it again when it threw (the outbox dispatcher does). *)
(* A consumer is the loop of consumeDurable in one process.                *)
(***************************************************************************)
EXTENDS Integers, Sequences, FiniteSets

CONSTANTS
    Messages,      \* idempotency keys of the envelopes
    Poison,        \* messages whose handler throws whenever it runs
    Consumers,     \* processes that consume the channel in its one group
    BatchSize,     \* COUNT of XREADGROUP and XAUTOCLAIM (10 in the code)
    MaxAttempts,   \* maxDeliveryAttempts (3)
    MaxEntries,    \* bound: entries the stream may come to hold
    MaxStarts,     \* bound: starts of a handler that are counted
    Faults,        \* kinds of fault that may happen
    MaxFaults      \* bound: faults in a behaviour

\* redis: a Redis command throws, before or after its effect; query: the same for
\* a query; handler: a handler throws; crash: a process dies and starts again.
FaultKinds == {"redis", "query", "handler", "crash"}

RowStatus  == {"none", "PROCESSING", "PROCESSED", "FAILED", "DEAD_LETTER"}
ProducerPc == {"New", "Adding", "Failed", "Published"}
ConsumerPc == {"Reclaim", "Read", "Next", "Handle", "MarkProcessed", "Ack", "MarkFailed",
               "Requeue", "Bury", "AckFailed", "AckSkipped"}

ASSUME PoisonAssumption == Poison \subseteq Messages
ASSUME BusBoundsAssumption ==
    BatchSize \in Nat \ {0} /\ MaxAttempts \in Nat \ {0} /\ MaxEntries \in Nat /\ MaxFaults \in Nat
ASSUME StartsAssumption == MaxStarts \in Nat /\ MaxStarts >= MaxAttempts

VARIABLES
    reserved,   \* ma-core:idempotency keys that are set
    producer,   \* where the publication of each message stands
    stream,     \* the entries of the stream, oldest first, acknowledged ones included
    read,       \* how many of them the group has read
    pending,    \* entries the group has read and not acknowledged
    row,        \* processed_agent_messages.status of each message
    dead,       \* messages in the dead-letter stream
    completed,  \* history: messages whose handler has returned
    started,    \* history: how often the handler of each message was started
    consumer,   \* the loop of each consumer
    budget      \* faults still allowed

vars == <<reserved, producer, stream, read, pending, row, dead, completed, started, consumer, budget>>
published == <<reserved, producer>>
handled   == <<completed, started>>

Entries  == 1..MaxEntries
Entry    == [msg : Messages, attempt : 0..(MaxAttempts - 1)]
\* entry: the one at hand; batch: those of the batch that follow; from: the call
\* that returned the batch.
Consumer == [pc : ConsumerPc, entry : Entries \union {0}, batch : SUBSET Entries,
             from : {"Reclaim", "Read"}]
IdleConsumer == [pc |-> "Reclaim", entry |-> 0, batch |-> {}, from |-> "Reclaim"]

TypeOK ==
    /\ reserved \in SUBSET Messages
    /\ producer \in [Messages -> ProducerPc]
    /\ stream \in Seq(Entry) /\ Len(stream) <= MaxEntries
    /\ read \in 0..Len(stream)
    /\ pending \in SUBSET (1..read)
    /\ row \in [Messages -> RowStatus]
    /\ dead \in SUBSET Messages
    /\ completed \in SUBSET Messages
    /\ started \in [Messages -> 0..MaxStarts]
    /\ consumer \in [Consumers -> Consumer]
    /\ \A c \in Consumers : consumer[c].batch \union ({consumer[c].entry} \ {0}) \subseteq 1..read
    /\ budget \in 0..MaxFaults

Init ==
    /\ reserved = {}
    /\ producer = [m \in Messages |-> "New"]
    /\ stream = <<>>
    /\ read = 0
    /\ pending = {}
    /\ row = [m \in Messages |-> "none"]
    /\ dead = {}
    /\ completed = {}
    /\ started = [m \in Messages |-> 0]
    /\ consumer = [c \in Consumers |-> IdleConsumer]
    /\ budget = MaxFaults

Spend(kind) ==
    /\ kind \in Faults
    /\ budget > 0
    /\ budget' = budget - 1

XAdd(m, attempt) ==
    /\ Len(stream) < MaxEntries
    /\ stream' = Append(stream, [msg |-> m, attempt |-> attempt])

(***************************************************************************)
(* publishDurable with attemptCount 0.  A caller whose publish threw calls *)
(* it again with the same envelope.                                        *)
(***************************************************************************)
ProducerGoes(m, pc) == producer' = [producer EXCEPT ![m] = pc]

Reserve(m) ==
    /\ producer[m] \in {"New", "Failed"}
    /\ reserved' = reserved \union {m}
    /\ ProducerGoes(m, IF m \in reserved THEN "Published" ELSE "Adding")
    /\ UNCHANGED <<stream, read, pending, row, dead, handled, consumer, budget>>

AddEntry(m) ==
    /\ producer[m] = "Adding"
    /\ XAdd(m, 0)
    /\ ProducerGoes(m, "Published")
    /\ UNCHANGED <<reserved, read, pending, row, dead, handled, consumer, budget>>

PublishFails(m) ==
    /\ Spend("redis")
    /\ \/ producer[m] \in {"New", "Failed"} /\ reserved' \in {reserved, reserved \union {m}} /\ UNCHANGED stream
       \/ producer[m] = "Adding" /\ (XAdd(m, 0) \/ UNCHANGED stream) /\ UNCHANGED reserved
    /\ ProducerGoes(m, "Failed")
    /\ UNCHANGED <<read, pending, row, dead, handled, consumer>>

(***************************************************************************)
(* The consumer loop: entries left pending are claimed, then new ones are  *)
(* read, and each batch is worked through in order.                        *)
(***************************************************************************)
Goto(c, pc) == consumer' = [consumer EXCEPT ![c].pc = pc]
Message(c)  == stream[consumer[c].entry].msg
Attempt(c)  == stream[consumer[c].entry].attempt
SetRow(c, status) == row' = [row EXCEPT ![Message(c)] = status]

\* An error outside the try block ends the loop's turn: the entry at hand and the
\* rest of the batch stay pending.
LoopFails(c) == consumer' = [consumer EXCEPT ![c] = IdleConsumer]

TakeBatch(c, S) ==
    consumer' = [consumer EXCEPT ![c].pc = "Next", ![c].batch = S, ![c].from = consumer[c].pc]

\* Any pending entry may have been idle for 30 s, also one another consumer is
\* still working at; the age of the entries is not modelled.
Reclaim(c) ==
    /\ consumer[c].pc = "Reclaim"
    /\ \E S \in SUBSET pending : Cardinality(S) <= BatchSize /\ TakeBatch(c, S)
    /\ UNCHANGED <<published, stream, read, pending, row, dead, handled, budget>>

\* What the loop must come to do when entries only grow older.
ReclaimSome(c) == Reclaim(c) /\ consumer'[c].batch # {}

\* Mutant: the group reads with NOACK, so that nothing is pending.
ReadFreshNoAck(c) ==
    /\ consumer[c].pc = "Read"
    /\ \E n \in read..Len(stream) :
         /\ n - read <= BatchSize
         /\ read' = n
         /\ TakeBatch(c, (read + 1)..n)
    /\ UNCHANGED <<published, stream, pending, row, dead, handled, budget>>

ReadFresh(c) ==
    /\ consumer[c].pc = "Read"
    /\ \E n \in read..Len(stream) :
         /\ n - read <= BatchSize
         /\ n = Len(stream) \/ n - read = BatchSize
         /\ read' = n
         /\ pending' = pending \union (read + 1)..n
         /\ TakeBatch(c, (read + 1)..n)
    /\ UNCHANGED <<published, stream, row, dead, handled, budget>>

\* Mutant: entries are claimed only when a consumer starts.
FinishBatchAndRead(c) ==
    /\ consumer[c].pc = "Next" /\ consumer[c].batch = {}
    /\ consumer' = [consumer EXCEPT ![c].entry = 0, ![c].pc = "Read"]
    /\ UNCHANGED <<published, stream, read, pending, row, dead, handled, budget>>

FinishBatch(c) ==
    /\ consumer[c].pc = "Next" /\ consumer[c].batch = {}
    /\ consumer' = [consumer EXCEPT ![c].entry = 0,
           ![c].pc = IF consumer[c].from = "Reclaim" THEN "Read" ELSE "Reclaim"]
    /\ UNCHANGED <<published, stream, read, pending, row, dead, handled, budget>>

(***************************************************************************)
(* MessageProcessingRepository.begin admits every message that is not      *)
(* PROCESSED; a dead-lettered one keeps its status and is admitted too.    *)
(***************************************************************************)
\* Mutant: a message that somebody has begun is skipped.
AdmitsUnbegun(m) == row[m] \notin {"PROCESSED", "PROCESSING"}
Admits(m)     == row[m] # "PROCESSED"
Began(status) == IF status \in {"none", "FAILED"} THEN "PROCESSING" ELSE status
CountStart(m) == started' = [started EXCEPT ![m] = IF @ < MaxStarts THEN @ + 1 ELSE @]

Begin(c) ==
    /\ consumer[c].pc = "Next"
    /\ \E e \in consumer[c].batch :
         LET m == stream[e].msg IN
         /\ \A f \in consumer[c].batch : e <= f
         /\ row' = [row EXCEPT ![m] = Began(@)]
         /\ consumer' = [consumer EXCEPT ![c].entry = e, ![c].batch = @ \ {e},
                             ![c].pc = IF Admits(m) THEN "Handle" ELSE "AckSkipped"]
         /\ IF Admits(m) THEN CountStart(m) ELSE UNCHANGED started
    /\ UNCHANGED <<published, stream, read, pending, dead, completed, budget>>

BeginFails(c) ==
    /\ consumer[c].pc = "Next"
    /\ Spend("query")
    /\ \E e \in consumer[c].batch :
         /\ \A f \in consumer[c].batch : e <= f
         /\ row' \in {row, [row EXCEPT ![stream[e].msg] = Began(@)]}
    /\ LoopFails(c)
    /\ UNCHANGED <<published, stream, read, pending, dead, handled>>

HandlerReturns(c) ==
    /\ consumer[c].pc = "Handle" /\ Message(c) \notin Poison
    /\ completed' = completed \union {Message(c)}
    /\ Goto(c, "MarkProcessed")
    /\ UNCHANGED <<published, stream, read, pending, row, dead, started, budget>>

HandlerThrows(c) ==
    /\ consumer[c].pc = "Handle"
    /\ \/ Message(c) \in Poison /\ UNCHANGED budget
       \/ Spend("handler")
    /\ Goto(c, "MarkFailed")
    /\ UNCHANGED <<published, stream, read, pending, row, dead, handled>>

MarkProcessed(c) ==
    /\ consumer[c].pc = "MarkProcessed"
    /\ \/ SetRow(c, "PROCESSED") /\ Goto(c, "Ack") /\ UNCHANGED budget
       \/ /\ Spend("query") /\ Goto(c, "MarkFailed")
          /\ SetRow(c, "PROCESSED") \/ UNCHANGED row
    /\ UNCHANGED <<published, stream, read, pending, dead, handled>>

XAck(c) == pending' = pending \ {consumer[c].entry}

\* The acknowledgement is inside the try block: when it throws, the message that
\* was handled and marked is treated as failed.
Acknowledge(c) ==
    /\ consumer[c].pc = "Ack"
    /\ \/ XAck(c) /\ Goto(c, "Next") /\ UNCHANGED budget
       \/ Spend("redis") /\ Goto(c, "MarkFailed") /\ (XAck(c) \/ UNCHANGED pending)
    /\ UNCHANGED <<published, stream, read, row, dead, handled>>

(***************************************************************************)
(* The catch block: the failure is recorded, the envelope is added again   *)
(* with a higher attempt or moved to the dead letters, and the entry is    *)
(* acknowledged.                                                           *)
(***************************************************************************)
\* Mutant: off by one, an attempt too few.
ExhaustedEarly(c) == Attempt(c) + 2 >= MaxAttempts
Exhausted(c) == Attempt(c) + 1 >= MaxAttempts

MarkFailed(c) ==
    /\ consumer[c].pc = "MarkFailed"
    /\ \/ /\ UNCHANGED budget
          /\ IF Exhausted(c) THEN SetRow(c, "DEAD_LETTER") /\ Goto(c, "Bury")
                             ELSE SetRow(c, "FAILED") /\ Goto(c, "Requeue")
       \/ /\ Spend("query") /\ LoopFails(c)
          /\ UNCHANGED row \/ SetRow(c, IF Exhausted(c) THEN "DEAD_LETTER" ELSE "FAILED")
    /\ UNCHANGED <<published, stream, read, pending, dead, handled>>

\* Mutant: an error of the copy is swallowed.
RequeueOrIgnore(c) ==
    /\ consumer[c].pc = "Requeue"
    /\ \/ XAdd(Message(c), Attempt(c) + 1) /\ UNCHANGED budget
       \/ Spend("redis") /\ UNCHANGED stream
    /\ Goto(c, "AckFailed")
    /\ UNCHANGED <<published, read, pending, row, dead, handled>>

Requeue(c) ==
    /\ consumer[c].pc = "Requeue"
    /\ \/ XAdd(Message(c), Attempt(c) + 1) /\ Goto(c, "AckFailed") /\ UNCHANGED budget
       \/ /\ Spend("redis") /\ LoopFails(c)
          /\ XAdd(Message(c), Attempt(c) + 1) \/ UNCHANGED stream
    /\ UNCHANGED <<published, read, pending, row, dead, handled>>

MoveToDeadLetter(c) ==
    /\ consumer[c].pc = "Bury"
    /\ \/ dead' = dead \union {Message(c)} /\ Goto(c, "AckFailed") /\ UNCHANGED budget
       \/ /\ Spend("redis") /\ LoopFails(c)
          /\ dead' \in {dead, dead \union {Message(c)}}
    /\ UNCHANGED <<published, stream, read, pending, row, handled>>

AcknowledgeOutside(c) ==
    /\ consumer[c].pc \in {"AckFailed", "AckSkipped"}
    /\ \/ XAck(c) /\ Goto(c, "Next") /\ UNCHANGED budget
       \/ Spend("redis") /\ LoopFails(c) /\ (XAck(c) \/ UNCHANGED pending)
    /\ UNCHANGED <<published, stream, read, row, dead, handled>>

\* The process dies, or the answer that carried a batch is lost.
Crash(c) ==
    /\ consumer[c].pc \notin {"Reclaim", "Read"}
    /\ Spend("crash") \/ (consumer[c].pc = "Next" /\ Spend("redis"))
    /\ LoopFails(c)
    /\ UNCHANGED <<published, stream, read, pending, row, dead, handled>>

-----------------------------------------------------------------------------
ConsumerStep(c) ==
    \/ Reclaim(c) \/ ReadFresh(c) \/ FinishBatch(c) \/ Begin(c)
    \/ HandlerReturns(c) \/ HandlerThrows(c) \/ MarkProcessed(c) \/ Acknowledge(c)
    \/ MarkFailed(c) \/ Requeue(c) \/ MoveToDeadLetter(c) \/ AcknowledgeOutside(c)

Next ==
    \/ \E m \in Messages : Reserve(m) \/ AddEntry(m) \/ PublishFails(m)
    \/ \E c \in Consumers : ConsumerStep(c) \/ BeginFails(c) \/ Crash(c)

Spec == Init /\ [][Next]_vars

\* The loops run on, and an entry that stays pending is claimed in the end.
Fairness == \A c \in Consumers : WF_vars(ConsumerStep(c)) /\ SF_vars(ReclaimSome(c))

FairSpec == Spec /\ Fairness

(***************************************************************************)
(* Properties                                                              *)
(***************************************************************************)
Live(i)     == i \in 1..Len(stream) /\ (i > read \/ i \in pending)
InStream(m) == \E i \in 1..Len(stream) : stream[i].msg = m
Settled(m)  == m \in completed \/ m \in dead

\* An acknowledgement never loses a message: every message of the stream has been
\* handled to the end, or is in the dead letters, or has an entry the group has
\* not acknowledged.  It is the order of copy and acknowledgement that gives it.
NothingLost == \A m \in Messages :
    InStream(m) => Settled(m) \/ \E i \in 1..Len(stream) : stream[i].msg = m /\ Live(i)

\* Nobody reads the dead letters, so a message goes there only after its handler
\* has been started MaxAttempts times, whatever was reclaimed or copied twice.
DeadLetterIsExhausted == \A m \in dead : started[m] >= MaxAttempts

\* The same facts as an abstract delivery service: a message is new, owed or settled.
StandingOf(m) == IF Settled(m) THEN "settled" ELSE IF InStream(m) /\ \E i \in 1..Len(stream) :
                     stream[i].msg = m /\ Live(i) THEN "owed" ELSE "new"
Delivery == INSTANCE DeliveryContract WITH standing <- [m \in Messages |-> StandingOf(m)]
KeepsDeliveryContract == Delivery!Spec

\* Every message of the stream is handled to the end or dead-lettered, also behind
\* messages that can never be handled and whatever fails on the way.
Delivered == \A m \in Messages : InStream(m) ~> Settled(m)
=============================================================================
