-------------------------- MODULE DurableBus_proofs --------------------------
(***************************************************************************)
(* Theorems about DurableBus, for every value of its constants: the type   *)
(* invariant, no message is lost, no message is buried early, and the      *)
(* channel implements DeliveryContract.                                    *)
(***************************************************************************)
EXTENDS DurableBus, TLAPS

(***************************************************************************)
(* Part 1.  The inductive invariant.                                       *)
(***************************************************************************)
ChannelType ==
    /\ reserved \in SUBSET Messages
    /\ producer \in [Messages -> ProducerPc]
    /\ stream \in Seq(Entry) /\ Len(stream) <= MaxEntries
    /\ read \in 0..Len(stream)
    /\ pending \in SUBSET (1..read)
    /\ row \in [Messages -> RowStatus]
    /\ dead \in SUBSET Messages
    /\ completed \in SUBSET Messages
    /\ started \in [Messages -> 0..MaxStarts]
    /\ budget \in 0..MaxFaults
ConsumerType ==
    /\ consumer \in [Consumers -> Consumer]
    /\ \A c \in Consumers : consumer[c].batch \union ({consumer[c].entry} \ {0}) \subseteq 1..read

\* The message of entry i is settled, or a later entry of it is still live.
Accounted(i) ==
    \/ Settled(stream[i].msg)
    \/ \E k \in 1..Len(stream) : k > i /\ stream[k].msg = stream[i].msg /\ Live(k)

Covered        == \A i \in 1..Len(stream) : Live(i) \/ Accounted(i)
RowsDone       == \A m \in Messages : row[m] = "PROCESSED" => m \in completed
EntriesStarted == \A i \in 1..Len(stream) : started[stream[i].msg] >= stream[i].attempt

\* What holds of the entry consumer c has in hand.
AtWork  == {"Handle", "MarkProcessed", "Ack", "MarkFailed", "Requeue", "Bury"}
Working == AtWork \union {"AckFailed", "AckSkipped"}
InHand(c) ==
    /\ consumer[c].pc \in Working => consumer[c].entry \in 1..read
    /\ consumer[c].pc \in {"MarkProcessed", "Ack", "AckSkipped"} => Message(c) \in completed
    /\ consumer[c].pc = "AckFailed" => Accounted(consumer[c].entry)
    /\ consumer[c].pc \in AtWork => started[Message(c)] > Attempt(c)
    /\ consumer[c].pc = "Requeue" => Attempt(c) + 1 < MaxAttempts
    /\ consumer[c].pc = "Bury" => Attempt(c) + 1 >= MaxAttempts

IInv ==
    /\ ChannelType /\ ConsumerType
    /\ Covered /\ RowsDone /\ EntriesStarted /\ DeadLetterIsExhausted
    /\ \A c \in Consumers : InHand(c)

LEMMA IInvImplies == IInv => TypeOK /\ NothingLost /\ DeadLetterIsExhausted
<1>1. IInv => TypeOK
  BY DEF IInv, ChannelType, ConsumerType, TypeOK
<1>2. IInv => NothingLost
  <2> SUFFICES ASSUME IInv, NEW m \in Messages, InStream(m), ~Settled(m)
               PROVE  \E i \in 1..Len(stream) : stream[i].msg = m /\ Live(i)
    BY DEF NothingLost
  <2>1. PICK i \in 1..Len(stream) : stream[i].msg = m
    BY DEF InStream
  <2>2. Live(i) \/ Accounted(i)
    BY DEF IInv, Covered
  <2> QED
    BY <2>1, <2>2 DEF Accounted
<1> QED
  BY <1>1, <1>2 DEF IInv

LEMMA InitIInv == Init => IInv
<1> SUFFICES ASSUME Init PROVE IInv
  OBVIOUS
<1> USE PoisonAssumption, BusBoundsAssumption, StartsAssumption DEF Init
<1>1. stream \in Seq(Entry) /\ Len(stream) = 0
  OBVIOUS
<1>2. ChannelType
  BY <1>1 DEF ChannelType, ProducerPc, RowStatus
<1>3. IdleConsumer \in Consumer /\ IdleConsumer.pc = "Reclaim"
      /\ IdleConsumer.batch = {} /\ IdleConsumer.entry = 0
  BY DEF IdleConsumer, Consumer, ConsumerPc, Entries
<1>4. ConsumerType
  BY <1>3 DEF ConsumerType
<1>5. Covered /\ RowsDone /\ EntriesStarted /\ DeadLetterIsExhausted
  BY <1>1 DEF Covered, RowsDone, EntriesStarted, DeadLetterIsExhausted
<1>6. \A c \in Consumers : InHand(c)
  BY <1>3 DEF InHand, Working, AtWork
<1> QED
  BY <1>2, <1>4, <1>5, <1>6 DEF IInv

(***************************************************************************)
(* Part 2.  What every step leaves of the channel.  A step may take the    *)
(* entry e out of the live ones when it is accounted for (0: no entry).    *)
(***************************************************************************)
Keeps(e) ==
    /\ Len(stream) <= Len(stream') /\ read <= read'
    /\ \A i \in 1..Len(stream) : stream'[i] = stream[i]
    /\ completed \subseteq completed' /\ dead \subseteq dead'
    /\ \A m \in Messages : started'[m] >= started[m]
    /\ \A i \in 1..Len(stream) : i # e /\ Live(i) => Live(i)'
    /\ e \in 1..Len(stream) => Accounted(e)
    /\ \A i \in (Len(stream) + 1)..Len(stream') :
         Live(i)' /\ started'[stream'[i].msg] >= stream'[i].attempt
    /\ \A m \in dead' \ dead : started[m] >= MaxAttempts
    /\ \A m \in Messages : row'[m] = "PROCESSED" => row[m] = "PROCESSED" \/ m \in completed

LEMMA EntryFields ==
    ASSUME ChannelType, NEW i \in 1..Len(stream)
    PROVE  stream[i] \in Entry /\ stream[i].msg \in Messages /\ stream[i].attempt \in 0..(MaxAttempts - 1)
<1>1. stream[i] \in Entry
  BY DEF ChannelType
<1> QED
  BY <1>1 DEF Entry

LEMMA AccountedStays ==
    ASSUME ChannelType, ChannelType', NEW e \in Nat, Keeps(e), NEW i \in 1..Len(stream), Accounted(i)
    PROVE  Accounted(i)'
<1>1. Len(stream) \in Nat /\ Len(stream') \in Nat /\ Len(stream) <= Len(stream')
  BY DEF ChannelType, Keeps
<1>2. i \in 1..Len(stream') /\ stream'[i] = stream[i]
  BY <1>1 DEF Keeps
<1>3. \A m : Settled(m) => Settled(m)'
  BY DEF Settled, Keeps
<1>4. CASE Settled(stream[i].msg)
  BY <1>2, <1>3, <1>4 DEF Accounted
<1>5. ASSUME NEW k \in 1..Len(stream), k > i, stream[k].msg = stream[i].msg, Live(k)
      PROVE  Accounted(i)'
  <2>1. k \in 1..Len(stream') /\ stream'[k] = stream[k]
    BY <1>1 DEF Keeps
  <2>2. CASE k # e
    <3>1. Live(k)'
      BY <1>5, <2>2 DEF Keeps
    <3> QED
      BY <1>2, <1>5, <2>1, <3>1 DEF Accounted
  <2>3. CASE k = e
    <3>1. Accounted(k)
      BY <2>3 DEF Keeps
    <3>2. CASE Settled(stream[k].msg)
      BY <1>2, <1>3, <1>5, <3>2 DEF Accounted
    <3>3. ASSUME NEW j \in 1..Len(stream), j > k, stream[j].msg = stream[k].msg, Live(j)
          PROVE  Accounted(i)'
      <4>1. j \in 1..Len(stream') /\ stream'[j] = stream[j] /\ j > i /\ j # e
        BY <1>1, <1>5, <2>3, <3>3 DEF Keeps
      <4>2. Live(j)'
        BY <3>3, <4>1 DEF Keeps
      <4>3. stream'[j].msg = stream'[i].msg
        BY <1>2, <1>5, <3>3, <4>1
      <4> QED
        BY <4>1, <4>2, <4>3 DEF Accounted
    <3> QED
      BY <3>1, <3>2, <3>3 DEF Accounted
  <2> QED
    BY <2>2, <2>3
<1> QED
  BY <1>4, <1>5 DEF Accounted

LEMMA SharedStays ==
    ASSUME IInv, ChannelType', NEW e \in Nat, Keeps(e)
    PROVE  Covered' /\ RowsDone' /\ EntriesStarted' /\ DeadLetterIsExhausted'
<1> USE DEF IInv
<1>1. Len(stream) \in Nat /\ Len(stream') \in Nat /\ Len(stream) <= Len(stream')
  BY DEF ChannelType, Keeps
<1>2. \A i \in 1..Len(stream) : i \in 1..Len(stream') /\ stream'[i] = stream[i]
  BY <1>1 DEF Keeps
<1>3. ASSUME NEW i \in 1..Len(stream')
      PROVE  (Live(i) \/ Accounted(i))' /\ started'[stream'[i].msg] >= stream'[i].attempt
  <2>1. CASE i \in 1..Len(stream)
    <3>1. Live(i) => Live(i)' \/ Accounted(i)
      BY <2>1 DEF Keeps
    <3>2. Accounted(i) => Accounted(i)'
      BY <2>1, AccountedStays
    <3>3. (Live(i) \/ Accounted(i))'
      BY <2>1, <3>1, <3>2 DEF Covered
    <3>4. started[stream[i].msg] >= stream[i].attempt /\ stream[i].msg \in Messages
          /\ stream[i].attempt \in Int
      BY <2>1, EntryFields DEF EntriesStarted
    <3>5. started'[stream[i].msg] >= started[stream[i].msg]
          /\ started'[stream[i].msg] \in Int /\ started[stream[i].msg] \in Int
      BY <3>4, StartsAssumption DEF Keeps, ChannelType
    <3> QED
      BY <1>2, <2>1, <3>3, <3>4, <3>5
  <2>2. CASE i \notin 1..Len(stream)
    BY <1>1, <2>2 DEF Keeps
  <2> QED
    BY <2>1, <2>2
<1>4. RowsDone'
  BY DEF RowsDone, Keeps
<1>5. DeadLetterIsExhausted'
  <2> SUFFICES ASSUME NEW m \in dead' PROVE started'[m] >= MaxAttempts
    BY DEF DeadLetterIsExhausted
  <2>1. m \in Messages /\ started[m] \in Int /\ started'[m] \in Int
    BY StartsAssumption DEF ChannelType
  <2>2. started[m] >= MaxAttempts
    BY DEF Keeps, DeadLetterIsExhausted
  <2> QED
    BY <2>1, <2>2, BusBoundsAssumption DEF Keeps
<1> QED
  BY <1>3, <1>4, <1>5 DEF Covered, EntriesStarted

\* A consumer that does nothing keeps what is known of its entry.
LEMMA OthersStay ==
    ASSUME IInv, ChannelType', NEW e \in Nat, Keeps(e),
           NEW d \in Consumers, consumer'[d] = consumer[d]
    PROVE  InHand(d)'
<1>1. CASE consumer[d].pc \notin Working
  BY <1>1 DEF InHand, Working, AtWork
<1>2. CASE consumer[d].pc \in Working
  <2> DEFINE i == consumer[d].entry
  <2>1. i \in 1..read /\ i \in 1..Len(stream) /\ i \in 1..read'
    BY <1>2 DEF IInv, InHand, ChannelType, Keeps
  <2>2. stream'[i] = stream[i] /\ stream[i].msg \in Messages /\ stream[i].attempt \in Int
    BY <2>1, EntryFields DEF Keeps, IInv
  <2>3. Accounted(i) => Accounted(i)'
    BY <2>1, AccountedStays DEF IInv
  <2>4. started'[stream[i].msg] >= started[stream[i].msg]
        /\ started'[stream[i].msg] \in Int /\ started[stream[i].msg] \in Int
    BY <2>2, StartsAssumption DEF Keeps, IInv, ChannelType
  <2>5. InHand(d) /\ completed \subseteq completed'
    BY DEF IInv, Keeps
  <2>6. consumer[d].pc \in AtWork => started'[stream[i].msg] > stream[i].attempt
    BY <2>2, <2>4, <2>5 DEF InHand, Message, Attempt
  <2>7. Message(d)' = Message(d) /\ Attempt(d)' = Attempt(d)
        /\ Message(d) = stream[i].msg /\ Attempt(d) = stream[i].attempt
    BY <2>2 DEF Message, Attempt
  <2> HIDE DEF i
  <2>8. consumer'[d].entry = i
    BY DEF i
  <2>9. Accounted(consumer[d].entry) => Accounted(consumer[d].entry)'
    BY <2>3 DEF i
  <2> QED
    BY <2>1, <2>5, <2>6, <2>7, <2>8, <2>9 DEF InHand, i
<1> QED
  BY <1>1, <1>2

(***************************************************************************)
(* The ways in which a step changes the channel.                           *)
(***************************************************************************)
LEMMA Quiet ==
    ASSUME ChannelType, UNCHANGED <<stream, read>>, pending \subseteq pending',
           completed \subseteq completed', dead \subseteq dead',
           \A m \in dead' \ dead : started[m] >= MaxAttempts,
           \A m \in Messages : started'[m] >= started[m],
           \A m \in Messages : row'[m] = "PROCESSED" => row[m] = "PROCESSED" \/ m \in completed
    PROVE  Keeps(0)
<1>1. Len(stream) \in Nat /\ read \in Nat
  BY DEF ChannelType
<1>2. \A i \in 1..Len(stream) : Live(i) => Live(i)'
  BY DEF Live
<1> QED
  BY <1>1, <1>2 DEF Keeps

LEMMA Acked ==
    ASSUME ChannelType, UNCHANGED <<stream, read, completed, dead, started, row>>,
           NEW e \in 1..read, pending' = pending \ {e}, Accounted(e)
    PROVE  e \in Nat /\ Keeps(e)
<1>1. Len(stream) \in Nat /\ read \in Nat /\ e \in Nat
  BY DEF ChannelType
<1>2. \A i \in 1..Len(stream) : i # e /\ Live(i) => Live(i)'
  BY DEF Live
<1>3. \A m \in Messages : started'[m] >= started[m]
  BY StartsAssumption DEF ChannelType
<1> QED
  BY <1>1, <1>2, <1>3 DEF Keeps

LEMMA Appended ==
    ASSUME ChannelType, NEW m \in Messages, NEW a \in 0..(MaxAttempts - 1), XAdd(m, a),
           UNCHANGED <<read, pending, completed, dead, started, row>>, started[m] >= a,
           NEW n \in Nat, n = Len(stream) + 1
    PROVE  /\ Keeps(0) /\ stream' \in Seq(Entry) /\ Len(stream') <= MaxEntries
           /\ read \in 0..Len(stream')
           /\ Len(stream') = n /\ stream'[n].msg = m /\ Live(n)'
<1> DEFINE x == [msg |-> m, attempt |-> a]
<1>1. x \in Entry /\ x.msg = m /\ x.attempt = a
  BY DEF Entry
<1>2. stream \in Seq(Entry) /\ Len(stream) \in Nat /\ read \in 0..Len(stream) /\ pending \in SUBSET (1..read)
  BY DEF ChannelType
<1>3. stream' = Append(stream, x) /\ Len(stream) < MaxEntries
  BY DEF XAdd
<1> HIDE DEF x
<1>4. /\ stream' \in Seq(Entry) /\ Len(stream') = Len(stream) + 1
      /\ \A i \in 1..Len(stream) : stream'[i] = stream[i]
      /\ stream'[n] = x
  BY <1>1, <1>2, <1>3
<1>5. Len(stream') <= MaxEntries /\ read \in 0..Len(stream')
  BY <1>2, <1>3, <1>4, BusBoundsAssumption
<1>6. \A i \in 1..Len(stream) : Live(i) => Live(i)'
  BY <1>2, <1>4 DEF Live
<1>7. Live(n)'
  BY <1>2, <1>4 DEF Live
<1>8. (\A k \in Messages : started'[k] >= started[k]) /\ started'[m] >= a
  BY StartsAssumption DEF ChannelType
<1>9. \A i \in (Len(stream) + 1)..Len(stream') : i = n
  BY <1>2, <1>4
<1>10. \A i \in (Len(stream) + 1)..Len(stream') :
         Live(i)' /\ started'[stream'[i].msg] >= stream'[i].attempt
  BY <1>1, <1>4, <1>7, <1>8, <1>9
<1>11. Keeps(0)
  BY <1>2, <1>4, <1>6, <1>8, <1>10 DEF Keeps
<1> QED
  BY <1>1, <1>4, <1>5, <1>7, <1>11

(***************************************************************************)
(* Part 3.  The steps of a consumer.                                       *)
(***************************************************************************)
LEMMA ConsumerMoves ==
    ASSUME ConsumerType, ChannelType, ChannelType', read <= read', NEW c \in Consumers, NEW r \in Consumer,
           r.batch \union ({r.entry} \ {0}) \subseteq 1..read', consumer' = [consumer EXCEPT ![c] = r]
    PROVE  /\ ConsumerType' /\ consumer'[c] = r
           /\ \A d \in Consumers \ {c} : consumer'[d] = consumer[d]
<1>1. consumer'[c] = r /\ \A d \in Consumers \ {c} : consumer'[d] = consumer[d]
  BY DEF ConsumerType
<1>2. consumer' \in [Consumers -> Consumer]
  BY DEF ConsumerType
<1>3. 1..read \subseteq 1..read'
  BY DEF ChannelType
<1>4. \A d \in Consumers : consumer'[d].batch \union ({consumer'[d].entry} \ {0}) \subseteq 1..read'
  BY <1>1, <1>3 DEF ConsumerType
<1> QED
  BY <1>1, <1>2, <1>4 DEF ConsumerType

LEMMA IdleConsumerType ==
    /\ IdleConsumer \in Consumer /\ IdleConsumer.pc = "Reclaim"
    /\ IdleConsumer.batch = {} /\ IdleConsumer.entry = 0
BY DEF IdleConsumer, Consumer, ConsumerPc, Entries

\* What a consumer has in hand.
LEMMA HandFacts ==
    ASSUME IInv, NEW c \in Consumers, consumer[c].pc \in Working
    PROVE  /\ consumer[c].entry \in 1..read /\ consumer[c].entry \in 1..Len(stream)
           /\ Message(c) \in Messages /\ Attempt(c) \in 0..(MaxAttempts - 1)
<1>1. consumer[c].entry \in 1..read
  BY DEF IInv, InHand
<1>2. consumer[c].entry \in 1..Len(stream)
  BY <1>1 DEF IInv, ChannelType
<1> QED
  BY <1>1, <1>2, EntryFields DEF IInv, Message, Attempt

\* A step to another pc with the same entry in hand.
LEMMA GoesOn ==
    ASSUME IInv, ChannelType', NEW c \in Consumers, NEW pc \in ConsumerPc, Goto(c, pc),
           consumer[c].pc \in Working, UNCHANGED read,
           stream'[consumer[c].entry] = stream[consumer[c].entry]
    PROVE  /\ ConsumerType' /\ consumer'[c].pc = pc
           /\ consumer'[c].entry = consumer[c].entry /\ consumer'[c].entry \in 1..read'
           /\ Message(c)' = Message(c) /\ Attempt(c)' = Attempt(c)
           /\ \A d \in Consumers \ {c} : consumer'[d] = consumer[d]
<1> DEFINE r == [consumer[c] EXCEPT !.pc = pc]
<1>1. consumer[c] \in Consumer
        /\ consumer[c].batch \union ({consumer[c].entry} \ {0}) \subseteq 1..read
  BY DEF IInv, ConsumerType
<1>2. /\ r \in Consumer /\ r.pc = pc /\ r.entry = consumer[c].entry
      /\ r.batch = consumer[c].batch
  BY <1>1 DEF Consumer
<1>3. consumer' = [consumer EXCEPT ![c] = r]
  BY DEF Goto
<1> HIDE DEF r
<1>4. read <= read'
  BY DEF IInv, ChannelType
<1>5. ConsumerType' /\ consumer'[c] = r /\ \A d \in Consumers \ {c} : consumer'[d] = consumer[d]
  BY <1>1, <1>2, <1>3, <1>4, ConsumerMoves DEF IInv
<1>6. consumer[c].entry \in 1..read
  BY HandFacts
<1>7. Message(c)' = Message(c) /\ Attempt(c)' = Attempt(c)
  BY <1>2, <1>5 DEF Message, Attempt
<1> QED
  BY <1>2, <1>5, <1>6, <1>7

\* The loop ends its turn.
LEMMA TurnEnds ==
    ASSUME IInv, ChannelType', NEW c \in Consumers, LoopFails(c), UNCHANGED read
    PROVE  /\ ConsumerType' /\ InHand(c)'
           /\ \A d \in Consumers \ {c} : consumer'[d] = consumer[d]
<1>1. read <= read'
  BY DEF IInv, ChannelType
<1>2. ConsumerType' /\ consumer'[c] = IdleConsumer /\ \A d \in Consumers \ {c} : consumer'[d] = consumer[d]
  BY <1>1, IdleConsumerType, ConsumerMoves DEF IInv, LoopFails
<1> QED
  BY <1>2, IdleConsumerType DEF InHand, Working, AtWork

LEMMA BatchTaken ==
    ASSUME IInv, ChannelType', NEW c \in Consumers, consumer[c].pc \in {"Reclaim", "Read"},
           read <= read', NEW S \in SUBSET (1..read'), TakeBatch(c, S)
    PROVE  /\ ConsumerType' /\ InHand(c)'
           /\ \A d \in Consumers \ {c} : consumer'[d] = consumer[d]
<1> DEFINE r == [consumer[c] EXCEPT !.pc = "Next", !.batch = S, !.from = consumer[c].pc]
<1>1. consumer[c] \in Consumer /\ {consumer[c].entry} \ {0} \subseteq 1..read /\ 1..read \subseteq 1..read'
  BY DEF IInv, ConsumerType, ChannelType
<1>2. S \in SUBSET Entries
  BY BusBoundsAssumption DEF IInv, ChannelType, Entries
<1>3. r \in Consumer /\ r.pc = "Next" /\ r.batch = S /\ r.entry = consumer[c].entry
  BY <1>1, <1>2 DEF Consumer, ConsumerPc
<1>4. consumer' = [consumer EXCEPT ![c] = r]
  BY DEF TakeBatch
<1> HIDE DEF r
<1>5. ConsumerType' /\ consumer'[c] = r /\ \A d \in Consumers \ {c} : consumer'[d] = consumer[d]
  BY <1>1, <1>3, <1>4, ConsumerMoves DEF IInv
<1> QED
  BY <1>3, <1>5 DEF InHand, Working, AtWork

\* What each case below shows of a step of consumer c.
Effect(c) ==
    /\ ChannelType' /\ ConsumerType' /\ InHand(c)'
    /\ \E e \in Nat : Keeps(e)
    /\ \A d \in Consumers \ {c} : consumer'[d] = consumer[d]

LEMMA EffectKeepsIInv ==
    ASSUME IInv, NEW c \in Consumers, Effect(c)
    PROVE  IInv'
<1>1. PICK e \in Nat : Keeps(e)
  BY DEF Effect
<1>2. ChannelType' /\ ConsumerType' /\ InHand(c)'
  BY DEF Effect
<1>3. \A d \in Consumers : InHand(d)'
  <2> SUFFICES ASSUME NEW d \in Consumers, d # c PROVE InHand(d)'
    BY <1>2
  <2>1. consumer'[d] = consumer[d]
    BY DEF Effect
  <2> QED
    BY <1>1, <1>2, <2>1, OthersStay
<1>4. Covered' /\ RowsDone' /\ EntriesStarted' /\ DeadLetterIsExhausted'
  BY <1>1, <1>2, SharedStays
<1> QED
  BY <1>2, <1>3, <1>4 DEF IInv

\* A step that touches neither the started counts nor the rows of the table.
LEMMA CountsStay ==
    ASSUME ChannelType, UNCHANGED started
    PROVE  \A m \in Messages : started'[m] >= started[m]
BY StartsAssumption DEF ChannelType

LEMMA ReclaimCase ==
    ASSUME IInv, NEW c \in Consumers, Reclaim(c)
    PROVE  Effect(c)
<1> USE DEF IInv
<1>1. UNCHANGED <<reserved, producer, stream, read, pending, row, dead, completed, started, budget>>
  BY DEF Reclaim, published, handled
<1>2. ChannelType'
  BY <1>1 DEF ChannelType
<1>3. PICK S \in SUBSET pending : TakeBatch(c, S)
  BY DEF Reclaim
<1>4. S \in SUBSET (1..read') /\ read <= read' /\ consumer[c].pc \in {"Reclaim", "Read"}
  BY <1>1 DEF ChannelType, Reclaim
<1>5. ConsumerType' /\ InHand(c)' /\ \A d \in Consumers \ {c} : consumer'[d] = consumer[d]
  BY <1>2, <1>3, <1>4, BatchTaken
<1>6. Keeps(0)
  BY <1>1, CountsStay, Quiet
<1> QED
  BY <1>2, <1>5, <1>6 DEF Effect

LEMMA ReadFreshCase ==
    ASSUME IInv, NEW c \in Consumers, ReadFresh(c)
    PROVE  Effect(c)
<1> USE DEF IInv
<1>1. UNCHANGED <<reserved, producer, stream, row, dead, completed, started, budget>>
  BY DEF ReadFresh, published, handled
<1>2. PICK n \in read..Len(stream) :
        read' = n /\ pending' = pending \union (read + 1)..n /\ TakeBatch(c, (read + 1)..n)
  BY DEF ReadFresh
<1>3. read \in Nat /\ Len(stream) \in Nat /\ n \in Nat /\ read <= n /\ n <= Len(stream)
      /\ pending \in SUBSET (1..read)
  BY DEF ChannelType
<1>4. pending' \in SUBSET (1..n) /\ (read + 1)..n \in SUBSET (1..n)
  BY <1>2, <1>3
<1>5. ChannelType'
  BY <1>1, <1>2, <1>3, <1>4 DEF ChannelType
<1>6. consumer[c].pc \in {"Reclaim", "Read"}
  BY DEF ReadFresh
<1>7. ConsumerType' /\ InHand(c)' /\ \A d \in Consumers \ {c} : consumer'[d] = consumer[d]
  BY <1>2, <1>3, <1>4, <1>5, <1>6, BatchTaken
<1>8. \A i \in 1..Len(stream) : Live(i) => Live(i)'
  <2> SUFFICES ASSUME NEW i \in 1..Len(stream), Live(i), ~(i > read')
               PROVE  i \in pending'
    BY <1>1 DEF Live
  <2>1. i > read => i \in (read + 1)..n
    BY <1>2, <1>3
  <2> QED
    BY <1>2, <2>1 DEF Live
<1>9. \A m \in Messages : started'[m] >= started[m]
  BY <1>1, CountsStay
<1>10. Len(stream) = Len(stream') /\ read <= read'
  BY <1>1, <1>2, <1>3
<1>11. Keeps(0)
  BY <1>1, <1>3, <1>8, <1>9, <1>10 DEF Keeps
<1> QED
  BY <1>5, <1>7, <1>11 DEF Effect

LEMMA FinishBatchCase ==
    ASSUME IInv, NEW c \in Consumers, FinishBatch(c)
    PROVE  Effect(c)
<1> USE DEF IInv
<1>1. UNCHANGED <<reserved, producer, stream, read, pending, row, dead, completed, started, budget>>
  BY DEF FinishBatch, published, handled
<1>2. ChannelType' /\ read <= read'
  BY <1>1 DEF ChannelType
<1> DEFINE pc == IF consumer[c].from = "Reclaim" THEN "Read" ELSE "Reclaim"
           r  == [consumer[c] EXCEPT !.entry = 0, !.pc = pc]
<1>3. consumer[c] \in Consumer /\ consumer[c].batch = {}
  BY DEF FinishBatch, ConsumerType
<1>4. r \in Consumer /\ r.pc \in {"Read", "Reclaim"} /\ r.entry = 0 /\ r.batch = {}
  BY <1>3 DEF Consumer, ConsumerPc
<1>5. consumer' = [consumer EXCEPT ![c] = r]
  BY DEF FinishBatch
<1> HIDE DEF r
<1>6. ConsumerType' /\ consumer'[c] = r /\ \A d \in Consumers \ {c} : consumer'[d] = consumer[d]
  BY <1>2, <1>4, <1>5, ConsumerMoves
<1>7. InHand(c)'
  BY <1>4, <1>6 DEF InHand, Working, AtWork
<1>8. Keeps(0)
  BY <1>1, CountsStay, Quiet
<1> QED
  BY <1>2, <1>6, <1>7, <1>8 DEF Effect

\* begin writes PROCESSED over no row that did not hold it.
LEMMA BeganRow ==
    ASSUME ChannelType, NEW m \in Messages, NEW status \in RowStatus
    PROVE  /\ Began(row[m]) \in RowStatus
           /\ Began(row[m]) = "PROCESSED" => row[m] = "PROCESSED"
BY DEF ChannelType, Began, RowStatus

LEMMA SetRowType ==
    ASSUME ChannelType, NEW m \in Messages, NEW status \in RowStatus,
           row' = [row EXCEPT ![m] = status]
    PROVE  /\ row' \in [Messages -> RowStatus] /\ row'[m] = status
           /\ \A k \in Messages : k # m => row'[k] = row[k]
BY DEF ChannelType

LEMMA CountStartFacts ==
    ASSUME ChannelType, EntriesStarted, NEW i \in 1..Len(stream), CountStart(stream[i].msg)
    PROVE  /\ started' \in [Messages -> 0..MaxStarts]
           /\ \A m \in Messages : started'[m] >= started[m]
           /\ started'[stream[i].msg] > stream[i].attempt
<1> DEFINE m == stream[i].msg
           x == IF started[m] < MaxStarts THEN started[m] + 1 ELSE started[m]
<1>1. m \in Messages /\ stream[i].attempt \in 0..(MaxAttempts - 1)
  BY EntryFields
<1>2. started \in [Messages -> 0..MaxStarts] /\ started' = [started EXCEPT ![m] = x]
  BY DEF ChannelType, CountStart
<1>3. started[m] >= stream[i].attempt
  BY DEF EntriesStarted
<1> HIDE DEF m
<1>4. started[m] \in 0..MaxStarts
  BY <1>1, <1>2
<1>5. x \in 0..MaxStarts /\ x >= started[m] /\ x > stream[i].attempt
  BY <1>1, <1>3, <1>4, StartsAssumption, BusBoundsAssumption
<1> HIDE DEF x
<1>6. started' \in [Messages -> 0..MaxStarts] /\ started'[m] = x
      /\ \A k \in Messages : k # m => started'[k] = started[k]
  BY <1>1, <1>2, <1>5
<1>7. \A k \in Messages : started'[k] >= started[k]
  <2> TAKE k \in Messages
  <2>1. started[k] \in 0..MaxStarts
    BY <1>2
  <2> QED
    BY <1>5, <1>6, <2>1, StartsAssumption
<1> QED
  BY <1>5, <1>6, <1>7 DEF m

LEMMA BeginCase ==
    ASSUME IInv, NEW c \in Consumers, Begin(c)
    PROVE  Effect(c)
<1> USE DEF IInv
<1>1. UNCHANGED <<reserved, producer, stream, read, pending, dead, completed, budget>>
  BY DEF Begin, published
<1>2. PICK e \in consumer[c].batch :
        /\ row' = [row EXCEPT ![stream[e].msg] = Began(@)]
        /\ consumer' = [consumer EXCEPT ![c].entry = e, ![c].batch = @ \ {e},
                             ![c].pc = IF Admits(stream[e].msg) THEN "Handle" ELSE "AckSkipped"]
        /\ IF Admits(stream[e].msg) THEN CountStart(stream[e].msg) ELSE UNCHANGED started
  BY DEF Begin
<1>3. consumer[c] \in Consumer /\ consumer[c].batch \subseteq 1..read
  BY DEF ConsumerType
<1>4. e \in 1..read /\ e \in 1..Len(stream) /\ e \in Nat \ {0}
  BY <1>3 DEF ChannelType
<1> DEFINE m == stream[e].msg
           pc == IF Admits(m) THEN "Handle" ELSE "AckSkipped"
           r  == [consumer[c] EXCEPT !.entry = e, !.batch = @ \ {e}, !.pc = pc]
<1>5. m \in Messages
  BY <1>4, EntryFields
<1>6. consumer[c].batch \in SUBSET Entries
  BY <1>3 DEF Consumer
<1>7. r \in Consumer /\ r.pc = pc /\ r.entry = e /\ r.batch = consumer[c].batch \ {e}
  BY <1>3, <1>6 DEF Consumer, ConsumerPc
<1>8. consumer' = [consumer EXCEPT ![c] = r]
  BY <1>2
<1> HIDE DEF r
<1>9. row[m] \in RowStatus /\ row' = [row EXCEPT ![m] = Began(row[m])]
  BY <1>2, <1>5 DEF ChannelType
<1>10. Began(row[m]) \in RowStatus /\ (Began(row[m]) = "PROCESSED" => row[m] = "PROCESSED")
  BY <1>5, <1>9, BeganRow
<1>11. row' \in [Messages -> RowStatus] /\ \A k \in Messages : row'[k] = "PROCESSED" => row[k] = "PROCESSED"
  BY <1>5, <1>9, <1>10, SetRowType
<1>12. /\ started' \in [Messages -> 0..MaxStarts]
       /\ \A k \in Messages : started'[k] >= started[k]
       /\ Admits(m) => started'[m] > stream[e].attempt
  <2>1. CASE Admits(m)
    BY <1>2, <1>4, <2>1, CountStartFacts
  <2>2. CASE ~Admits(m)
    <3>1. UNCHANGED started
      BY <1>2, <2>2
    <3> QED
      BY <2>2, <3>1, CountsStay DEF ChannelType
  <2> QED
    BY <2>1, <2>2
<1>13. ChannelType' /\ read <= read'
  BY <1>1, <1>11, <1>12 DEF ChannelType
<1>14. ConsumerType' /\ consumer'[c] = r /\ \A d \in Consumers \ {c} : consumer'[d] = consumer[d]
  <2>1. r.batch \union ({r.entry} \ {0}) \subseteq 1..read'
    BY <1>1, <1>3, <1>4, <1>7
  <2> QED
    BY <1>7, <1>8, <1>13, <2>1, ConsumerMoves
<1>15. Keeps(0)
  BY <1>1, <1>11, <1>12, Quiet
<1>16. Message(c)' = m /\ Attempt(c)' = stream[e].attempt
  BY <1>1, <1>7, <1>14 DEF Message, Attempt
<1>17. ~Admits(m) => m \in completed'
  BY <1>1, <1>5 DEF Admits, RowsDone
<1>18. consumer'[c].pc = pc /\ consumer'[c].entry \in 1..read'
  BY <1>1, <1>4, <1>7, <1>14
<1>19. started'[Message(c)'] = started'[m]
  BY <1>16
<1> HIDE DEF m
<1>20. InHand(c)'
  <2>1. CASE Admits(m)
    BY <1>12, <1>16, <1>18, <2>1 DEF InHand, Working, AtWork
  <2>2. CASE ~Admits(m)
    BY <1>16, <1>17, <1>18, <2>2 DEF InHand, Working, AtWork
  <2> QED
    BY <2>1, <2>2
<1> QED
  BY <1>13, <1>14, <1>15, <1>20 DEF Effect

LEMMA BeginFailsCase ==
    ASSUME IInv, NEW c \in Consumers, BeginFails(c)
    PROVE  Effect(c)
<1> USE DEF IInv
<1>1. UNCHANGED <<reserved, producer, stream, read, pending, dead, completed, started>>
  BY DEF BeginFails, published, handled
<1>2. LoopFails(c) /\ budget' \in 0..MaxFaults
  BY BusBoundsAssumption DEF BeginFails, Spend, ChannelType
<1>3. PICK e \in consumer[c].batch : row' \in {row, [row EXCEPT ![stream[e].msg] = Began(@)]}
  BY DEF BeginFails
<1>4. e \in 1..Len(stream)
  BY DEF ConsumerType, ChannelType
<1> DEFINE m == stream[e].msg
<1>5. m \in Messages
  BY <1>4, EntryFields
<1>6. row[m] \in RowStatus /\ row' \in {row, [row EXCEPT ![m] = Began(row[m])]}
  BY <1>3, <1>5 DEF ChannelType
<1>7. Began(row[m]) \in RowStatus /\ (Began(row[m]) = "PROCESSED" => row[m] = "PROCESSED")
  BY <1>5, <1>6, BeganRow
<1>8. row' \in [Messages -> RowStatus] /\ \A k \in Messages : row'[k] = "PROCESSED" => row[k] = "PROCESSED"
  <2>1. CASE row' = row
    BY <2>1 DEF ChannelType
  <2>2. CASE row' = [row EXCEPT ![m] = Began(row[m])]
    BY <1>5, <1>7, <2>2, SetRowType
  <2> QED
    BY <1>6, <2>1, <2>2
<1>9. ChannelType'
  BY <1>1, <1>2, <1>8 DEF ChannelType
<1>10. Keeps(0)
  BY <1>1, <1>8, CountsStay, Quiet
<1>11. ConsumerType' /\ InHand(c)' /\ \A d \in Consumers \ {c} : consumer'[d] = consumer[d]
  BY <1>1, <1>2, <1>9, TurnEnds
<1> QED
  BY <1>9, <1>10, <1>11 DEF Effect

LEMMA BudgetType ==
    ASSUME ChannelType, NEW kind, UNCHANGED budget \/ Spend(kind)
    PROVE  budget' \in 0..MaxFaults
BY BusBoundsAssumption DEF ChannelType, Spend

LEMMA HandlerReturnsCase ==
    ASSUME IInv, NEW c \in Consumers, HandlerReturns(c)
    PROVE  Effect(c)
<1> USE DEF IInv
<1>1. UNCHANGED <<reserved, producer, stream, read, pending, row, dead, started, budget>>
  BY DEF HandlerReturns, published
<1>2. /\ consumer[c].pc = "Handle" /\ Goto(c, "MarkProcessed")
      /\ completed' = completed \union {Message(c)}
  BY DEF HandlerReturns
<1>3. consumer[c].pc \in Working /\ consumer[c].pc \in AtWork /\ "MarkProcessed" \in ConsumerPc
  BY <1>2 DEF Working, AtWork, ConsumerPc
<1>4. Message(c) \in Messages
  BY <1>3, HandFacts
<1>5. ChannelType'
  BY <1>1, <1>2, <1>4 DEF ChannelType
<1>6. /\ ConsumerType' /\ consumer'[c].pc = "MarkProcessed" /\ consumer'[c].entry \in 1..read'
      /\ Message(c)' = Message(c) /\ Attempt(c)' = Attempt(c)
      /\ \A d \in Consumers \ {c} : consumer'[d] = consumer[d]
  BY <1>1, <1>2, <1>3, <1>5, GoesOn
<1>7. started[Message(c)] > Attempt(c)
  BY <1>3 DEF InHand
<1>8. started'[Message(c)'] > Attempt(c)' /\ Message(c)' \in completed'
  BY <1>1, <1>2, <1>6, <1>7
<1>9. InHand(c)'
  BY <1>6, <1>8 DEF InHand, Working, AtWork
<1>10. Keeps(0)
  BY <1>1, <1>2, CountsStay, Quiet
<1> QED
  BY <1>5, <1>6, <1>9, <1>10 DEF Effect

LEMMA HandlerThrowsCase ==
    ASSUME IInv, NEW c \in Consumers, HandlerThrows(c)
    PROVE  Effect(c)
<1> USE DEF IInv
<1>1. UNCHANGED <<reserved, producer, stream, read, pending, row, dead, completed, started>>
  BY DEF HandlerThrows, published, handled
<1>2. consumer[c].pc = "Handle" /\ Goto(c, "MarkFailed") /\ budget' \in 0..MaxFaults
  BY BudgetType DEF HandlerThrows
<1>3. consumer[c].pc \in Working /\ consumer[c].pc \in AtWork /\ "MarkFailed" \in ConsumerPc
  BY <1>2 DEF Working, AtWork, ConsumerPc
<1>4. ChannelType'
  BY <1>1, <1>2 DEF ChannelType
<1>5. /\ ConsumerType' /\ consumer'[c].pc = "MarkFailed" /\ consumer'[c].entry \in 1..read'
      /\ Message(c)' = Message(c) /\ Attempt(c)' = Attempt(c)
      /\ \A d \in Consumers \ {c} : consumer'[d] = consumer[d]
  BY <1>1, <1>2, <1>3, <1>4, GoesOn
<1>6. started[Message(c)] > Attempt(c)
  BY <1>3 DEF InHand
<1>7. started'[Message(c)'] > Attempt(c)'
  BY <1>1, <1>5, <1>6
<1>8. InHand(c)'
  BY <1>5, <1>7 DEF InHand, Working, AtWork
<1>9. Keeps(0)
  BY <1>1, CountsStay, Quiet
<1> QED
  BY <1>4, <1>5, <1>8, <1>9 DEF Effect

LEMMA MarkProcessedCase ==
    ASSUME IInv, NEW c \in Consumers, MarkProcessed(c)
    PROVE  Effect(c)
<1> USE DEF IInv
<1>1. UNCHANGED <<reserved, producer, stream, read, pending, dead, completed, started>>
  BY DEF MarkProcessed, published, handled
<1>2. PICK pc \in {"Ack", "MarkFailed"} : Goto(c, pc)
  BY DEF MarkProcessed
<1>3. /\ consumer[c].pc = "MarkProcessed" /\ budget' \in 0..MaxFaults
      /\ row' = row \/ row' = [row EXCEPT ![Message(c)] = "PROCESSED"]
  BY BudgetType DEF MarkProcessed, SetRow
<1>4. consumer[c].pc \in Working /\ consumer[c].pc \in AtWork /\ pc \in ConsumerPc
  BY <1>3 DEF Working, AtWork, ConsumerPc
<1>5. Message(c) \in Messages /\ Message(c) \in completed /\ started[Message(c)] > Attempt(c)
  BY <1>3, <1>4, HandFacts DEF InHand
<1>6. /\ row' \in [Messages -> RowStatus]
      /\ \A m \in Messages : row'[m] = "PROCESSED" => row[m] = "PROCESSED" \/ m \in completed
  <2>1. CASE row' = row
    BY <2>1 DEF ChannelType
  <2>2. CASE row' = [row EXCEPT ![Message(c)] = "PROCESSED"]
    <3>1. "PROCESSED" \in RowStatus
      BY DEF RowStatus
    <3>2. row' \in [Messages -> RowStatus] /\ \A k \in Messages : k # Message(c) => row'[k] = row[k]
      BY <1>5, <2>2, <3>1, SetRowType
    <3> QED
      BY <1>5, <3>2
  <2> QED
    BY <1>3, <2>1, <2>2
<1>7. ChannelType'
  BY <1>1, <1>3, <1>6 DEF ChannelType
<1>8. /\ ConsumerType' /\ consumer'[c].pc = pc /\ consumer'[c].entry \in 1..read'
      /\ Message(c)' = Message(c) /\ Attempt(c)' = Attempt(c)
      /\ \A d \in Consumers \ {c} : consumer'[d] = consumer[d]
  BY <1>1, <1>2, <1>4, <1>7, GoesOn
<1>9. started'[Message(c)'] > Attempt(c)' /\ Message(c)' \in completed'
  BY <1>1, <1>5, <1>8
<1>10. InHand(c)'
  BY <1>2, <1>8, <1>9 DEF InHand, Working, AtWork
<1>11. Keeps(0)
  BY <1>1, <1>6, CountsStay, Quiet
<1> QED
  BY <1>7, <1>8, <1>10, <1>11 DEF Effect

\* An acknowledged entry leaves the live ones, or nothing happens to the channel.
LEMMA AckKeeps ==
    ASSUME ChannelType, UNCHANGED <<reserved, producer, stream, read, row, dead, completed, started>>,
           NEW e \in 1..read, Accounted(e), pending' = pending \ {e} \/ UNCHANGED pending
    PROVE  \E k \in Nat : Keeps(k)
<1>1. CASE pending' = pending \ {e}
  BY <1>1, Acked
<1>2. CASE UNCHANGED pending
  BY <1>2, CountsStay, Quiet
<1> QED
  BY <1>1, <1>2

LEMMA AcknowledgeCase ==
    ASSUME IInv, NEW c \in Consumers, Acknowledge(c)
    PROVE  Effect(c)
<1> USE DEF IInv
<1>1. UNCHANGED <<reserved, producer, stream, read, row, dead, completed, started>>
  BY DEF Acknowledge, published, handled
<1>2. PICK pc \in {"Next", "MarkFailed"} : Goto(c, pc)
  BY DEF Acknowledge
<1>3. /\ consumer[c].pc = "Ack" /\ budget' \in 0..MaxFaults
      /\ pending' = pending \ {consumer[c].entry} \/ UNCHANGED pending
  BY BudgetType DEF Acknowledge, XAck
<1>4. consumer[c].pc \in Working /\ consumer[c].pc \in AtWork /\ pc \in ConsumerPc
  BY <1>3 DEF Working, AtWork, ConsumerPc
<1>5. /\ Message(c) \in completed /\ started[Message(c)] > Attempt(c)
      /\ consumer[c].entry \in 1..read
  BY <1>3, <1>4 DEF InHand
<1>6. Accounted(consumer[c].entry)
  BY <1>5 DEF Accounted, Settled, Message
<1>7. ChannelType'
  BY <1>1, <1>3 DEF ChannelType
<1>8. /\ ConsumerType' /\ consumer'[c].pc = pc /\ consumer'[c].entry \in 1..read'
      /\ Message(c)' = Message(c) /\ Attempt(c)' = Attempt(c)
      /\ \A d \in Consumers \ {c} : consumer'[d] = consumer[d]
  BY <1>1, <1>2, <1>4, <1>7, GoesOn
<1>9. started'[Message(c)'] > Attempt(c)'
  BY <1>1, <1>5, <1>8
<1>10. InHand(c)'
  BY <1>2, <1>8, <1>9 DEF InHand, Working, AtWork
<1>11. \E k \in Nat : Keeps(k)
  BY <1>1, <1>3, <1>5, <1>6, AckKeeps
<1> QED
  BY <1>7, <1>8, <1>10, <1>11 DEF Effect

LEMMA AcknowledgeOutsideCase ==
    ASSUME IInv, NEW c \in Consumers, AcknowledgeOutside(c)
    PROVE  Effect(c)
<1> USE DEF IInv
<1>1. UNCHANGED <<reserved, producer, stream, read, row, dead, completed, started>>
  BY DEF AcknowledgeOutside, published, handled
<1>2. /\ consumer[c].pc \in {"AckFailed", "AckSkipped"} /\ budget' \in 0..MaxFaults
      /\ pending' = pending \ {consumer[c].entry} \/ UNCHANGED pending
  BY BudgetType DEF AcknowledgeOutside, XAck
<1>3. consumer[c].pc \in Working
  BY <1>2 DEF Working, AtWork
<1>4. consumer[c].entry \in 1..read /\ Accounted(consumer[c].entry)
  BY <1>2, <1>3 DEF InHand, Accounted, Settled, Message
<1>5. ChannelType'
  BY <1>1, <1>2 DEF ChannelType
<1>6. \E k \in Nat : Keeps(k)
  BY <1>1, <1>2, <1>4, AckKeeps
<1>7. CASE Goto(c, "Next")
  <2>1. "Next" \in ConsumerPc
    BY DEF ConsumerPc
  <2>2. /\ ConsumerType' /\ consumer'[c].pc = "Next"
        /\ \A d \in Consumers \ {c} : consumer'[d] = consumer[d]
    BY <1>1, <1>3, <1>5, <1>7, <2>1, GoesOn
  <2>3. InHand(c)'
    BY <2>2 DEF InHand, Working, AtWork
  <2> QED
    BY <1>5, <1>6, <2>2, <2>3 DEF Effect
<1>8. CASE LoopFails(c)
  <2>1. ConsumerType' /\ InHand(c)' /\ \A d \in Consumers \ {c} : consumer'[d] = consumer[d]
    BY <1>1, <1>5, <1>8, TurnEnds
  <2> QED
    BY <1>5, <1>6, <2>1 DEF Effect
<1> QED
  BY <1>7, <1>8 DEF AcknowledgeOutside

LEMMA CrashCase ==
    ASSUME IInv, NEW c \in Consumers, Crash(c)
    PROVE  Effect(c)
<1> USE DEF IInv
<1>1. UNCHANGED <<reserved, producer, stream, read, pending, row, dead, completed, started>>
  BY DEF Crash, published, handled
<1>2. LoopFails(c) /\ budget' \in 0..MaxFaults
  BY BudgetType DEF Crash
<1>3. ChannelType'
  BY <1>1, <1>2 DEF ChannelType
<1>4. ConsumerType' /\ InHand(c)' /\ \A d \in Consumers \ {c} : consumer'[d] = consumer[d]
  BY <1>1, <1>2, <1>3, TurnEnds
<1>5. Keeps(0)
  BY <1>1, CountsStay, Quiet
<1> QED
  BY <1>3, <1>4, <1>5 DEF Effect

LEMMA MarkFailedCase ==
    ASSUME IInv, NEW c \in Consumers, MarkFailed(c)
    PROVE  Effect(c)
<1> USE DEF IInv
<1>1. UNCHANGED <<reserved, producer, stream, read, pending, dead, completed, started>>
  BY DEF MarkFailed, published, handled
<1> DEFINE status == IF Exhausted(c) THEN "DEAD_LETTER" ELSE "FAILED"
           pc     == IF Exhausted(c) THEN "Bury" ELSE "Requeue"
<1>2. /\ consumer[c].pc = "MarkFailed" /\ budget' \in 0..MaxFaults
      /\ row' = row \/ row' = [row EXCEPT ![Message(c)] = status]
      /\ Goto(c, pc) \/ LoopFails(c)
  BY BudgetType DEF MarkFailed, SetRow
<1>3. consumer[c].pc \in Working /\ consumer[c].pc \in AtWork
  BY <1>2 DEF Working, AtWork
<1>4. Message(c) \in Messages /\ Attempt(c) \in 0..(MaxAttempts - 1) /\ started[Message(c)] > Attempt(c)
  BY <1>3, HandFacts DEF InHand
<1>5. /\ row' \in [Messages -> RowStatus]
      /\ \A m \in Messages : row'[m] = "PROCESSED" => row[m] = "PROCESSED" \/ m \in completed
  <2>1. CASE row' = row
    BY <2>1 DEF ChannelType
  <2>2. CASE row' = [row EXCEPT ![Message(c)] = status]
    <3>1. status \in RowStatus /\ status # "PROCESSED"
      BY DEF RowStatus
    <3>2. /\ row' \in [Messages -> RowStatus] /\ row'[Message(c)] = status
          /\ \A k \in Messages : k # Message(c) => row'[k] = row[k]
      BY <1>4, <2>2, <3>1, SetRowType
    <3> QED
      BY <3>1, <3>2
  <2> QED
    BY <1>2, <2>1, <2>2
<1>6. ChannelType'
  BY <1>1, <1>2, <1>5 DEF ChannelType
<1>7. Keeps(0)
  BY <1>1, <1>5, CountsStay, Quiet
<1>8. CASE Goto(c, pc)
  <2>1. pc \in ConsumerPc /\ (pc = "Bury" <=> Exhausted(c)) /\ (pc = "Requeue" <=> ~Exhausted(c))
        /\ pc \in {"Bury", "Requeue"}
    BY DEF ConsumerPc
  <2> HIDE DEF pc
  <2>2. /\ ConsumerType' /\ consumer'[c].pc = pc /\ consumer'[c].entry \in 1..read'
        /\ Message(c)' = Message(c) /\ Attempt(c)' = Attempt(c)
        /\ \A d \in Consumers \ {c} : consumer'[d] = consumer[d]
    BY <1>1, <1>3, <1>6, <1>8, <2>1, GoesOn
  <2>3. started'[Message(c)'] > Attempt(c)'
    BY <1>1, <1>4, <2>2
  <2>4. /\ pc = "Requeue" => Attempt(c)' + 1 < MaxAttempts
        /\ pc = "Bury" => Attempt(c)' + 1 >= MaxAttempts
    <3>1. pc = "Requeue" => Attempt(c) + 1 < MaxAttempts
      BY <1>4, <2>1, BusBoundsAssumption DEF Exhausted
    <3>2. pc = "Bury" => Attempt(c) + 1 >= MaxAttempts
      BY <2>1 DEF Exhausted
    <3> QED
      BY <2>2, <3>1, <3>2
  <2>5. InHand(c)'
    BY <2>1, <2>2, <2>3, <2>4 DEF InHand, Working, AtWork
  <2> QED
    BY <1>6, <1>7, <2>2, <2>5 DEF Effect
<1>9. CASE LoopFails(c)
  <2>1. ConsumerType' /\ InHand(c)' /\ \A d \in Consumers \ {c} : consumer'[d] = consumer[d]
    BY <1>1, <1>6, <1>9, TurnEnds
  <2> QED
    BY <1>6, <1>7, <2>1 DEF Effect
<1> QED
  BY <1>2, <1>8, <1>9

LEMMA RequeueCase ==
    ASSUME IInv, NEW c \in Consumers, Requeue(c)
    PROVE  Effect(c)
<1> USE DEF IInv
<1>1. UNCHANGED <<reserved, producer, read, pending, row, dead, completed, started>>
  BY DEF Requeue, published, handled
<1>2. /\ consumer[c].pc = "Requeue" /\ budget' \in 0..MaxFaults
      /\ \/ XAdd(Message(c), Attempt(c) + 1) /\ (Goto(c, "AckFailed") \/ LoopFails(c))
         \/ (UNCHANGED stream) /\ LoopFails(c)
  BY BudgetType DEF Requeue
<1>3. consumer[c].pc \in Working /\ consumer[c].pc \in AtWork
  BY <1>2 DEF Working, AtWork
<1>4. /\ Message(c) \in Messages /\ Attempt(c) \in 0..(MaxAttempts - 1)
      /\ started[Message(c)] > Attempt(c) /\ started[Message(c)] \in Int
      /\ consumer[c].entry \in 1..read /\ consumer[c].entry \in 1..Len(stream)
  BY <1>3, HandFacts, StartsAssumption DEF InHand, ChannelType
<1>5. Attempt(c) + 1 < MaxAttempts
  BY <1>2 DEF InHand
<1>6. Attempt(c) + 1 \in 0..(MaxAttempts - 1) /\ started[Message(c)] >= Attempt(c) + 1
  BY <1>4, <1>5, BusBoundsAssumption
<1>7. PICK n \in Nat : n = Len(stream) + 1
  BY DEF ChannelType
<1>8. CASE XAdd(Message(c), Attempt(c) + 1)
  <2>1. /\ Keeps(0) /\ stream' \in Seq(Entry) /\ Len(stream') <= MaxEntries /\ read \in 0..Len(stream')
        /\ Len(stream') = n /\ stream'[n].msg = Message(c) /\ Live(n)'
    BY <1>1, <1>4, <1>6, <1>7, <1>8, Appended
  <2>2. ChannelType'
    BY <1>1, <1>2, <2>1 DEF ChannelType
  <2>3. stream'[consumer[c].entry] = stream[consumer[c].entry]
    BY <1>4, <2>1 DEF Keeps
  <2>4. CASE Goto(c, "AckFailed")
    <3>1. "AckFailed" \in ConsumerPc
      BY DEF ConsumerPc
    <3>2. /\ ConsumerType' /\ consumer'[c].pc = "AckFailed"
          /\ consumer'[c].entry = consumer[c].entry /\ consumer'[c].entry \in 1..read'
          /\ \A d \in Consumers \ {c} : consumer'[d] = consumer[d]
      BY <1>1, <1>3, <2>2, <2>3, <2>4, <3>1, GoesOn
    <3> DEFINE e == consumer[c].entry
    <3>3. n > e /\ n \in 1..Len(stream') /\ stream'[n].msg = stream'[e].msg
      BY <1>4, <1>7, <2>1, <2>3 DEF Message
    <3> HIDE DEF e
    <3>4. consumer'[c].entry = e
      BY <3>2 DEF e
    <3>5. Accounted(consumer[c].entry)'
      BY <2>1, <3>3, <3>4 DEF Accounted
    <3>6. InHand(c)'
      BY <3>2, <3>5 DEF InHand, Working, AtWork
    <3> QED
      BY <2>1, <2>2, <3>2, <3>6 DEF Effect
  <2>5. CASE LoopFails(c)
    <3>1. ConsumerType' /\ InHand(c)' /\ \A d \in Consumers \ {c} : consumer'[d] = consumer[d]
      BY <1>1, <2>2, <2>5, TurnEnds
    <3> QED
      BY <2>1, <2>2, <3>1 DEF Effect
  <2> QED
    BY <1>2, <2>4, <2>5
<1>9. CASE (UNCHANGED stream) /\ LoopFails(c)
  <2>1. ChannelType'
    BY <1>1, <1>2, <1>9 DEF ChannelType
  <2>2. ConsumerType' /\ InHand(c)' /\ \A d \in Consumers \ {c} : consumer'[d] = consumer[d]
    BY <1>1, <1>9, <2>1, TurnEnds
  <2>3. Keeps(0)
    BY <1>1, <1>9, CountsStay, Quiet
  <2> QED
    BY <2>1, <2>2, <2>3 DEF Effect
<1> QED
  BY <1>2, <1>8, <1>9

LEMMA MoveToDeadLetterCase ==
    ASSUME IInv, NEW c \in Consumers, MoveToDeadLetter(c)
    PROVE  Effect(c)
<1> USE DEF IInv
<1>1. UNCHANGED <<reserved, producer, stream, read, pending, row, completed, started>>
  BY DEF MoveToDeadLetter, published, handled
<1>2. /\ consumer[c].pc = "Bury" /\ budget' \in 0..MaxFaults
      /\ dead' \in {dead, dead \union {Message(c)}}
      /\ \/ dead' = dead \union {Message(c)} /\ Goto(c, "AckFailed")
         \/ LoopFails(c)
  BY BudgetType DEF MoveToDeadLetter
<1>3. consumer[c].pc \in Working /\ consumer[c].pc \in AtWork
  BY <1>2 DEF Working, AtWork
<1>4. /\ Message(c) \in Messages /\ Attempt(c) \in 0..(MaxAttempts - 1)
      /\ started[Message(c)] > Attempt(c) /\ started[Message(c)] \in Int
      /\ Attempt(c) + 1 >= MaxAttempts
  BY <1>2, <1>3, HandFacts, StartsAssumption DEF InHand, ChannelType
<1>5. started[Message(c)] >= MaxAttempts
  BY <1>4, BusBoundsAssumption
<1>6. ChannelType'
  BY <1>1, <1>2, <1>4 DEF ChannelType
<1>7. Keeps(0)
  <2>1. dead \subseteq dead' /\ \A m \in dead' \ dead : started[m] >= MaxAttempts
    BY <1>2, <1>5
  <2> QED
    BY <1>1, <2>1, CountsStay, Quiet
<1>8. CASE dead' = dead \union {Message(c)} /\ Goto(c, "AckFailed")
  <2>1. "AckFailed" \in ConsumerPc
    BY DEF ConsumerPc
  <2>2. /\ ConsumerType' /\ consumer'[c].pc = "AckFailed" /\ consumer'[c].entry \in 1..read'
        /\ Message(c)' = Message(c)
        /\ \A d \in Consumers \ {c} : consumer'[d] = consumer[d]
    BY <1>1, <1>3, <1>6, <1>8, <2>1, GoesOn
  <2>3. Message(c)' \in dead'
    BY <1>8, <2>2
  <2>4. Accounted(consumer[c].entry)'
    BY <2>3 DEF Accounted, Settled, Message
  <2>5. InHand(c)'
    BY <2>2, <2>4 DEF InHand, Working, AtWork
  <2> QED
    BY <1>6, <1>7, <2>2, <2>5 DEF Effect
<1>9. CASE LoopFails(c)
  <2>1. ConsumerType' /\ InHand(c)' /\ \A d \in Consumers \ {c} : consumer'[d] = consumer[d]
    BY <1>1, <1>6, <1>9, TurnEnds
  <2> QED
    BY <1>6, <1>7, <2>1 DEF Effect
<1> QED
  BY <1>2, <1>8, <1>9

(***************************************************************************)
(* Part 4.  The steps of a producer, and the invariant.                    *)
(***************************************************************************)
ProducerStep(m) == Reserve(m) \/ AddEntry(m) \/ PublishFails(m)

LEMMA ProducerCase ==
    ASSUME IInv, NEW m \in Messages, ProducerStep(m)
    PROVE  ChannelType' /\ Keeps(0) /\ UNCHANGED <<consumer, completed, dead, read>>
<1> USE DEF IInv
<1>1. /\ UNCHANGED <<read, pending, row, dead, completed, started, consumer>>
      /\ budget' \in 0..MaxFaults
  BY BudgetType DEF ProducerStep, Reserve, AddEntry, PublishFails, handled
<1>2. PICK pc \in ProducerPc : ProducerGoes(m, pc)
  BY DEF ProducerStep, Reserve, AddEntry, PublishFails, ProducerPc
<1>3. producer' \in [Messages -> ProducerPc] /\ reserved' \in SUBSET Messages
  <2>1. producer' \in [Messages -> ProducerPc]
    BY <1>2 DEF ProducerGoes, ChannelType
  <2>2. reserved' \in {reserved, reserved \union {m}}
    BY DEF ProducerStep, Reserve, AddEntry, PublishFails
  <2> QED
    BY <2>1, <2>2 DEF ChannelType
<1>4. XAdd(m, 0) \/ UNCHANGED stream
  BY DEF ProducerStep, Reserve, AddEntry, PublishFails
<1>5. CASE XAdd(m, 0)
  <2>1. 0 \in 0..(MaxAttempts - 1) /\ started[m] >= 0
    BY BusBoundsAssumption, StartsAssumption DEF ChannelType
  <2>2. PICK n \in Nat : n = Len(stream) + 1
    BY DEF ChannelType
  <2>3. Keeps(0) /\ stream' \in Seq(Entry) /\ Len(stream') <= MaxEntries /\ read \in 0..Len(stream')
    BY <1>1, <1>5, <2>1, <2>2, Appended
  <2> QED
    BY <1>1, <1>3, <2>3 DEF ChannelType
<1>6. CASE UNCHANGED stream
  <2>1. Keeps(0)
    BY <1>1, <1>6, CountsStay, Quiet
  <2> QED
    BY <1>1, <1>3, <1>6, <2>1 DEF ChannelType
<1> QED
  BY <1>4, <1>5, <1>6

LEMMA ProducerKeepsIInv ==
    ASSUME IInv, NEW m \in Messages, ProducerStep(m)
    PROVE  IInv'
<1>1. ChannelType' /\ Keeps(0) /\ UNCHANGED <<consumer, read>> /\ 0 \in Nat
  BY ProducerCase
<1>2. Covered' /\ RowsDone' /\ EntriesStarted' /\ DeadLetterIsExhausted'
  BY <1>1, SharedStays
<1>3. \A d \in Consumers : InHand(d)'
  BY <1>1, OthersStay
<1>4. ConsumerType'
  BY <1>1 DEF IInv, ConsumerType
<1> QED
  BY <1>1, <1>2, <1>3, <1>4 DEF IInv

LEMMA ConsumerKeepsIInv ==
    ASSUME IInv, NEW c \in Consumers, ConsumerStep(c) \/ BeginFails(c) \/ Crash(c)
    PROVE  IInv'
<1>1. Effect(c)
  BY ReclaimCase, ReadFreshCase, FinishBatchCase, BeginCase, BeginFailsCase, HandlerReturnsCase,
     HandlerThrowsCase, MarkProcessedCase, AcknowledgeCase, MarkFailedCase, RequeueCase,
     MoveToDeadLetterCase, AcknowledgeOutsideCase, CrashCase
  DEF ConsumerStep
<1> QED
  BY <1>1, EffectKeepsIInv

LEMMA StutterKeepsIInv == IInv /\ UNCHANGED vars => IInv'
<1> SUFFICES ASSUME IInv, UNCHANGED vars PROVE IInv'
  OBVIOUS
<1> USE DEF vars
<1>1. ChannelType' /\ ConsumerType' /\ RowsDone' /\ EntriesStarted' /\ DeadLetterIsExhausted'
  BY DEF IInv, ChannelType, ConsumerType, RowsDone, EntriesStarted, DeadLetterIsExhausted
<1>2. Covered'
  BY DEF IInv, Covered, Live, Accounted, Settled
<1>3. \A c \in Consumers : InHand(c)'
  BY DEF IInv, InHand, Message, Attempt, Accounted, Live, Settled
<1> QED
  BY <1>1, <1>2, <1>3 DEF IInv

LEMMA StepIInv == IInv /\ [Next]_vars => IInv'
<1> SUFFICES ASSUME IInv, [Next]_vars PROVE IInv'
  OBVIOUS
<1>1. ASSUME NEW m \in Messages, ProducerStep(m) PROVE IInv'
  BY <1>1, ProducerKeepsIInv
<1>2. ASSUME NEW c \in Consumers, ConsumerStep(c) \/ BeginFails(c) \/ Crash(c) PROVE IInv'
  BY <1>2, ConsumerKeepsIInv
<1>3. CASE UNCHANGED vars
  BY <1>3, StutterKeepsIInv
<1> QED
  BY <1>1, <1>2, <1>3 DEF Next, ProducerStep

LEMMA AlwaysIInv == Spec => []IInv
BY InitIInv, StepIInv, PTL DEF Spec

\* Every variable of the channel keeps to its type.
THEOREM TypeCorrect == Spec => []TypeOK
BY AlwaysIInv, IInvImplies, PTL

\* However reclaims, copies, acknowledgements, crashes and errors of Redis and of
\* the database interleave, a message of the stream is settled or still unacknowledged.
THEOREM NothingLostHolds == Spec => []NothingLost
BY AlwaysIInv, IInvImplies, PTL

\* moveToDeadLetter is reached only for a message whose handler has been started
\* MaxAttempts times, also when several copies of it are in the stream.
THEOREM DeadLetterIsExhaustedHolds == Spec => []DeadLetterIsExhausted
BY AlwaysIInv, IInvImplies, PTL

(***************************************************************************)
(* Part 5.  The channel implements DeliveryContract: a step settles or     *)
(* accepts one message at most, and only one that may be.                  *)
(***************************************************************************)
Standings == [m \in Messages |-> StandingOf(m)]

\* Message m alone may change its standing.
Affects(m) ==
    /\ \A k \in Messages : (Settled(k) => Settled(k)') /\ (InStream(k) => InStream(k)')
    /\ \A k \in Messages \ {m} : (Settled(k)' => Settled(k)) /\ (InStream(k)' => InStream(k))
    /\ Settled(m)' => Settled(m) \/ InStream(m)
    /\ InStream(m)' => InStream(m) \/ (Settled(m)' => Settled(m))

LEMMA StandingIs ==
    ASSUME NothingLost, NEW m \in Messages
    PROVE  StandingOf(m) = IF Settled(m) THEN "settled" ELSE IF InStream(m) THEN "owed" ELSE "new"
BY DEF NothingLost, StandingOf

LEMMA AffectsRefines ==
    ASSUME NothingLost, NothingLost', NEW m, Affects(m)
    PROVE  [Delivery!Next]_Standings
<1>1. ASSUME NEW k \in Messages
      PROVE  /\ StandingOf(k) = IF Settled(k) THEN "settled" ELSE IF InStream(k) THEN "owed" ELSE "new"
             /\ StandingOf(k)' = IF Settled(k)' THEN "settled" ELSE IF InStream(k)' THEN "owed" ELSE "new"
  <2>1. StandingOf(k) = IF Settled(k) THEN "settled" ELSE IF InStream(k) THEN "owed" ELSE "new"
    BY StandingIs
  <2>2. StandingOf(k)' = IF Settled(k)' THEN "settled" ELSE IF InStream(k)' THEN "owed" ELSE "new"
    BY DEF NothingLost, StandingOf
  <2> QED
    BY <2>1, <2>2
<1>2. \A k \in Messages \ {m} : StandingOf(k)' = StandingOf(k)
  BY <1>1 DEF Affects
<1>3. CASE m \notin Messages \/ StandingOf(m)' = StandingOf(m)
  <2>1. \A k \in Messages : StandingOf(k)' = StandingOf(k)
    BY <1>2, <1>3
  <2>2. Standings' = Standings
    BY <2>1 DEF Standings
  <2> QED
    BY <2>2
<1>4. CASE m \in Messages /\ StandingOf(m)' # StandingOf(m)
  <2>1. \/ StandingOf(m) = "new" /\ StandingOf(m)' = "owed"
        \/ StandingOf(m) = "owed" /\ StandingOf(m)' = "settled"
    BY <1>1, <1>4 DEF Affects
  <2>2. PICK v : v = StandingOf(m)'
    OBVIOUS
  <2>3. /\ Standings = [k \in Messages |-> StandingOf(k)]
        /\ Standings' = [k \in Messages |-> StandingOf(k)']
    BY DEF Standings
  <2>4. Standings' = [Standings EXCEPT ![m] = v] /\ Standings[m] = StandingOf(m)
    BY <1>2, <1>4, <2>2, <2>3
  <2>5. Delivery!Accept(m) \/ Delivery!Settle(m)
    BY <2>1, <2>2, <2>4 DEF Delivery!Accept, Delivery!Settle, Standings
  <2> QED
    BY <1>4, <2>5 DEF Delivery!Next, Standings
<1> QED
  BY <1>3, <1>4

LEMMA StreamGrows ==
    ASSUME ChannelType, ChannelType', NEW e \in Nat, Keeps(e), NEW m, InStream(m)
    PROVE  InStream(m)'
<1>1. PICK i \in 1..Len(stream) : stream[i].msg = m
  BY DEF InStream
<1>2. /\ Len(stream) \in Nat /\ Len(stream') \in Nat
      /\ Len(stream) <= Len(stream') /\ stream'[i] = stream[i]
  BY DEF ChannelType, Keeps
<1> QED
  BY <1>1, <1>2 DEF InStream

LEMMA AddedIs ==
    ASSUME stream \in Seq(Entry), NEW m, NEW a, XAdd(m, a)
    PROVE  \A k : InStream(k)' => InStream(k) \/ k = m
<1> DEFINE x == [msg |-> m, attempt |-> a]
<1>1. Len(stream) \in Nat /\ stream' = Append(stream, x) /\ x.msg = m
  BY DEF XAdd
<1> HIDE DEF x
<1>2. /\ Len(stream') = Len(stream) + 1 /\ stream'[Len(stream) + 1] = x
      /\ \A i \in 1..Len(stream) : stream'[i] = stream[i]
  BY <1>1
<1> SUFFICES ASSUME NEW k, InStream(k)' PROVE InStream(k) \/ k = m
  OBVIOUS
<1>3. PICK i \in 1..Len(stream') : stream'[i].msg = k
  BY DEF InStream
<1>4. CASE i = Len(stream) + 1
  BY <1>1, <1>2, <1>3, <1>4
<1>5. CASE i \in 1..Len(stream)
  BY <1>2, <1>3, <1>5 DEF InStream
<1> QED
  BY <1>1, <1>2, <1>3, <1>4, <1>5

LEMMA ProducerAffects ==
    ASSUME IInv, IInv', NEW m \in Messages, ProducerStep(m)
    PROVE  Affects(m)
<1>1. ChannelType /\ ChannelType' /\ 0 \in Nat /\ Keeps(0) /\ UNCHANGED <<completed, dead>>
  BY ProducerCase DEF IInv
<1>2. \A k : Settled(k)' <=> Settled(k)
  BY <1>1 DEF Settled
<1>3. \A k \in Messages : InStream(k) => InStream(k)'
  BY <1>1, StreamGrows
<1>4. XAdd(m, 0) \/ UNCHANGED stream
  BY DEF ProducerStep, Reserve, AddEntry, PublishFails
<1>5. \A k \in Messages \ {m} : InStream(k)' => InStream(k)
  <2>1. CASE XAdd(m, 0)
    BY <1>1, <2>1, AddedIs DEF ChannelType
  <2>2. CASE UNCHANGED stream
    BY <2>2 DEF InStream
  <2> QED
    BY <1>4, <2>1, <2>2
<1> QED
  BY <1>2, <1>3, <1>5 DEF Affects

LEMMA ConsumerAffects ==
    ASSUME IInv, IInv', NEW c \in Consumers, ConsumerStep(c) \/ BeginFails(c) \/ Crash(c)
    PROVE  \E m : Affects(m)
<1>1. PICK m : m = Message(c)
  OBVIOUS
<1>2. ChannelType /\ ChannelType' /\ \E e \in Nat : Keeps(e)
  BY ReclaimCase, ReadFreshCase, FinishBatchCase, BeginCase, BeginFailsCase, HandlerReturnsCase,
     HandlerThrowsCase, MarkProcessedCase, AcknowledgeCase, MarkFailedCase, RequeueCase,
     MoveToDeadLetterCase, AcknowledgeOutsideCase, CrashCase
  DEF ConsumerStep, IInv, Effect
<1>3. \A k \in Messages : (Settled(k) => Settled(k)') /\ (InStream(k) => InStream(k)')
  BY <1>2, StreamGrows DEF Settled, Keeps
<1>4. consumer[c].pc \in Working => InStream(m)
  BY <1>1, HandFacts DEF InStream, Message
<1>5. /\ completed' \subseteq completed \union {m} /\ dead' \subseteq dead \union {m}
      /\ UNCHANGED <<completed, dead>> \/ consumer[c].pc \in Working
  BY <1>1 DEF ConsumerStep, Reclaim, ReadFresh, FinishBatch, Begin, BeginFails, HandlerReturns, HandlerThrows,
     MarkProcessed, Acknowledge, MarkFailed, Requeue, MoveToDeadLetter, AcknowledgeOutside, Crash,
     handled, Working, AtWork
<1>6. \A k : Settled(k)' => Settled(k) \/ (k = m /\ InStream(m))
  BY <1>4, <1>5 DEF Settled
<1>7. UNCHANGED stream \/ (consumer[c].pc \in Working /\ XAdd(m, Attempt(c) + 1))
  BY <1>1 DEF ConsumerStep, Reclaim, ReadFresh, FinishBatch, Begin, BeginFails, HandlerReturns, HandlerThrows,
     MarkProcessed, Acknowledge, MarkFailed, Requeue, MoveToDeadLetter, AcknowledgeOutside, Crash,
     Working, AtWork
<1>8. \A k : InStream(k)' => InStream(k)
  <2>1. CASE UNCHANGED stream
    BY <2>1 DEF InStream
  <2>2. CASE consumer[c].pc \in Working /\ XAdd(m, Attempt(c) + 1)
    <3>1. \A k : InStream(k)' => InStream(k) \/ k = m
      BY <1>2, <2>2, AddedIs DEF ChannelType
    <3> QED
      BY <1>4, <2>2, <3>1
  <2> QED
    BY <1>7, <2>1, <2>2
<1>9. Affects(m)
  BY <1>3, <1>6, <1>8 DEF Affects
<1> QED
  BY <1>9

\* Whatever fails and however copies and reclaims interleave, the channel keeps the
\* contract of delivery: a message is new, then owed, then settled, and stays settled.
THEOREM KeepsDeliveryContractHolds == Spec => KeepsDeliveryContract
<1>1. Init => Delivery!Init
  <2> SUFFICES ASSUME Init PROVE Standings = [m \in Messages |-> "new"]
    BY DEF Delivery!Init, Standings
  <2>1. \A m \in Messages : ~Settled(m) /\ ~InStream(m)
    BY DEF Init, Settled, InStream
  <2> QED
    BY <2>1 DEF Standings, StandingOf
<1>2. IInv /\ IInv' /\ [Next]_vars => [Delivery!Next]_Standings
  <2> SUFFICES ASSUME IInv, IInv', [Next]_vars PROVE [Delivery!Next]_Standings
    OBVIOUS
  <2>1. NothingLost /\ NothingLost'
    BY IInvImplies, PTL
  <2>2. ASSUME NEW m \in Messages, ProducerStep(m) PROVE [Delivery!Next]_Standings
    BY <2>1, <2>2, ProducerAffects, AffectsRefines
  <2>3. ASSUME NEW c \in Consumers, ConsumerStep(c) \/ BeginFails(c) \/ Crash(c)
        PROVE  [Delivery!Next]_Standings
    BY <2>1, <2>3, ConsumerAffects, AffectsRefines
  <2>4. CASE UNCHANGED vars
    BY <2>4 DEF vars, Standings, StandingOf, Settled, InStream, Live
  <2> QED
    BY <2>2, <2>3, <2>4 DEF Next, ProducerStep
<1>3. Standings = [m \in Messages |-> StandingOf(m)]
  BY DEF Standings
<1> QED
  BY <1>1, <1>2, <1>3, AlwaysIInv, PTL DEF Spec, KeepsDeliveryContract, Delivery!Spec, Standings
=============================================================================
