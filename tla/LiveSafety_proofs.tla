--------------------------- MODULE LiveSafety_proofs ---------------------------
(***************************************************************************)
(* Theorems about LiveSafety, for any keys, stream objects and monitors:   *)
(* types, and that a gate that is open rests on something the key's        *)
(* connection did a short while ago.                                       *)
(***************************************************************************)
EXTENDS LiveSafety, FiniteSetTheorems, TLAPS

(***************************************************************************)
(* Types.                                                                  *)
(***************************************************************************)
LEMMA AgeFacts ==
    /\ 0 \in Ages
    /\ \A n \in Ages : Older(n) \in Ages /\ n <= Older(n)
    /\ \A m, n \in Ages : m <= n => Older(m) <= Older(n)
BY WatchAssumption DEF Ages, Older

LEMMA FreshTyped ==
    ASSUME TypeOK, NEW o \in Streams, stream[o] # None, NEW s \in Statuses
    PROVE  Fresh(o, s) \in Write /\ Fresh(o, s).status = s /\ Fresh(o, s).age = 0 /\ Fresh(o, s).key = stream[o].key
BY AgeFacts DEF TypeOK, Fresh, Stream, Write

\* The changes of a stream object.
LEMMA BecomesTyped ==
    ASSUME TypeOK, NEW o \in Streams, stream[o] # None, NEW c \in Conns, Becomes(o, c)
    PROVE  stream' \in [Streams -> Stream \union {None}]
BY DEF TypeOK, Becomes, Stream

LEMMA OrdersTyped == TypeOK => Orders \in 0..2
<1> SUFFICES ASSUME TypeOK PROVE Orders \in 0..2
  OBVIOUS
<1> DEFINE S == {x \in {"stop", "take"} : position[x]}
<1>1. S = {} \/ S = {"stop"} \/ S = {"take"} \/ S = {"stop", "take"}
  OBVIOUS
<1>2. Cardinality({"stop", "take"}) = 2
  <2>1. IsFiniteSet({"stop"}) /\ Cardinality({"stop"}) = 1
    BY FS_Singleton
  <2>2. {"stop", "take"} = {"stop"} \union {"take"} /\ "take" \notin {"stop"}
    OBVIOUS
  <2> QED
    BY <2>1, <2>2, FS_AddElement
<1>3. Cardinality({"stop"}) = 1 /\ Cardinality({"take"}) = 1 /\ Cardinality({}) = 0
  BY FS_Singleton, FS_EmptySet
<1> QED
  BY <1>1, <1>2, <1>3 DEF Orders

LEMMA InitTyped == Init => TypeOK
<1> SUFFICES ASSUME Init PROVE TypeOK
  OBVIOUS
<1>1. account \in [venue : Venues, enabled : BOOLEAN, key : Keys, group : Groups]
  BY DEF Init
<1>2. position \in Position
  <2>1. Flat \in Position /\ Placed \in Position
    BY WatchAssumption DEF Flat, Placed, Position
  <2>2. position \in {Flat, Placed}
    BY DEF Init
  <2> QED
    BY <2>1, <2>2
<1>3. heard \in [Keys -> Ages] /\ budget \in 0..MaxEvents
  BY WatchAssumption DEF Init, Ages
<1> QED
  BY <1>1, <1>2, <1>3 DEF Init, TypeOK

\* What the workers of the stream leave alone.
LEMMA StreamTyped ==
    ASSUME TypeOK, streamOnly' = streamOnly, stream' \in [Streams -> Stream \union {None}],
           row' \in Write \union {None}, writes' \in SUBSET Write, heard' \in [Keys -> Ages], budget' \in 0..MaxEvents
    PROVE  TypeOK'
BY DEF TypeOK, streamOnly, checking, alarms

LEMMA EventTyped ==
    ASSUME TypeOK, NEW kind, Event(kind)
    PROVE  budget' \in 0..MaxEvents
BY WatchAssumption DEF TypeOK, Event

LEMMA RestartsTyped ==
    ASSUME TypeOK, Restarts, budget' \in 0..MaxEvents
    PROVE  TypeOK'
BY DEF TypeOK, Restarts

LEMMA StopTyped == \A s \in Stream : Stop(s) \in Stream
<1> SUFFICES ASSUME NEW s \in Stream PROVE Stop(s) \in Stream
  OBVIOUS
<1>1. PICK n \in 0..2, c \in Conns : Stop(s) = [s EXCEPT !.managed = FALSE, !.keepers = n, !.conn = c]
  <2>1. (IF s.keepers > 0 THEN s.keepers - 1 ELSE 0) \in 0..2
    BY DEF Stream
  <2>2. (IF s.conn \in {"Opening", "Open"} THEN "Ended" ELSE s.conn) \in Conns
    BY DEF Stream, Conns
  <2> QED
    BY <2>1, <2>2 DEF Stop
<1>2. Stop(s) = [key |-> s.key, managed |-> FALSE, conn |-> c, keepers |-> n]
  BY <1>1 DEF Stream
<1> QED
  BY <1>2 DEF Stream

LEMMA NextTyped == TypeOK /\ [Next]_vars => TypeOK'
<1> SUFFICES ASSUME TypeOK, [Next]_vars PROVE TypeOK'
  OBVIOUS
<1> USE DEF health, checking, alarms, others, streamOnly
<1>1. ASSUME NEW w \in writes, Executes(w)
      PROVE  TypeOK'
  BY <1>1 DEF Executes, Upsert, TypeOK
<1>2. CASE Tick
  <2>1. row' \in Write \union {None}
    BY <1>2, AgeFacts DEF Tick, TypeOK, Write
  <2>2. \A w \in Write : [w EXCEPT !.age = Older(@)] \in Write
    BY AgeFacts DEF Write
  <2>3. heard' \in [Keys -> Ages]
    BY <1>2, AgeFacts DEF Tick, TypeOK
  <2> QED
    BY <1>2, <2>1, <2>2, <2>3 DEF Tick, TypeOK
<1>3. ASSUME NEW o \in Streams, Connect(o)
      PROVE  TypeOK'
  <2>1. stream' \in [Streams -> Stream \union {None}]
    BY <1>3, BecomesTyped DEF Connect, Conns
  <2>2. Fresh(o, "CONNECTING") \in Write
    BY <1>3, FreshTyped DEF Connect, Statuses
  <2> QED
    BY <1>3, <2>1, <2>2, StreamTyped DEF Connect, Send, Upsert, TypeOK
<1>4. ASSUME NEW o \in Streams, ListenKey(o)
      PROVE  TypeOK'
  <2>1. stream' \in [Streams -> Stream \union {None}]
    BY <1>4, BecomesTyped DEF ListenKey, Conns
  <2>2. budget' \in 0..MaxEvents
    BY <1>4, EventTyped DEF ListenKey, TypeOK
  <2> QED
    BY <1>4, <2>1, <2>2, StreamTyped DEF ListenKey, TypeOK
<1>5. ASSUME NEW o \in Streams, Catch(o)
      PROVE  TypeOK'
  <2>1. stream' \in [Streams -> Stream \union {None}]
    BY <1>5, BecomesTyped DEF Catch, Conns
  <2>2. Fresh(o, "FAILED") \in Write /\ Fresh(o, "RECONNECTING") \in Write
    BY <1>5, FreshTyped DEF Catch, Statuses
  <2> QED
    BY <1>5, <2>1, <2>2, StreamTyped DEF Catch, Send, Upsert, TypeOK
<1>6. ASSUME NEW o \in Streams, Opens(o) \/ Hears(o)
      PROVE  TypeOK'
  <2>1. stream' \in [Streams -> Stream \union {None}]
    BY <1>6 DEF Opens, Hears, TypeOK, Stream, Conns
  <2>2. Fresh(o, "HEALTHY") \in Write
    BY <1>6, FreshTyped DEF Opens, Hears, Statuses
  <2>3. heard' \in [Keys -> Ages]
    BY <1>6, AgeFacts DEF Opens, Hears, TypeOK
  <2> QED
    BY <1>6, <2>1, <2>2, <2>3, StreamTyped DEF Opens, Hears, Send, TypeOK
<1>7. ASSUME NEW o \in Streams, Drops(o)
      PROVE  TypeOK'
  <2>1. stream' \in [Streams -> Stream \union {None}]
    BY <1>7, BecomesTyped DEF Drops, Conns
  <2>2. Fresh(o, "FAILED") \in Write /\ Fresh(o, "RECONNECTING") \in Write
    BY <1>7, FreshTyped DEF Drops, Statuses
  <2>3. budget' \in 0..MaxEvents
    BY <1>7, EventTyped DEF Drops
  <2>4. writes' \in SUBSET Write
    BY <1>7, <2>2 DEF Drops, TypeOK
  <2> QED
    BY <1>7, <2>1, <2>3, <2>4, StreamTyped DEF Drops, TypeOK
<1>8. ASSUME NEW o \in Streams, Forgotten(o)
      PROVE  TypeOK'
  BY <1>8, StreamTyped DEF Forgotten, TypeOK
<1>9. CASE MarkStale
  BY <1>9 DEF MarkStale, TypeOK, Write, Statuses
<1>10. CASE ListEnabled
  BY <1>10, StopTyped DEF ListEnabled, TypeOK, Running
<1>11. CASE EnsureStream
  <2>1. [key |-> account.key, managed |-> TRUE, conn |-> "Start", keepers |-> 0] \in Stream
    BY DEF TypeOK, Stream, Conns
  <2> QED
    BY <1>11, <2>1 DEF EnsureStream, TypeOK
<1>12. CASE ReconStarts
  BY <1>12, WatchAssumption DEF ReconStarts, TypeOK, Recon, Position
<1>13. CASE ReadPositions
  BY <1>13 DEF ReadPositions, TypeOK, Recon, Position
<1>14. CASE ReadOrders
  BY <1>14, OrdersTyped DEF ReadOrders, TypeOK, Recon
<1>15. CASE CreateRun
  BY <1>15 DEF CreateRun, TypeOK, Recon, Mismatches
<1>16. CASE CreateMismatch
  BY <1>16 DEF CreateMismatch, TypeOK, Recon
<1>17. CASE ReconFails
  BY <1>17, EventTyped DEF ReconFails, TypeOK
<1>18. CASE SupervisorLists \/ SupervisorChecks
  BY <1>18 DEF SupervisorLists, SupervisorChecks, TypeOK
<1>19. CASE SupervisorReports \/ SupervisorLocks
  BY <1>19 DEF SupervisorReports, SupervisorLocks, TypeOK
<1>20. CASE SupervisorFails
  BY <1>20, EventTyped DEF SupervisorFails, TypeOK
<1>21. ASSUME NEW m \in Monitors, MonitorStep(m)
       PROVE  TypeOK'
  BY <1>21 DEF MonitorStep, MonitorSeesStream, MonitorRaisesStream, MonitorSeesMismatch, MonitorRaisesMismatch, Moves, Activate,
       TypeOK, Triggers
<1>22. ASSUME NEW m \in Monitors, MonitorFails(m)
       PROVE  TypeOK'
  BY <1>22, EventTyped DEF MonitorFails, Moves, TypeOK
<1>23. CASE PingsTooEarly
  BY <1>23, RestartsTyped DEF PingsTooEarly, TypeOK
<1>24. CASE Crash
  BY <1>24, EventTyped, RestartsTyped DEF Crash
<1>25. CASE Rotate \/ Switch
  BY <1>25, EventTyped DEF Rotate, Switch, TypeOK
<1>26. CASE Move
  <2>0. position \in Position /\ Flat \in Position /\ Volume \in Nat
    BY WatchAssumption DEF TypeOK, Flat, Position
  <2>2. \A n \in 1..Volume : [row |-> 0, held |-> n, stop |-> TRUE, take |-> TRUE] \in Position
    BY <2>0 DEF Position
  <2>3. \A n \in 1..position.held : [position EXCEPT !.row = n] \in Position
    BY <2>0 DEF Position
  <2>4. [Flat EXCEPT !.row = position.row] \in Position
    BY <2>0 DEF Position
  <2>6. \A n \in 1..(position.held - 1) : [position EXCEPT !.held = n] \in Position
    BY <2>0 DEF Position
  <2>5. \A x \in {"stop", "take"} : [position EXCEPT ![x] = FALSE] \in Position
    BY <2>0 DEF Position
  <2>1. position' \in Position
    BY <1>26, <2>0, <2>2, <2>3, <2>4, <2>5, <2>6 DEF Move
  <2> QED
    BY <1>26, <2>1, EventTyped DEF Move, TypeOK
<1>27. CASE Operator
  <2>1. budget' \in 0..MaxEvents
    BY <1>27, EventTyped DEF Operator
  <2>2. safe' \in [Triggers -> Nat] /\ reported' \in BOOLEAN
    <3>1. ASSUME NEW t \in Triggers, safe[t] > 0, safe' = [safe EXCEPT ![t] = safe[t] - 1]
          PROVE  safe' \in [Triggers -> Nat]
      BY <3>1 DEF TypeOK
    <3>2. safe' \in [Triggers -> Nat]
      BY <1>27, <3>1 DEF Operator, TypeOK
    <3>3. reported' \in BOOLEAN
      BY <1>27 DEF Operator, TypeOK
    <3> QED
      BY <3>2, <3>3
  <2> QED
    BY <1>27, <2>1, <2>2 DEF Operator, TypeOK
<1>28. CASE UNCHANGED vars
  BY <1>28 DEF vars, TypeOK
<1> QED
  BY <1>1, <1>2, <1>3, <1>4, <1>5, <1>6, <1>7, <1>8, <1>9, <1>10, <1>11, <1>12, <1>13, <1>14, <1>15, <1>16, <1>17, <1>18,
     <1>19, <1>20, <1>21, <1>22, <1>23, <1>24, <1>25, <1>26, <1>27, <1>28
     DEF Next, StreamStep, ScanStep, ReconStep, SupervisorStep

\* The workers, the account and the exchange lead from well-typed states to well-typed states.
THEOREM TypeCorrect == Spec => []TypeOK
BY InitTyped, NextTyped, PTL DEF Spec

(***************************************************************************)
(* The gate.                                                               *)
(***************************************************************************)
Bears(w) == w.status = "HEALTHY" => heard[w.key] <= w.age

\* A status that says HEALTHY, written or on its way, is not younger than what it is about.
Honest == (row # None => Bears(row)) /\ \A w \in writes : Bears(w)

LEMMA InitHonest == Init => Honest
BY DEF Init, Honest

LEMMA HonestStep == TypeOK /\ Honest /\ [Next]_vars => Honest'
<1> SUFFICES ASSUME TypeOK, Honest, [Next]_vars PROVE Honest'
  OBVIOUS
<1> USE DEF health, checking, alarms, others, streamOnly
<1>1. ASSUME NEW w \in writes, Executes(w)
      PROVE  Honest'
  BY <1>1 DEF Executes, Upsert, Honest, Bears
<1>2. CASE Tick
  <2>1. \A w \in Write : Bears(w) => Bears([w EXCEPT !.age = Older(@)])'
    BY <1>2, AgeFacts DEF Tick, Bears, TypeOK, Write
  <2>2. (row # None => Bears(row))'
    BY <1>2, <2>1 DEF Tick, Honest, TypeOK
  <2>3. (\A w \in writes : Bears(w))'
    BY <1>2, <2>1 DEF Tick, Honest, TypeOK
  <2> QED
    BY <2>2, <2>3 DEF Honest
\* Nothing but the keys' ages stays, and only harmless writes are added.
<1>3. ASSUME UNCHANGED heard, row' \in Write \union {None}, writes' \in SUBSET Write,
             \A w \in writes' \ writes : w.status # "HEALTHY",
             row' = row \/ (row' # None => row'.status # "HEALTHY")
      PROVE  Honest'
  BY <1>3 DEF Honest, Bears
<1>4. ASSUME UNCHANGED <<heard, row>>, writes' \subseteq writes
      PROVE  Honest'
  BY <1>4 DEF Honest, Bears
<1>5. TypeOK'
  BY NextTyped
<1>6. ASSUME NEW o \in Streams, Connect(o) \/ Catch(o) \/ Drops(o)
      PROVE  Honest'
  <2>1. Fresh(o, "CONNECTING").status # "HEALTHY" /\ Fresh(o, "FAILED").status # "HEALTHY" /\ Fresh(o, "RECONNECTING").status # "HEALTHY"
    BY DEF Fresh
  <2>2. UNCHANGED heard
    BY <1>6 DEF Connect, Catch, Drops
  <2>3. \A w \in writes' \ writes : w.status # "HEALTHY"
    BY <1>6, <2>1 DEF Connect, Catch, Drops, Send
  <2>4. row' = row \/ row'.status # "HEALTHY"
    BY <1>6, <2>1 DEF Connect, Catch, Drops, Upsert
  <2> QED
    BY <1>3, <1>5, <2>2, <2>3, <2>4 DEF TypeOK
<1>7. ASSUME NEW o \in Streams, Opens(o) \/ Hears(o), ~(UNCHANGED <<row, writes, heard>>)
      PROVE  Honest'
  <2>1. heard' = [heard EXCEPT ![stream[o].key] = 0] /\ row' = row /\ writes' = writes \union {Fresh(o, "HEALTHY")}
    BY <1>7 DEF Opens, Hears, Send
  <2>2. Fresh(o, "HEALTHY") \in Write /\ Fresh(o, "HEALTHY").age = 0 /\ Fresh(o, "HEALTHY").key = stream[o].key
    BY <1>7, FreshTyped DEF Opens, Hears, Statuses
  <2>3. \A w \in Write : Bears(w) => Bears(w)'
    BY <2>1 DEF Bears, Write, TypeOK, Ages
  <2>4. PICK w \in Write : w = Fresh(o, "HEALTHY")
    BY <2>2
  <2>5. Bears(w)'
    BY <2>1, <2>2, <2>4 DEF Bears, Write, TypeOK
  <2>6. writes' = writes \union {w} /\ row' = row /\ writes \subseteq Write
    BY <2>1, <2>4 DEF TypeOK
  <2>7. (row # None => Bears(row))'
    BY <2>3, <2>6 DEF Honest, TypeOK
  <2>8. (\A x \in writes : Bears(x))'
    BY <2>3, <2>5, <2>6 DEF Honest
  <2> QED
    BY <2>7, <2>8 DEF Honest
<1>8. CASE MarkStale
  BY <1>3, <1>5, <1>8 DEF MarkStale, TypeOK, Write
<1>9. CASE PingsTooEarly \/ Crash
  BY <1>4, <1>9 DEF PingsTooEarly, Crash, Restarts
<1>10. CASE UNCHANGED <<row, writes, heard>>
  BY <1>4, <1>10
<1> QED
  BY <1>1, <1>2, <1>6, <1>7, <1>8, <1>9, <1>10
     DEF Next, StreamStep, ScanStep, ReconStep, SupervisorStep, MonitorStep, ListenKey, Forgotten, ListEnabled, EnsureStream,
         ReconStarts, ReadPositions, ReadOrders, CreateRun, CreateMismatch, ReconFails, SupervisorLists, SupervisorChecks,
         SupervisorReports, SupervisorLocks, SupervisorFails, MonitorSeesStream, MonitorRaisesStream, MonitorSeesMismatch,
         MonitorRaisesMismatch, MonitorFails, Rotate, Switch, Move, Operator, vars

\* The executor finds a stream healthy only when its connection opened, spoke or was kept alive a
\* short while ago: of however many stream objects, keys and status writes in flight.
THEOREM HealthyIsHeardHolds == Spec => []HealthyIsHeard
<1>1. TypeOK /\ Honest => HealthyIsHeard
  <2> SUFFICES ASSUME TypeOK, Honest, NEW k \in Keys, Gate(k) PROVE heard[k] <= StaleAfter
    BY DEF HealthyIsHeard
  <2>1. row \in Write /\ row # None /\ row.key = k /\ row.age <= StaleAfter /\ row.status = "HEALTHY"
    <3>1. row # None /\ row.key = k
      BY DEF Gate, Health
    <3>2. row \in Write
      BY <3>1 DEF TypeOK
    <3>3. ~(row.age > StaleAfter)
      BY <3>1, <3>2 DEF Gate, Health, Write
    <3> QED
      BY <3>1, <3>2, <3>3, WatchAssumption DEF Gate, Health, Write, Ages
  <2>2. heard[k] <= row.age /\ heard[k] \in Int /\ row.age \in Int /\ StaleAfter \in Int
    BY <2>1, WatchAssumption DEF Honest, Bears, TypeOK, Write, Ages
  <2> QED
    BY <2>1, <2>2
<1> QED
  BY <1>1, InitTyped, NextTyped, InitHonest, HonestStep, PTL DEF Spec
=============================================================================
