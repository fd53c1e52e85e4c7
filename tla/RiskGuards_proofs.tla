-------------------------- MODULE RiskGuards_proofs --------------------------
(***************************************************************************)
(* Theorems about RiskGuards, for any number of overlapping runs and       *)
(* requests and days of any length: types, and the two safety properties.  *)
(***************************************************************************)
EXTENDS RiskGuards, TLAPS

LEMMA DayFacts ==
    ASSUME NEW t \in Nat
    PROVE  /\ Day(t) \in Nat
           /\ EndOfDay(t) \in Nat /\ t <= EndOfDay(t) /\ EndOfDay(t) < t + DayLength
BY TimeAssumption DEF Day, EndOfDay

LEMMA DayTyped == \A u \in Int : Day(u) \in Int
BY TimeAssumption DEF Day

LEMMA NextDay ==
    ASSUME NEW t \in Nat
    PROVE  \/ Day(t + 1) = Day(t) /\ EndOfDay(t + 1) = EndOfDay(t)
           \/ Day(t + 1) > Day(t) /\ EndOfDay(t + 1) > EndOfDay(t)
BY TimeAssumption, Z3 DEF Day, EndOfDay

\* The end of a day that is not over may be written in every column.
LEMMA NowFacts ==
    ASSUME TypeOK
    PROVE  /\ now \in Nat /\ Today \in Days /\ Today \in Nat
           /\ EndOfDay(now) \in Nat /\ EndOfDay(now) \in EndTicks /\ now <= EndOfDay(now)
BY DayFacts, TimeAssumption DEF TypeOK, Ticks, Today, Days, EndTicks

Moving == {"Update", "Insert", "Mark", "Send"}

\* What an actor that moves on has in its hands.
LEMMA ActorFacts ==
    ASSUME TypeOK, NEW a \in Actors
    PROVE  /\ actor[a].at \in Moving => /\ actor[a].key \in Keys /\ actor[a].lock \in Lock
                                        /\ \A pc \in Moving : [actor[a] EXCEPT !.at = pc] \in Actor
           /\ actor[a].at = "Upsert" => actor[a].seen \in Reading
           /\ \A x \in Actor : [actor EXCEPT ![a] = x] \in [Actors -> Actor]
<1>1. actor[a] \in Actor /\ actor \in [Actors -> Actor]
  BY DEF TypeOK
<1>2. ASSUME actor[a].at \in Moving
      PROVE  /\ actor[a] \in [at : Moving, key : Keys, lock : Lock]
             /\ \A pc \in Moving : [actor[a] EXCEPT !.at = pc] \in Actor
  BY <1>1, <1>2 DEF Actor, Moving, Resting
<1>3. actor[a].at = "Upsert" => actor[a] \in [at : {"Upsert"}, seen : Reading]
  BY <1>1 DEF Actor, Resting
<1> QED
  BY <1>1, <1>2, <1>3

\* The effects an action may have on the program counters.
LEMMA GotoTyped ==
    ASSUME TypeOK, NEW a \in Actors, actor[a].at \in Moving, NEW pc \in Moving, Goto(a, pc)
    PROVE  actor' \in [Actors -> Actor]
BY ActorFacts DEF Goto, TypeOK

LEMMA EndsTyped ==
    ASSUME TypeOK, NEW a \in Actors, Ends(a)
    PROVE  actor' \in [Actors -> Actor]
<1>1. [at |-> IF a \in Guards THEN "Idle" ELSE "Done"] \in Actor
  BY DEF Actor, Resting
<1> QED
  BY <1>1, ActorFacts DEF Ends

LEMMA ActivatesTyped ==
    ASSUME TypeOK, NEW a \in Actors, NEW k \in Keys, NEW reason \in Reasons, NEW until \in EndTicks,
           Activates(a, k, reason, until)
    PROVE  actor' \in [Actors -> Actor]
<1>1. [at |-> "Update", key |-> k, lock |-> [reason |-> reason, until |-> until]] \in Actor
  BY DEF Actor, Lock
<1> QED
  BY <1>1, ActorFacts DEF Activates

LEMMA ActivatedTyped ==
    ASSUME TypeOK, NEW a \in Actors, actor[a].at \in Moving, Activated(a)
    PROVE  actor' \in [Actors -> Actor]
BY GotoTyped, EndsTyped DEF Activated, Moving

LEMMA KeyFacts == Emergency \in Keys /\ ProfitLock \in Keys
BY ScopesAssumption DEF Emergency, ProfitLock, Keys, LockTypes

LEMMA LockFacts == \A l \in Lock : l # None
BY DEF Lock, None

LEMMA SnapshotTyped ==
    ASSUME TypeOK, NEW equity \in Nat
    PROVE  Snapshot(equity) \in Row
BY NowFacts DEF Snapshot, FirstSnapshot, TypeOK, Row, Until, Healths

LEMMA RiskLockedTyped == \A row \in Row, until \in EndTicks : RiskLocked(row, until) \in Row
BY DEF RiskLocked, Row, Healths, Until

LEMMA ProfitLockedTyped == \A row \in Row, until \in EndTicks : ProfitLocked(row, until) \in Row
BY DEF ProfitLocked, Row, Healths, Until

LEMMA UnexpiredTyped ==
    ASSUME TypeOK
    PROVE  Unexpired \in [Keys -> Lock \union {None}]
BY DEF Unexpired, TypeOK

LEMMA SendsTyped ==
    ASSUME TypeOK, NEW A \in SUBSET Actors
    PROVE  SendsLost(A) \in SUBSET Int
<1>1. \A a \in A : actor[a].at = "Send" => Day(actor[a].lock.until) \in Int
  <2>1. EndTicks \subseteq Int
    BY TimeAssumption DEF EndTicks
  <2> QED
    BY <2>1, ActorFacts, DayTyped DEF Moving, Lock
<1> QED
  BY <1>1 DEF SendsLost

LEMMA InitTyped == Init => TypeOK
BY TimeAssumption, GuardFaultsAssumption, DayFacts DEF Init, TypeOK, Ticks, Actor, Resting, Lock, Row

LEMMA NextTyped == TypeOK /\ [Next]_vars => TypeOK'
<1> SUFFICES ASSUME TypeOK, [Next]_vars PROVE TypeOK'
  OBVIOUS
<1> USE NowFacts, ActorFacts
<1> USE DEF history
<1>1. ASSUME NEW g \in Guards, ReadBalance(g) \/ ReadProfit(g)
      PROVE  TypeOK'
  <2>1. [at |-> "Upsert", seen |-> account] \in Actor
    BY DEF TypeOK, Actor
  <2> QED
    BY <1>1, <2>1 DEF ReadBalance, ReadProfit, TypeOK, Actors
<1>2. ASSUME NEW g \in Guards, UpsertDrawdown(g)
      PROVE  TypeOK'
  <2>1. g \in Actors /\ actor[g].seen.equity \in Nat
    BY <1>2, LevelsAssumption DEF UpsertDrawdown, Actors, Reading
  <2>2. stats' \in [Days -> Row \union {None}]
    BY <1>2, <2>1, SnapshotTyped DEF UpsertDrawdown, TypeOK
  <2>3. actor' \in [Actors -> Actor]
    <3>1. [at |-> "Trigger"] \in Actor
      BY DEF Actor
    <3> QED
      BY <1>2, <2>1, <3>1, EndsTyped DEF UpsertDrawdown
  <2> QED
    BY <1>2, <2>2, <2>3 DEF UpsertDrawdown, TypeOK
<1>3. ASSUME NEW g \in Guards, UpsertProfit(g)
      PROVE  TypeOK'
  <2>1. g \in Actors /\ actor[g].seen.equity \in Nat
    BY <1>3, LevelsAssumption DEF UpsertProfit, Actors, Reading
  <2>2. stats' \in [Days -> Row \union {None}]
    BY <1>3, <2>1, SnapshotTyped DEF UpsertProfit, TypeOK
  <2>3. actor' \in [Actors -> Actor]
    BY <1>3, <2>1, EndsTyped, ActivatesTyped, KeyFacts DEF UpsertProfit, Reasons
  <2> QED
    BY <1>3, <2>2, <2>3 DEF UpsertProfit, TypeOK
<1>4. ASSUME NEW g \in Guards, Trigger(g)
      PROVE  TypeOK'
  BY <1>4, ActivatesTyped, KeyFacts DEF Trigger, TypeOK, Actors, Reasons
<1>5. ASSUME NEW a \in Actors, UpdateLock(a)
      PROVE  TypeOK'
  <2>1. actor[a].key \in Keys /\ actor[a].lock \in Lock
    BY <1>5 DEF UpdateLock, Moving
  <2>2. locks' \in [Keys -> Lock \union {None}]
    BY <1>5, <2>1, UnexpiredTyped DEF UpdateLock
  <2>3. actor' \in [Actors -> Actor]
    BY <1>5, GotoTyped, ActivatedTyped DEF UpdateLock, Moving
  <2> QED
    BY <1>5, <2>2, <2>3 DEF UpdateLock, TypeOK
<1>6. ASSUME NEW a \in Actors, InsertLock(a)
      PROVE  TypeOK'
  <2>1. actor[a].key \in Keys /\ actor[a].lock \in Lock
    BY <1>6 DEF InsertLock, Moving
  <2>2. locks' \in [Keys -> Lock \union {None}]
    BY <1>6, <2>1 DEF InsertLock, TypeOK
  <2>3. actor' \in [Actors -> Actor]
    BY <1>6, EndsTyped, ActivatedTyped DEF InsertLock, Moving
  <2> QED
    BY <1>6, <2>2, <2>3 DEF InsertLock, TypeOK
<1>7. ASSUME NEW g \in Guards, MarkRisk(g)
      PROVE  TypeOK'
  <2>1. g \in Actors /\ actor[g].at \in Moving /\ actor[g].lock \in Lock
    BY <1>7 DEF MarkRisk, Moving, Actors
  <2>2. stats' \in [Days -> Row \union {None}]
    BY <1>7, <2>1, RiskLockedTyped DEF MarkRisk, TypeOK, Lock
  <2>3. actor' \in [Actors -> Actor]
    BY <1>7, <2>1, GotoTyped, EndsTyped DEF MarkRisk, Moving
  <2>4. disarmed' \in SUBSET Int
    BY <1>7 DEF MarkRisk, TypeOK
  <2> QED
    BY <1>7, <2>2, <2>3, <2>4 DEF MarkRisk, TypeOK
<1>8. ASSUME NEW g \in Guards, MarkProfit(g)
      PROVE  TypeOK'
  <2>1. g \in Actors /\ actor[g].at \in Moving /\ actor[g].lock \in Lock
    BY <1>8 DEF MarkProfit, Moving, Actors
  <2>2. stats' \in [Days -> Row \union {None}]
    BY <1>8, <2>1, ProfitLockedTyped DEF MarkProfit, TypeOK, Lock
  <2>3. actor' \in [Actors -> Actor]
    BY <1>8, <2>1, EndsTyped DEF MarkProfit
  <2> QED
    BY <1>8, <2>2, <2>3 DEF MarkProfit, TypeOK
<1>9. ASSUME NEW g \in Guards, SendHalt(g)
      PROVE  TypeOK'
  <2>1. g \in Actors /\ actor[g].at \in Moving /\ actor[g].lock \in Lock
    BY <1>9 DEF SendHalt, Moving, Actors
  <2>2. Day(actor[g].lock.until) \in Int
    <3>1. EndTicks \subseteq Int
      BY TimeAssumption DEF EndTicks
    <3> QED
      BY <2>1, <3>1, DayTyped DEF Lock
  <2> QED
    BY <1>9, <2>1, <2>2, EndsTyped DEF SendHalt, TypeOK
<1>10. ASSUME NEW r \in Requests, ManualLock(r) \/ KillSwitch(r)
       PROVE  TypeOK'
  <2>1. r \in Actors /\ Ticks \union {EndOfDay(now)} \subseteq EndTicks
    BY TimeAssumption DEF Actors, Ticks, EndTicks
  <2>2. actor' \in [Actors -> Actor]
    BY <1>10, <2>1, ActivatesTyped, KeyFacts DEF ManualLock, KillSwitch, Reasons
  <2> QED
    BY <1>10, <2>2 DEF ManualLock, KillSwitch, TypeOK
<1>11. ASSUME NEW a \in Actors, Fail(a)
       PROVE  TypeOK'
  <2>1. disarmed' \in SUBSET Int
    BY <1>11, SendsTyped DEF Fail, TypeOK
  <2>2. budget' \in 0..MaxFaults
    BY <1>11, GuardFaultsAssumption DEF Fail, Spend, TypeOK
  <2> QED
    BY <1>11, <2>1, <2>2, EndsTyped DEF Fail, TypeOK
<1>12. ASSUME ReleaseLock \/ ReleaseExpired
       PROVE  TypeOK'
  BY <1>12, UnexpiredTyped DEF ReleaseLock, ReleaseById, ReleaseExpired, TypeOK
<1>13. ASSUME Crash
       PROVE  TypeOK'
  <2>1. disarmed' \in SUBSET Int
    BY <1>13, SendsTyped DEF Crash, TypeOK
  <2>3. budget' \in 0..MaxFaults
    BY <1>13, GuardFaultsAssumption DEF Crash, Spend, TypeOK
  <2>2. actor' \in [Actors -> Actor]
    <3>1. \A a \in Actors : [at |-> IF actor[a].at \in Resting THEN actor[a].at
                                   ELSE IF a \in Guards THEN "Idle" ELSE "Done"] \in Actor
      BY DEF Actor, Resting
    <3> QED
      BY <1>13, <3>1 DEF Crash
  <2> QED
    BY <1>13, <2>1, <2>2, <2>3 DEF Crash, TypeOK
<1>14. ASSUME Tick \/ AccountMoves
       PROVE  TypeOK'
  BY <1>14, TimeAssumption DEF Tick, AccountMoves, TypeOK, Ticks
<1>15. CASE UNCHANGED vars
  BY <1>15 DEF vars, TypeOK
<1> QED
  BY <1>1, <1>2, <1>3, <1>4, <1>5, <1>6, <1>7, <1>8, <1>9, <1>10, <1>11, <1>12, <1>13, <1>14, <1>15
     DEF Next, GuardStep, RequestStep, Actors

\* Every state the two agents, the operator and time can lead to is well typed.
THEOREM TypeCorrect == Spec => []TypeOK
BY InitTyped, NextTyped, PTL DEF Spec
(***************************************************************************)
(* The two safety properties.                                              *)
(***************************************************************************)
Stands == locks[Emergency] # None /\ locks[Emergency].until >= EndOfDay(now)

\* No row is written for a day to come.
NoFutureRow == \A d \in Days : d > Today => stats[d] = None
\* A run of Agent 4 holds the emergency lock in its hands, until the end of a day that is not over yet or past.
HoldsEmergency ==
    \A g \in DrawdownRuns : actor[g].at \in Moving => actor[g].key = Emergency /\ actor[g].lock.until <= EndOfDay(now)
\* Whoever is about to mark the row of today has activated the lock that the mark speaks of.
MarkStands ==
    \A g \in DrawdownRuns :
        (actor[g].at = "Mark" /\ actor[g].lock.until = EndOfDay(now) /\ Today \notin weakened) => Stands

Safe == /\ NoFutureRow /\ HoldsEmergency /\ MarkStands
        /\ EmergencyLockStands /\ EmergencyOutranksProfit

LEMMA InitSafe == Init => Safe
<1> SUFFICES ASSUME Init PROVE Safe
  OBVIOUS
<1>1. Today \in Days
  BY InitTyped, NowFacts
<1>2. stats[Today] = None /\ \A d \in Days : stats[d] = None
  BY <1>1 DEF Init
<1>3. \A g \in DrawdownRuns : actor[g].at = "Idle"
  BY DEF Init, Actors, Guards
<1> QED
  BY <1>2, <1>3 DEF Safe, NoFutureRow, HoldsEmergency, MarkStands, EmergencyLockStands, EmergencyOutranksProfit, Moving

\* EmergencyOutranksProfit: only the two marks write these columns.
LEMMA OutranksStep == TypeOK /\ EmergencyOutranksProfit /\ [Next]_vars => EmergencyOutranksProfit'
<1> SUFFICES ASSUME TypeOK, EmergencyOutranksProfit, [Next]_vars PROVE EmergencyOutranksProfit'
  OBVIOUS
<1>1. ASSUME NEW g \in Guards, UpsertDrawdown(g) \/ UpsertProfit(g)
      PROVE  EmergencyOutranksProfit'
  <2>1. PICK e : stats' = [stats EXCEPT ![Today] = Snapshot(e)]
    BY <1>1 DEF UpsertDrawdown, UpsertProfit
  <2>2. Today \in Days
    BY NowFacts
  <2>3. stats[Today] = None => Snapshot(e).risk = Never /\ Snapshot(e).profit = Never
    BY DEF Snapshot, FirstSnapshot
  <2>4. stats[Today] # None => Snapshot(e) = stats[Today]
    BY DEF Snapshot
  <2> QED
    BY <2>1, <2>2, <2>3, <2>4 DEF EmergencyOutranksProfit, TypeOK
<1>2. ASSUME NEW g \in Guards, MarkRisk(g)
      PROVE  EmergencyOutranksProfit'
  <2>1. g \in Actors /\ actor[g].at \in Moving
    BY <1>2 DEF MarkRisk, Moving, Actors
  <2>2. actor[g].lock.until \in EndTicks /\ Never \notin EndTicks
    BY <2>1, ActorFacts DEF Lock, EndTicks, Never
  <2>3. ASSUME stats[Today] # None
        PROVE  EmergencyOutranksProfit'
    <3>1. stats' = [stats EXCEPT ![Today] = RiskLocked(stats[Today], actor[g].lock.until)] /\ stats[Today] \in Row
      BY <1>2, <2>3, NowFacts DEF MarkRisk, TypeOK
    <3> QED
      BY <3>1, <2>2, NowFacts DEF EmergencyOutranksProfit, TypeOK, RiskLocked, Row
  <2> QED
    BY <1>2, <2>3 DEF MarkRisk, EmergencyOutranksProfit
<1>3. ASSUME NEW g \in Guards, MarkProfit(g)
      PROVE  EmergencyOutranksProfit'
  <2>1. ASSUME stats[Today] # None
        PROVE  EmergencyOutranksProfit'
    <3>1. stats' = [stats EXCEPT ![Today] = ProfitLocked(stats[Today], actor[g].lock.until)] /\ stats[Today] \in Row
      BY <1>3, <2>1, NowFacts DEF MarkProfit, TypeOK
    <3> QED
      BY <3>1, NowFacts DEF EmergencyOutranksProfit, TypeOK, ProfitLocked, Row
  <2> QED
    BY <1>3, <2>1 DEF MarkProfit, EmergencyOutranksProfit
<1>4. ASSUME UNCHANGED stats
      PROVE  EmergencyOutranksProfit'
  BY <1>4 DEF EmergencyOutranksProfit
<1> QED
  BY <1>1, <1>2, <1>3, <1>4
     DEF Next, GuardStep, RequestStep, ReadBalance, ReadProfit, Trigger, UpdateLock, InsertLock, SendHalt, ManualLock,
         KillSwitch, Fail, ReleaseLock, ReleaseExpired, Crash, Tick, AccountMoves, vars

\* A lock that stands until the end of the day goes only when the day is noted as weakened.
LEMMA StandsStep ==
    ASSUME TypeOK, (\E a \in Actors : UpdateLock(a) \/ InsertLock(a)) \/ ReleaseLock \/ ReleaseExpired,
           Stands, Today \notin weakened'
    PROVE  Stands'
<1>1. ASSUME NEW a \in Actors, UpdateLock(a)
      PROVE  Stands'
  <2>1. actor[a].key \in Keys /\ actor[a].lock \in Lock /\ actor[a].lock.until \in EndTicks
    BY <1>1, ActorFacts DEF UpdateLock, Moving, Lock
  <2>2. Unexpired[Emergency] = locks[Emergency]
    BY NowFacts, KeyFacts DEF Unexpired, Stands, TypeOK, Lock, EndTicks
  <2>3. CASE Unexpired[actor[a].key] = None
    BY <1>1, <2>2, <2>3 DEF UpdateLock, Stands
  <2>4. CASE Unexpired[actor[a].key] # None /\ actor[a].key # Emergency
    <3>1. locks'[Emergency] = locks[Emergency]
      BY <1>1, <2>1, <2>2, <2>4, UnexpiredTyped, KeyFacts DEF UpdateLock
    <3> QED
      BY <1>1, <3>1 DEF UpdateLock, Stands
  <2>5. CASE Unexpired[actor[a].key] # None /\ actor[a].key = Emergency
    <3>0. locks' = [Unexpired EXCEPT ![Emergency] = actor[a].lock]
      BY <1>1, <2>5 DEF UpdateLock
    <3>1. locks'[Emergency] = actor[a].lock /\ actor[a].lock # None
      BY <2>1, <3>0, UnexpiredTyped, KeyFacts, LockFacts
    <3>2. ~Weakens(Emergency, actor[a].lock.until)
      BY <1>1, <2>5, NowFacts DEF UpdateLock
    <3>3. locks[Emergency].until \in Int /\ actor[a].lock.until \in Int /\ EndOfDay(now) \in Int
      <4>1. locks[Emergency] \in Lock
        BY KeyFacts DEF Stands, TypeOK
      <4> QED
        BY <2>1, <4>1, NowFacts, TimeAssumption DEF Lock, EndTicks
    <3>4. actor[a].lock.until >= EndOfDay(now)
      BY <3>2, <3>3 DEF Weakens, Stands
    <3> QED
      BY <1>1, <3>1, <3>4 DEF UpdateLock, Stands
  <2> QED
    BY <2>3, <2>4, <2>5
<1>2. ASSUME NEW a \in Actors, InsertLock(a)
      PROVE  Stands'
  BY <1>2, KeyFacts DEF InsertLock, Stands, TypeOK
<1>3. CASE ReleaseLock
  BY <1>3, KeyFacts, NowFacts DEF ReleaseLock, ReleaseById, Stands, Weakens, Never, TypeOK, Lock, EndTicks
<1>4. CASE ReleaseExpired
  BY <1>4, KeyFacts, NowFacts DEF ReleaseExpired, Unexpired, Stands, TypeOK, Lock, EndTicks
<1> QED
  BY <1>1, <1>2, <1>3, <1>4

\* What one step does to a run of Agent 4 that has a lock in its hands afterwards.
LEMMA RunStep ==
    ASSUME TypeOK, [Next]_vars, NEW g \in DrawdownRuns, actor'[g].at \in Moving
    PROVE  \/ Trigger(g)
           \/ /\ actor[g].at \in Moving /\ actor'[g].key = actor[g].key /\ actor'[g].lock = actor[g].lock
              /\ actor'[g].at = "Mark" => actor'[g] = actor[g] \/ UpdateLock(g) \/ InsertLock(g)
<1>0. g \in Guards /\ g \in Actors /\ g \notin ProfitRuns /\ g \notin Requests
  BY ActorsAssumption DEF Guards, Actors
<1>1. actor \in [Actors -> Actor]
  BY DEF TypeOK
<1>2. CASE actor' = actor
  BY <1>2
<1>3. ASSUME NEW a \in Actors, a # g, NEW x, actor' = [actor EXCEPT ![a] = x]
      PROVE  actor'[g] = actor[g]
  BY <1>0, <1>1, <1>3
<1>4. ASSUME Ends(g)
      PROVE  FALSE
  BY <1>0, <1>1, <1>4 DEF Ends, Moving
<1>5. ASSUME NEW pc, Goto(g, pc)
      PROVE  actor'[g].at = pc /\ actor'[g].key = actor[g].key /\ actor'[g].lock = actor[g].lock
  BY <1>0, <1>1, <1>5 DEF Goto
<1>6. ASSUME NEW a \in Actors, a # g, GuardStep(a) \/ RequestStep(a) \/ ManualLock(a) \/ KillSwitch(a) \/ Fail(a)
      PROVE  actor'[g] = actor[g]
  <2>1. \E x : actor' = [actor EXCEPT ![a] = x]
    BY <1>6 DEF GuardStep, RequestStep, ManualLock, KillSwitch, Fail, ReadBalance, ReadProfit, UpsertDrawdown, UpsertProfit,
            Trigger, UpdateLock, InsertLock, MarkRisk, MarkProfit, SendHalt, Activated, Activates, Ends, Goto
  <2> QED
    BY <1>3, <1>6, <2>1
<1>7. CASE UpdateLock(g) \/ InsertLock(g)
  BY <1>0, <1>4, <1>5, <1>7 DEF UpdateLock, InsertLock, Activated, Moving
<1>8. CASE MarkRisk(g)
  BY <1>4, <1>5, <1>8 DEF MarkRisk, Moving
<1>9. ASSUME ReadBalance(g) \/ UpsertDrawdown(g)
      PROVE  FALSE
  BY <1>0, <1>1, <1>4, <1>9 DEF ReadBalance, UpsertDrawdown, Moving
<1>10. ASSUME ReadProfit(g) \/ UpsertProfit(g) \/ MarkProfit(g) \/ SendHalt(g) \/ Fail(g)
       PROVE  FALSE
  BY <1>0, <1>4, <1>10 DEF ReadProfit, UpsertProfit, MarkProfit, SendHalt, Fail
<1>11. CASE Crash
  BY <1>0, <1>11 DEF Crash, Moving, Resting
<1>12. CASE ReleaseLock \/ ReleaseExpired \/ Tick \/ AccountMoves \/ UNCHANGED vars
  BY <1>2, <1>12 DEF ReleaseLock, ReleaseExpired, Tick, AccountMoves, vars
<1>13. CASE \E a \in Actors : a # g /\ (GuardStep(a) \/ RequestStep(a) \/ ManualLock(a) \/ KillSwitch(a) \/ Fail(a))
  <2>1. actor'[g] = actor[g]
    BY <1>6, <1>13
  <2> QED
    BY <2>1
<1>14. CASE GuardStep(g) \/ Fail(g)
  BY <1>7, <1>8, <1>9, <1>10, <1>14 DEF GuardStep
<1> QED
  BY <1>0, <1>11, <1>12, <1>13, <1>14 DEF Next, Actors

\* Time never runs back, the history of weakened days grows, and a new day begins without a row.
LEMMA TimeStep ==
    ASSUME TypeOK, [Next]_vars
    PROVE  /\ weakened \subseteq weakened'
           /\ \/ now' = now
              \/ Tick /\ Today' = Today /\ EndOfDay(now') = EndOfDay(now)
              \/ Tick /\ Today' > Today /\ EndOfDay(now') > EndOfDay(now)
<1>1. weakened \subseteq weakened'
  BY DEF Next, GuardStep, RequestStep, ReadBalance, ReadProfit, UpsertDrawdown, UpsertProfit, Trigger, UpdateLock, InsertLock,
         MarkRisk, MarkProfit, SendHalt, ManualLock, KillSwitch, Fail, ReleaseLock, ReleaseExpired, Crash, Tick, AccountMoves, vars, history
<1>2. now' = now \/ Tick
  BY DEF Next, GuardStep, RequestStep, ReadBalance, ReadProfit, UpsertDrawdown, UpsertProfit, Trigger, UpdateLock, InsertLock,
         MarkRisk, MarkProfit, SendHalt, ManualLock, KillSwitch, Fail, ReleaseLock, ReleaseExpired, Crash, AccountMoves, vars
<1>3. CASE Tick
  <2>1. now' = now + 1 /\ now \in Nat
    BY <1>3, NowFacts DEF Tick
  <2> QED
    BY <1>1, <1>3, <2>1, NextDay DEF Today
<1> QED
  BY <1>1, <1>2, <1>3

\* HoldsEmergency: the lock is made when the run is triggered and never changes afterwards.
LEMMA HoldsStep == TypeOK /\ HoldsEmergency /\ [Next]_vars => HoldsEmergency'
<1> SUFFICES ASSUME TypeOK, HoldsEmergency, [Next]_vars, NEW g \in DrawdownRuns, actor'[g].at \in Moving
             PROVE  actor'[g].key = Emergency /\ actor'[g].lock.until <= EndOfDay(now')
  BY DEF HoldsEmergency
<1>1. g \in Actors /\ TypeOK'
  BY NextTyped DEF Actors, Guards
<1>2. EndOfDay(now) <= EndOfDay(now') /\ EndOfDay(now) \in Int /\ EndOfDay(now') \in Int
  <2>1. EndOfDay(now) \in Nat
    BY NowFacts
  <2>2. (EndOfDay(now) \in Nat)'
    BY <1>1, NowFacts, PTL
  <2> QED
    BY <2>1, <2>2, TimeStep
<1>3. CASE Trigger(g)
  <2>1. actor \in [Actors -> Actor]
    BY DEF TypeOK
  <2> QED
    BY <1>1, <1>2, <1>3, <2>1 DEF Trigger, Activates
<1>4. CASE actor[g].at \in Moving /\ actor'[g].key = actor[g].key /\ actor'[g].lock = actor[g].lock
  <2>1. actor[g].lock.until \in Int
    BY <1>1, <1>4, ActorFacts, TimeAssumption DEF Lock, EndTicks
  <2> QED
    BY <1>2, <1>4, <2>1 DEF HoldsEmergency
<1> QED
  BY <1>3, <1>4, RunStep

\* NoFutureRow: the rows are written for the day it is.
LEMMA FutureStep == TypeOK /\ NoFutureRow /\ [Next]_vars => NoFutureRow'
<1> SUFFICES ASSUME TypeOK, NoFutureRow, [Next]_vars, NEW d \in Days, d > Today'
             PROVE  stats'[d] = None
  BY DEF NoFutureRow
<1>1. d \in Int /\ Today \in Int /\ Today' \in Int
  <2>1. d \in Int
    BY DayTyped DEF Days, Ticks
  <2>2. Today' \in Int
    BY NextTyped, DayTyped DEF Today, TypeOK, Ticks
  <2> QED
    BY <2>1, <2>2, NowFacts
<1>2. d > Today
  <2>1. Today' = Today \/ Today' > Today
    BY TimeStep DEF Today
  <2> QED
    BY <1>1, <2>1
<1>3. stats'[d] = stats[d]
  <2>1. stats' = stats \/ \E row : stats' = [stats EXCEPT ![Today] = row]
    BY DEF Next, GuardStep, RequestStep, ReadBalance, ReadProfit, UpsertDrawdown, UpsertProfit, Trigger, UpdateLock, InsertLock,
           MarkRisk, MarkProfit, SendHalt, ManualLock, KillSwitch, Fail, ReleaseLock, ReleaseExpired, Crash, Tick, AccountMoves, vars
  <2> QED
    BY <1>1, <1>2, <2>1 DEF TypeOK
<1> QED
  BY <1>2, <1>3 DEF NoFutureRow

\* A lock step that lets an emergency lock stand, and what any other step leaves alone.
LEMMA OtherStep ==
    ASSUME TypeOK, [Next]_vars
    PROVE  \/ \E a \in Actors : UpdateLock(a) \/ InsertLock(a)
           \/ ReleaseLock \/ ReleaseExpired
           \/ Tick
           \/ UNCHANGED <<now, locks, weakened>>
BY DEF Next, GuardStep, RequestStep, ReadBalance, ReadProfit, UpsertDrawdown, UpsertProfit, Trigger,
       MarkRisk, MarkProfit, SendHalt, ManualLock, KillSwitch, Fail, Crash, AccountMoves, vars, history, Actors

\* While it stays the same day, a lock that stands keeps standing, or the day is noted.
LEMMA StillStands ==
    ASSUME TypeOK, [Next]_vars, Stands, Today' = Today, EndOfDay(now') = EndOfDay(now), Today' \notin weakened'
    PROVE  Stands'
<1>1. CASE (\E a \in Actors : UpdateLock(a) \/ InsertLock(a)) \/ ReleaseLock \/ ReleaseExpired
  BY <1>1, StandsStep
<1>2. CASE Tick \/ UNCHANGED <<now, locks, weakened>>
  BY <1>2 DEF Tick, Stands
<1> QED
  BY <1>1, <1>2, OtherStep

LEMMA MarkStep == TypeOK /\ HoldsEmergency /\ MarkStands /\ [Next]_vars => MarkStands'
<1> SUFFICES ASSUME TypeOK, HoldsEmergency, MarkStands, [Next]_vars, NEW g \in DrawdownRuns,
                    actor'[g].at = "Mark", actor'[g].lock.until = EndOfDay(now'), Today' \notin weakened'
             PROVE  Stands'
  BY DEF MarkStands
<1>1. g \in Actors /\ actor[g].at \in Moving /\ actor'[g].lock = actor[g].lock
      /\ (actor'[g] = actor[g] \/ UpdateLock(g) \/ InsertLock(g))
  <2>1. g \in Actors
    BY DEF Actors, Guards
  <2>2. ~Trigger(g)
    BY <2>1, ActorFacts DEF Trigger, Activates, TypeOK
  <2> QED
    BY <2>1, <2>2, RunStep DEF Moving
<1>2. actor[g].key = Emergency /\ actor[g].lock \in Lock /\ actor[g].lock.until <= EndOfDay(now) /\ actor[g].lock.until \in Int
  BY <1>1, ActorFacts, TimeAssumption DEF HoldsEmergency, Lock, EndTicks
<1>3. Today' = Today /\ EndOfDay(now') = EndOfDay(now)
  <2>1. EndOfDay(now) \in Int /\ (EndOfDay(now))' \in Int
    <3>1. EndOfDay(now) \in Nat
      BY NowFacts
    <3>2. (EndOfDay(now) \in Nat)'
      BY NextTyped, NowFacts, PTL
    <3> QED
      BY <3>1, <3>2
  <2> QED
    BY <1>1, <1>2, <2>1, TimeStep DEF Today
<1>4. CASE actor'[g] = actor[g]
  <2>1. Stands
    BY <1>3, <1>4, TimeStep DEF MarkStands
  <2> QED
    BY <1>3, <2>1, StillStands
<1>5. CASE UpdateLock(g) /\ Unexpired[Emergency] # None
  <2>1. locks' = [Unexpired EXCEPT ![Emergency] = actor[g].lock]
    BY <1>2, <1>5 DEF UpdateLock
  <2>2. locks'[Emergency] = actor[g].lock
    BY <2>1, UnexpiredTyped, KeyFacts
  <2>3. actor[g].lock.until = EndOfDay(now')
    BY <1>1
  <2> QED
    <3>1. locks'[Emergency] # None
      BY <1>2, <2>2, LockFacts
    <3>2. locks'[Emergency].until = EndOfDay(now') /\ EndOfDay(now') \in Int
      BY <1>2, <1>3, <2>2, <2>3, NowFacts
    <3> QED
      BY <3>1, <3>2 DEF Stands
<1>6. CASE UpdateLock(g) /\ Unexpired[Emergency] = None
  <2>1. Goto(g, "Insert")
    BY <1>2, <1>6 DEF UpdateLock
  <2>2. actor'[g].at = "Insert"
    BY <1>1, <2>1 DEF Goto, TypeOK
  <2> QED
    BY <2>2
<1>7. CASE InsertLock(g)
  <2>1. CASE locks[Emergency] = None
    BY <1>1, <1>2, <1>3, <1>7, <2>1, KeyFacts, LockFacts DEF InsertLock, Stands, TypeOK
  <2>2. CASE locks[Emergency] # None
    BY <1>1, <1>2, <1>7, <2>2, ActorFacts DEF InsertLock, Ends, TypeOK
  <2> QED
    BY <2>1, <2>2
<1> QED
  BY <1>1, <1>4, <1>5, <1>6, <1>7

\* EmergencyLockStands: the mark is written while the lock stands; a new day has no row.
LEMMA LockStep ==
    ASSUME TypeOK, NoFutureRow, MarkStands, EmergencyLockStands, [Next]_vars
    PROVE  EmergencyLockStands'
<1> SUFFICES ASSUME stats'[Today'] # None, stats'[Today'].risk = EndOfDay(now'), Today' \notin weakened'
             PROVE  Stands'
  BY DEF EmergencyLockStands, Stands, Today
<1>1. CASE Tick /\ Today' > Today
  <2>1. Today' \in Days
    BY NextTyped DEF TypeOK, Days, Today
  <2> QED
    BY <1>1, <2>1 DEF Tick, NoFutureRow
<1>2. CASE Today' = Today /\ EndOfDay(now') = EndOfDay(now)
  <2>1. Today \in Days /\ EndOfDay(now) \in Nat
    BY NowFacts
  <2>2. Today \notin weakened
    BY <1>2, TimeStep
  <2>3. CASE stats' = stats
    BY <1>2, <2>2, <2>3, StillStands DEF EmergencyLockStands, Stands
  <2>4. ASSUME NEW g \in Guards, UpsertDrawdown(g) \/ UpsertProfit(g)
        PROVE  Stands'
    <3>1. PICK e : stats' = [stats EXCEPT ![Today] = Snapshot(e)]
      BY <2>4 DEF UpsertDrawdown, UpsertProfit
    <3>2. stats[Today] # None /\ stats[Today].risk = EndOfDay(now)
      BY <1>2, <2>1, <3>1 DEF Snapshot, FirstSnapshot, TypeOK, Never
    <3> QED
      BY <1>2, <2>2, <3>2, StillStands DEF EmergencyLockStands, Stands
  <2>5. ASSUME NEW g \in Guards, MarkRisk(g), stats[Today] # None
        PROVE  Stands'
    <3>1. stats' = [stats EXCEPT ![Today] = RiskLocked(stats[Today], actor[g].lock.until)] /\ stats[Today] \in Row
      BY <2>1, <2>5 DEF MarkRisk, TypeOK
    <3>2. actor[g].lock.until = EndOfDay(now)
      BY <1>2, <2>1, <3>1 DEF RiskLocked, TypeOK, Row
    <3> QED
      BY <1>2, <2>2, <2>5, <3>2, StillStands DEF MarkStands, MarkRisk
  <2>6. ASSUME NEW g \in Guards, MarkProfit(g), stats[Today] # None
        PROVE  Stands'
    <3>1. stats' = [stats EXCEPT ![Today] = ProfitLocked(stats[Today], actor[g].lock.until)] /\ stats[Today] \in Row
      BY <2>1, <2>6 DEF MarkProfit, TypeOK
    <3>2. stats[Today].risk = EndOfDay(now)
      BY <1>2, <2>1, <3>1 DEF ProfitLocked, TypeOK, Row
    <3> QED
      BY <1>2, <2>2, <2>6, <3>2, StillStands DEF EmergencyLockStands, Stands
  <2>7. ASSUME stats' # stats
        PROVE  \E g \in Guards : UpsertDrawdown(g) \/ UpsertProfit(g) \/ ((MarkRisk(g) \/ MarkProfit(g)) /\ stats[Today] # None)
    BY <2>7 DEF Next, GuardStep, RequestStep, ReadBalance, ReadProfit, Trigger, UpdateLock, InsertLock,
           MarkRisk, MarkProfit, SendHalt, ManualLock, KillSwitch, Fail, ReleaseLock, ReleaseExpired, Crash, Tick, AccountMoves, vars
  <2> QED
    BY <2>3, <2>4, <2>5, <2>6, <2>7
<1> QED
  BY <1>1, <1>2, TimeStep DEF Today

LEMMA SafeStep == TypeOK /\ Safe /\ [Next]_vars => Safe'
BY OutranksStep, HoldsStep, FutureStep, MarkStep, LockStep DEF Safe

\* The parts of Safe, which relate the rows of the day, the locks and the runs, hold together in every state.
THEOREM SafeCorrect == Spec => []Safe
BY InitTyped, NextTyped, InitSafe, SafeStep, PTL DEF Spec

\* While the row of the day says that the account is locked by risk until its end, a global lock
\* stands until then, however many runs overlap and whatever the operator asks for, unless the
\* operator released or shortened the lock that day.
THEOREM EmergencyLockStandsHolds == Spec => []EmergencyLockStands
BY SafeCorrect, PTL DEF Safe

\* The profit lock never hides the emergency in a row, in whatever order the two agents mark it.
THEOREM EmergencyOutranksProfitHolds == Spec => []EmergencyOutranksProfit
BY SafeCorrect, PTL DEF Safe
=============================================================================
