------------------------------ MODULE RiskGuards ------------------------------
(***************************************************************************)
(* Agents 4 and 5, the daily risk row and the trading locks of one         *)
(* account.  The intervals do not wait for the run before them, so several *)
(* runs of one agent may be under way; the operator's routes write the     *)
(* same locks.  Time passes in ticks, a fixed number of them to a UTC day, *)
(* and may pass between any two awaits.                                    *)
(***************************************************************************)
EXTENDS Integers

CONSTANTS
    DrawdownRuns,    \* runs of Agent 4 that may overlap
    ProfitRuns,      \* runs of Agent 5
    Requests,        \* lock requests of the operator (manual lock, kill switch)
    Equities,        \* values of the account's equity, in USDT
    Profits,         \* values of the realized profit of the day
    MaxDrawdown,     \* maxDrawdownRatio, in percent
    ProfitCap,       \* profitCapRatio, in percent
    Scopes,          \* "account": account_id is set; "user": it is NULL, for all accounts
    DayLength,       \* ticks in a day
    LastTick,        \* bound: time stops here
    Faults,          \* kinds of fault that may happen
    MaxFaults        \* bound: faults in a behaviour

Guards == DrawdownRuns \union ProfitRuns
Actors == Guards \union Requests
Ticks  == 0..LastTick
Day(t) == t \div DayLength
Days   == {Day(t) : t \in Ticks}
EndOfDay(t) == DayLength * Day(t) + DayLength - 1     \* endOfUtcDay: the day's last tick
Never  == -1                                          \* NULL in a column of time

\* query: an await of a guard or a request fails; crash: the process stops.
FaultKinds == {"query", "crash"}
LockTypes  == {"GLOBAL_TRADING_LOCK", "NEW_DEALS_LOCK"}
Reasons    == {"EMERGENCY_HALT", "PROFIT_CAP_REACHED", "MANUAL_LOCK"}
Keys       == Scopes \X LockTypes                     \* trading_locks_one_active_idx
Emergency  == <<"account", "GLOBAL_TRADING_LOCK">>
ProfitLock == <<"account", "NEW_DEALS_LOCK">>
Healths    == {"NORMAL", "PROFIT_CAP_LOCK", "EMERGENCY_HALT"}
EndTicks   == 0..(LastTick + DayLength)
Until      == {Never} \union EndTicks

ASSUME ActorsAssumption ==
    /\ DrawdownRuns \intersect ProfitRuns = {}
    /\ Guards \intersect Requests = {}
ASSUME ScopesAssumption == "account" \in Scopes
ASSUME TimeAssumption == DayLength \in Nat \ {0} /\ LastTick \in Nat
ASSUME LevelsAssumption ==
    /\ Equities \subseteq Nat /\ Profits \subseteq Int
    /\ MaxDrawdown \in Nat /\ ProfitCap \in Nat
ASSUME GuardFaultsAssumption == Faults \subseteq FaultKinds /\ MaxFaults \in Nat

VARIABLES
    now,       \* the current tick
    account,   \* what the exchange says: equity and realized profit of today
    stats,     \* daily_trading_stats: one row per day, or none
    locks,     \* the active row of trading_locks for each key, or none
    actor,     \* what each run or request is doing
    halted,    \* days for which a halt message was published
    weakened,  \* history: days whose emergency lock was released or shortened
    disarmed,  \* history: days marked as locked by a run that then sent no halt for them
    budget     \* faults still allowed

vars    == <<now, account, stats, locks, actor, halted, weakened, disarmed, budget>>
history == <<weakened, disarmed>>

None   == [none |-> TRUE]
Row    == [start : Nat \ {0}, risk : Until, profit : Until, lockUntil : Until, health : Healths]
Lock   == [reason : Reasons, until : EndTicks]
Reading == [equity : Equities, profit : Profits]
Resting == {"Idle", "Done"}                           \* a request is made once
\* A run before the upsert, before it acts on a drawdown, and anybody who activates a lock.
Actor  == [at : Resting \union {"Trigger"}]
          \union [at : {"Upsert"}, seen : Reading]
          \union [at : {"Update", "Insert", "Mark", "Send"}, key : Keys, lock : Lock]

Today == Day(now)
TypeOK ==
    /\ now \in Ticks
    /\ account \in Reading
    /\ stats \in [Days -> Row \union {None}]
    /\ locks \in [Keys -> Lock \union {None}]
    /\ actor \in [Actors -> Actor]
    /\ halted \in SUBSET Int /\ weakened \in SUBSET Int /\ disarmed \in SUBSET Int
    /\ budget \in 0..MaxFaults

Init ==
    /\ now = 0
    /\ account \in Reading
    /\ stats = [d \in Days |-> None]
    /\ locks = [k \in Keys |-> None]
    /\ actor = [a \in Actors |-> [at |-> "Idle"]]
    /\ halted = {} /\ weakened = {} /\ disarmed = {}
    /\ budget = MaxFaults

\* mapDailyRiskState: the ratios, over the start of the day.
DrawdownReached(start, equity) == (start - equity) * 100 >= MaxDrawdown * start
ProfitReached(start, profit)   == profit * 100 >= ProfitCap * start

Goto(a, pc) == actor' = [actor EXCEPT ![a].at = pc]
Ends(a)     == actor' = [actor EXCEPT ![a] = [at |-> IF a \in Guards THEN "Idle" ELSE "Done"]]
Activates(a, k, reason, until) ==
    actor' = [actor EXCEPT ![a] = [at |-> "Update", key |-> k, lock |-> [reason |-> reason, until |-> until]]]

(***************************************************************************)
(* The snapshot.  getBalance is awaited before the row is written, so the  *)
(* reading may be old by then.                                             *)
(***************************************************************************)
ReadBalance(g) ==
    /\ g \in DrawdownRuns /\ actor[g].at = "Idle"
    /\ actor' = [actor EXCEPT ![g] = [at |-> "Upsert", seen |-> account]]
    /\ UNCHANGED <<now, account, stats, locks, halted, history, budget>>

\* Agent 5 prefers the profit of its own closed positions to the exchange's, and records both.
ReadProfit(g) ==
    /\ g \in ProfitRuns /\ actor[g].at = "Idle"
    /\ actor' = [actor EXCEPT ![g] = [at |-> "Upsert", seen |-> account]]
    /\ UNCHANGED <<now, account, stats, locks, halted, history, budget>>

FirstSnapshot(start) ==
    [start |-> start, risk |-> Never, profit |-> Never, lockUntil |-> Never, health |-> "NORMAL"]
\* Mutant: the latest row of the account is kept, whichever day it is of.
SnapshotOfLatest(equity) ==
    IF stats[Today] # None THEN stats[Today]
    ELSE IF Today - 1 \in Days /\ stats[Today - 1] # None THEN stats[Today - 1]
    ELSE FirstSnapshot(IF equity > 1 THEN equity ELSE 1)
\* The row the upsert leaves for a reading of the equity: the first one is the start of the day.
Snapshot(equity) ==
    IF stats[Today] # None THEN stats[Today]
    ELSE FirstSnapshot(IF equity > 1 THEN equity ELSE 1)

Armed(row) == row.risk = Never

\* upsertEquitySnapshot.  Agent 4 publishes the state before it acts on it (Trigger); Agent 5
\* computes the end of the day at once.  A lock that the row already shows is not set again.
UpsertDrawdown(g) ==
    /\ g \in DrawdownRuns /\ actor[g].at = "Upsert"
    /\ LET row == Snapshot(actor[g].seen.equity) IN
       /\ stats' = [stats EXCEPT ![Today] = row]
       /\ IF Armed(row) /\ DrawdownReached(row.start, actor[g].seen.equity)
          THEN actor' = [actor EXCEPT ![g] = [at |-> "Trigger"]]
          ELSE Ends(g)
    /\ UNCHANGED <<now, account, locks, halted, history, budget>>

UpsertProfit(g) ==
    /\ g \in ProfitRuns /\ actor[g].at = "Upsert"
    /\ LET row == Snapshot(actor[g].seen.equity) IN
       /\ stats' = [stats EXCEPT ![Today] = row]
       /\ IF row.profit = Never /\ ProfitReached(row.start, actor[g].seen.profit)
          THEN Activates(g, ProfitLock, "PROFIT_CAP_REACHED", EndOfDay(now))
          ELSE Ends(g)
    /\ UNCHANGED <<now, account, locks, halted, history, budget>>

Trigger(g) ==
    /\ actor[g].at = "Trigger"
    /\ Activates(g, Emergency, "EMERGENCY_HALT", EndOfDay(now))
    /\ UNCHANGED <<now, account, stats, locks, halted, history, budget>>

(***************************************************************************)
(* TradingLockRepository.  Every look at the locks releases the expired    *)
(* ones first.  activate overwrites an active lock whatever its reason and *)
(* end, or else inserts one; the unique index refuses a second.            *)
(***************************************************************************)
Unexpired == [k \in Keys |-> IF locks[k] # None /\ locks[k].until < now THEN None ELSE locks[k]]

\* The operator's requests: a manual lock of any kind, with an end of the operator's choice or the
\* end of the day, and the lock of the kill switch, which then closes (PositionLifecycle).
ManualLock(r) ==
    /\ actor[r].at = "Idle"
    /\ \E k \in Keys, t \in Ticks \union {EndOfDay(now)} : Activates(r, k, "MANUAL_LOCK", t)
    /\ UNCHANGED <<now, account, stats, locks, halted, history, budget>>

KillSwitch(r) ==
    /\ actor[r].at = "Idle"
    /\ Activates(r, Emergency, "MANUAL_LOCK", EndOfDay(now))
    /\ UNCHANGED <<now, account, stats, locks, halted, history, budget>>

\* After activate: a guard appends its risk event and marks the row, a request is answered.
Activated(a) == IF a \in Guards THEN Goto(a, "Mark") ELSE Ends(a)
\* The emergency lock of today ends earlier than before, or is gone.
Weakens(k, until) == k = Emergency /\ locks[k] # None /\ until < locks[k].until /\ until < EndOfDay(now)

UpdateLock(a) ==
    /\ actor[a].at = "Update"
    /\ LET k == actor[a].key IN
       IF Unexpired[k] # None
       THEN /\ locks' = [Unexpired EXCEPT ![k] = actor[a].lock]
            /\ weakened' = IF Weakens(k, actor[a].lock.until) THEN weakened \union {Today} ELSE weakened
            /\ Activated(a)
       ELSE /\ locks' = Unexpired
            /\ UNCHANGED weakened
            /\ Goto(a, "Insert")
    /\ UNCHANGED <<now, account, stats, halted, disarmed, budget>>

\* Mutant: ON CONFLICT DO NOTHING is taken for success, the lock that stands is not looked at.
InsertOrIgnore(a) ==
    /\ actor[a].at = "Insert"
    /\ locks' = IF locks[actor[a].key] = None THEN [locks EXCEPT ![actor[a].key] = actor[a].lock] ELSE locks
    /\ Activated(a)
    /\ UNCHANGED <<now, account, stats, halted, history, budget>>

\* Two activations that both found nothing: the second INSERT raises and its caller gives up.
InsertLock(a) ==
    /\ actor[a].at = "Insert"
    /\ IF locks[actor[a].key] = None
       THEN locks' = [locks EXCEPT ![actor[a].key] = actor[a].lock] /\ Activated(a)
       ELSE Ends(a) /\ UNCHANGED locks
    /\ UNCHANGED <<now, account, stats, halted, history, budget>>

ReleaseById(k) == [locks EXCEPT ![k] = None]
ReleaseLock ==
    \E k \in Keys :
       /\ locks[k] # None
       /\ locks' = ReleaseById(k)
       /\ weakened' = IF Weakens(k, Never) THEN weakened \union {Today} ELSE weakened
       /\ UNCHANGED <<now, account, stats, actor, halted, disarmed, budget>>

\* hasActiveLock and listActiveForUser, called by the executor and the console.
ReleaseExpired ==
    /\ Unexpired # locks
    /\ locks' = Unexpired
    /\ UNCHANGED <<now, account, stats, actor, halted, history, budget>>

(***************************************************************************)
(* The daily row is marked, then the halt is published.                    *)
(***************************************************************************)
\* Mutant: the profit lock does not look at the emergency.
ProfitLockedBlindly(row, until) ==
    [row EXCEPT !.profit = until, !.lockUntil = until, !.health = "PROFIT_CAP_LOCK"]

\* markRiskLocked and markProfitLocked write the row of the day it is now.
RiskLocked(row, until) == [row EXCEPT !.risk = until, !.lockUntil = until, !.health = "EMERGENCY_HALT"]
ProfitLocked(row, until) ==
    [row EXCEPT !.profit = until,
                !.lockUntil = IF row.risk # Never THEN row.risk ELSE until,
                !.health = IF row.risk # Never THEN "EMERGENCY_HALT" ELSE "PROFIT_CAP_LOCK"]

MarkRisk(g) ==
    /\ g \in DrawdownRuns /\ actor[g].at = "Mark"
    /\ IF stats[Today] = None
       THEN Ends(g) /\ UNCHANGED <<stats, disarmed>>
       ELSE /\ stats' = [stats EXCEPT ![Today] = RiskLocked(@, actor[g].lock.until)]
            /\ disarmed' = IF Day(actor[g].lock.until) # Today THEN disarmed \union {Today} ELSE disarmed
            /\ Goto(g, "Send")
    /\ UNCHANGED <<now, account, locks, halted, weakened, budget>>

MarkProfit(g) ==
    /\ g \in ProfitRuns /\ actor[g].at = "Mark"
    /\ stats' = IF stats[Today] = None THEN stats
                ELSE [stats EXCEPT ![Today] = ProfitLocked(@, actor[g].lock.until)]
    /\ Ends(g)
    /\ UNCHANGED <<now, account, locks, halted, history, budget>>

\* Lists the open positions and publishes agent.risk.halt; PositionLifecycle takes it from here.
SendHalt(g) ==
    /\ actor[g].at = "Send"
    /\ halted' = halted \union {Day(actor[g].lock.until)}
    /\ Ends(g)
    /\ UNCHANGED <<now, account, stats, locks, history, budget>>

(***************************************************************************)
(* Faults and the environment.  The catch of runOnce ends the account's    *)
(* pass; nothing that was done is undone.                                  *)
(***************************************************************************)
Spend(kind) == kind \in Faults /\ budget > 0 /\ budget' = budget - 1
SendsLost(A) == {Day(actor[a].lock.until) : a \in {b \in A : actor[b].at = "Send"}}

Fail(a) ==
    /\ actor[a].at \notin Resting
    /\ Spend("query")
    /\ disarmed' = disarmed \union SendsLost({a})
    /\ Ends(a)
    /\ UNCHANGED <<now, account, stats, locks, halted, weakened>>

Crash ==
    /\ Spend("crash")
    /\ disarmed' = disarmed \union SendsLost(Actors)
    /\ actor' = [a \in Actors |-> [at |-> IF actor[a].at \in Resting THEN actor[a].at
                                         ELSE IF a \in Guards THEN "Idle" ELSE "Done"]]
    /\ UNCHANGED <<now, account, stats, locks, halted, weakened>>

Tick ==
    /\ now < LastTick
    /\ now' = now + 1
    /\ UNCHANGED <<account, stats, locks, actor, halted, history, budget>>

AccountMoves ==
    /\ account' \in Reading /\ account' # account
    /\ UNCHANGED <<now, stats, locks, actor, halted, history, budget>>

GuardStep(g) ==
    \/ ReadBalance(g) \/ ReadProfit(g) \/ UpsertDrawdown(g) \/ UpsertProfit(g) \/ Trigger(g)
    \/ UpdateLock(g) \/ InsertLock(g)
    \/ MarkRisk(g) \/ MarkProfit(g) \/ SendHalt(g)
RequestStep(r) == UpdateLock(r) \/ InsertLock(r)

Next ==
    \/ \E g \in Guards : GuardStep(g)
    \/ \E r \in Requests : ManualLock(r) \/ KillSwitch(r) \/ RequestStep(r)
    \/ \E a \in Actors : Fail(a)
    \/ ReleaseLock \/ ReleaseExpired \/ Crash \/ Tick \/ AccountMoves

Spec == Init /\ [][Next]_vars
\* The interval starts runs again and again, the event loop runs them on.
FairSpec == Spec /\ \A g \in Guards : WF_vars(GuardStep(g))

(***************************************************************************)
(* Properties.                                                             *)
(***************************************************************************)
\* While the row of the day says "locked by risk until its end", a global trading lock stands until
\* then: two tables written in different statements, by overlapping runs and by the operator, agree,
\* unless the operator released the lock or an activation that ended earlier was written over it.
EmergencyLockStands ==
    (stats[Today] # None /\ stats[Today].risk = EndOfDay(now) /\ Today \notin weakened)
        => (locks[Emergency] # None /\ locks[Emergency].until >= EndOfDay(now))

\* The profit lock never hides the emergency, in whatever order and however often the two agents
\* mark the row: the health and the end of the lock are those of the emergency.
EmergencyOutranksProfit ==
    \A d \in Days : stats[d] # None =>
        /\ stats[d].risk # Never => stats[d].health = "EMERGENCY_HALT" /\ stats[d].lockUntil = stats[d].risk
        /\ stats[d].risk = Never /\ stats[d].profit # Never =>
               stats[d].health = "PROFIT_CAP_LOCK" /\ stats[d].lockUntil = stats[d].profit

\* A drawdown that stays on the row of the day ends in a halt message of that very day, whatever
\* fails or races on the way and whatever was halted on the day before (the first snapshot after
\* midnight starts the new row, also of a run that began before), unless a run marked the row and then
\* sent no halt for that day: the flag keeps every later run from sending one.  What holds of Today again
\* and again holds of the last day, whichever that is: a halt of an earlier day does not count.
Crossed == stats[Today] # None /\ DrawdownReached(stats[Today].start, account.equity)
DrawdownHalts == <>[]Crossed => []<>(Today \in halted \union disarmed)
=============================================================================
