------------------------------ MODULE OrderEntry ------------------------------
(***************************************************************************)
(* The entry side of Agent 3 for one account: a strategy signal is         *)
(* delivered, its advisory execution lock is taken, duplicates, trading    *)
(* locks and limits are checked, the market is looked at, the bracket      *)
(* order is placed, and position, order and decision are recorded.         *)
(*                                                                         *)
(* Every await that reads or writes something another actor may change is  *)
(* a step.  A worker is the signal consumer of one API process: it handles *)
(* one message at a time.  Positions are not closed here.                  *)
(***************************************************************************)
EXTENDS Integers, FiniteSets

CONSTANTS
    Signals,         \* transaction ids of the signals, one message each
    Symbols,         \* trading pairs
    SymbolOf,        \* the pair of each signal
    Workers,         \* signal consumers, one per process
    MaxOpen,         \* effective maxOpenPositions
    MaxDaily,        \* effective maxDailyTrades
    MaxDeliveries,   \* deliveries before a message is dead-lettered (3)
    Faults,          \* kinds of fault that may happen
    MaxFaults        \* bound: faults in a behaviour

\* query: a query fails before or after its effect; exchange: a call fails and leaves
\* no position (refused, or entered and rolled back); lost: the entry is executed and
\* the call throws (answer lost, rollback failed); reclaim: a message is delivered
\* again while it is being handled; pool: the unlock runs on another connection than
\* the lock; recycle: the pool closes the connection of a lock in use; crash.
FaultKinds == {"query", "exchange", "lost", "reclaim", "pool", "recycle", "crash"}

WorkerPc  == {"Idle", "Lock", "RejectBusy", "FindAccount", "Duplicate", "TradingLocks", "CountOpen",
              "HasSymbol", "CountDaily", "Market", "Place", "OpenRow", "RecordOrder", "Decide",
              "Catch", "Reject", "Unlock"}
Decisions == {"OPENED", "DUPLICATE", "REFUSED", "FAILED"}

ASSUME SymbolAssumption == SymbolOf \in [Signals -> Symbols]
ASSUME LimitsAssumption == MaxOpen \in Nat /\ MaxDaily \in Nat /\ MaxDeliveries \in Nat \ {0}
ASSUME EntryFaultsAssumption == Faults \subseteq FaultKinds /\ MaxFaults \in Nat
ASSUME WorkersAssumption == IsFiniteSet(Workers) /\ Workers # {} /\ "nobody" \notin Workers

VARIABLES
    queue,      \* messages not acknowledged: a signal and the attempts it has behind it
    processed,  \* signals whose message is marked PROCESSED
    holder,     \* the worker whose connection holds the advisory lock of a signal
    entered,    \* how many entry orders of each signal the exchange has executed
    rows,       \* rows of active_positions, each for one of those entries
    opened,     \* entries that a row of execution_decisions calls OPENED
    decided,    \* what the rows of execution_decisions say of each signal
    locked,     \* a trading lock of the account is active
    late,       \* history: entries executed while a trading lock was active
    forgotten,  \* history: executions of a signal that sent an order and ended without a decision
    bared,      \* history: how often the lock of a signal was closed under its execution
    worker,     \* what each worker is doing
    budget      \* faults still allowed

vars == <<queue, processed, holder, entered, rows, opened, decided, locked, late, forgotten, bared, worker, budget>>
bus      == <<queue, processed>>
records  == <<rows, opened, decided>>
exchange == <<entered, late>>
accidents == <<forgotten, bared>>

\* The n-th entry order of signal s; a delivery of signal s after a failed attempts.
Entry    == Signals \X (Nat \ {0})
Delivery == Signals \X (0..(MaxDeliveries - 1))
\* entry: the number of the entry order this execution has sent; inserted: its
\* decision is in the table; throws: the handler is going to throw.
Worker == [pc : WorkerPc, sig : Signals, attempt : 0..(MaxDeliveries - 1), entry : Nat,
           verdict : Decisions, inserted : BOOLEAN, throws : BOOLEAN]
Idle == [pc |-> "Idle"]

TypeOK ==
    /\ queue \in SUBSET Delivery
    /\ processed \in SUBSET Signals
    /\ holder \in [Signals -> Workers \union {"nobody"}]
    /\ entered \in [Signals -> Nat]
    /\ rows \in SUBSET Entry /\ opened \in SUBSET Entry /\ late \in SUBSET Entry
    /\ decided \in [Signals -> SUBSET Decisions]
    /\ locked \in BOOLEAN
    /\ forgotten \in [Signals -> Nat] /\ bared \in [Signals -> Nat]
    /\ worker \in [Workers -> Worker \union {Idle}]
    /\ budget \in 0..MaxFaults

Init ==
    /\ queue = Signals \X {0}
    /\ processed = {}
    /\ holder = [s \in Signals |-> "nobody"]
    /\ entered = [s \in Signals |-> 0]
    /\ rows = {} /\ opened = {} /\ late = {}
    /\ decided = [s \in Signals |-> {}]
    /\ locked = FALSE
    /\ forgotten = [s \in Signals |-> 0] /\ bared = [s \in Signals |-> 0]
    /\ worker = [w \in Workers |-> Idle]
    /\ budget = MaxFaults

Spend(kind) ==
    /\ kind \in Faults
    /\ budget > 0
    /\ budget' = budget - 1

Goto(w, pc)      == worker' = [worker EXCEPT ![w].pc = pc]
Signal(w)        == worker[w].sig
Handles(w, s)    == worker[w].pc # "Idle" /\ worker[w].sig = s
Rejects(w, verdict) == worker' = [worker EXCEPT ![w].pc = "Reject", ![w].verdict = verdict]
Throws(w)        == worker' = [worker EXCEPT ![w].pc = "Unlock", ![w].throws = TRUE]
EntryOf(w)       == <<worker[w].sig, worker[w].entry>>

\* Worker w has sent an order of which it has recorded no decision; it ends so.
Unrecorded(w) == /\ worker[w].pc \in {"OpenRow", "RecordOrder", "Decide", "Catch", "Reject"}
                 /\ worker[w].entry # 0 /\ ~worker[w].inserted
Forgets(w)    == forgotten' = IF Unrecorded(w) THEN [forgotten EXCEPT ![Signal(w)] = @ + 1] ELSE forgotten

\* Somebody else (Agents 4 and 5, an operator) sets a trading lock for the day.
SetTradingLock ==
    /\ ~locked
    /\ locked' = TRUE
    /\ UNCHANGED <<bus, holder, records, exchange, accidents, worker, budget>>

(***************************************************************************)
(* Delivery and the advisory lock.  The session that takes a lock holds it *)
(* until it unlocks or closes, and is granted its own lock again (how      *)
(* often it has been granted is not counted).                              *)
(***************************************************************************)
Deliver(w, d) ==
    /\ worker[w].pc = "Idle" /\ d \in queue /\ d[1] \notin processed
    /\ \/ (\A v \in Workers : ~Handles(v, d[1])) /\ UNCHANGED budget
       \/ (\E v \in Workers : Handles(v, d[1])) /\ Spend("reclaim")
    /\ worker' = [worker EXCEPT ![w] = [pc |-> "Lock", sig |-> d[1], attempt |-> d[2], entry |-> 0,
                        verdict |-> "REFUSED", inserted |-> FALSE, throws |-> FALSE]]
    /\ UNCHANGED <<bus, holder, records, exchange, accidents, locked>>

\* A message that is marked is acknowledged and not handled.
SkipProcessed(d) ==
    /\ d \in queue /\ d[1] \in processed
    /\ queue' = queue \ {d}
    /\ UNCHANGED <<processed, holder, records, exchange, accidents, locked, worker, budget>>

\* The handler has returned, and the message is marked and acknowledged, or it has
\* thrown, and a copy with one attempt more is added unless that was the last.
Finish(w, throws) ==
    LET s == Signal(w)
        a == worker[w].attempt
    IN  /\ worker' = [worker EXCEPT ![w] = Idle]
        /\ queue' = (queue \ {<<s, a>>}) \union
                        (IF throws /\ a + 1 < MaxDeliveries THEN {<<s, a + 1>>} ELSE {})
        /\ processed' = IF throws THEN processed \ {s} ELSE processed \union {s}

\* Mutants: the lock excludes nobody; the lock is waited for.
GrantsAlways(w) == TRUE
BlocksTryLock(w) ==
    /\ worker[w].pc = "Lock"
    /\ holder[Signal(w)] = "nobody"
    /\ holder' = [holder EXCEPT ![Signal(w)] = w]
    /\ Goto(w, "FindAccount")
    /\ UNCHANGED <<bus, budget, records, exchange, accidents, locked>>

Grants(w) == holder[Signal(w)] \in {"nobody", w}

TryLock(w) ==
    /\ worker[w].pc = "Lock"
    /\ \/ /\ Grants(w)
          /\ holder' = [holder EXCEPT ![Signal(w)] = w]
          /\ Goto(w, "FindAccount") /\ UNCHANGED <<bus, budget>>
       \/ holder[Signal(w)] # "nobody" /\ Goto(w, "RejectBusy") /\ UNCHANGED <<bus, holder, budget>>
       \/ /\ Spend("query") /\ Finish(w, TRUE)
          /\ \/ UNCHANGED holder
             \/ holder[Signal(w)] = "nobody" /\ holder' = [holder EXCEPT ![Signal(w)] = w]
    /\ UNCHANGED <<records, exchange, accidents, locked>>

\* The lock is held elsewhere: a decision is recorded although nothing was checked.
RejectBusy(w) ==
    /\ worker[w].pc = "RejectBusy"
    /\ \/ /\ decided' = [decided EXCEPT ![Signal(w)] = @ \union {"DUPLICATE"}]
          /\ Finish(w, FALSE) /\ UNCHANGED budget
       \/ /\ Spend("query") /\ Finish(w, TRUE)
          /\ decided' \in {decided, [decided EXCEPT ![Signal(w)] = @ \union {"DUPLICATE"}]}
    /\ UNCHANGED <<holder, rows, opened, exchange, accidents, locked>>

Unlock(w) ==
    /\ worker[w].pc = "Unlock"
    /\ LET free == IF holder[Signal(w)] = w THEN [holder EXCEPT ![Signal(w)] = "nobody"] ELSE holder IN
         \/ holder' = free /\ Finish(w, worker[w].throws) /\ UNCHANGED budget
         \/ Spend("pool") /\ UNCHANGED holder /\ Finish(w, worker[w].throws)
         \/ Spend("query") /\ holder' \in {holder, free} /\ Finish(w, TRUE)
    /\ UNCHANGED <<records, exchange, accidents, locked>>

\* An idle connection is closed after 30 s and takes its locks with it.
ConnectionCloses(s) ==
    /\ holder[s] # "nobody"
    /\ IF \E w \in Workers : Handles(w, s) /\ holder[s] = w
           THEN Spend("recycle") /\ bared' = [bared EXCEPT ![s] = @ + 1]
           ELSE UNCHANGED <<bared, budget>>
    /\ holder' = [holder EXCEPT ![s] = "nobody"]
    /\ UNCHANGED <<bus, records, exchange, forgotten, locked, worker>>

\* All connections of the process close; the message stays pending.
Crash(w) ==
    /\ worker[w].pc # "Idle"
    /\ Spend("crash")
    /\ holder' = [s \in Signals |-> IF holder[s] = w THEN "nobody" ELSE holder[s]]
    /\ worker' = [worker EXCEPT ![w] = Idle]
    /\ Forgets(w)
    /\ UNCHANGED <<bus, records, exchange, bared, locked>>

(***************************************************************************)
(* The checks of executeLocked, in their order.  A query that fails is     *)
(* caught inside the try block, that of the account escapes.  Refusals for *)
(* reasons of the data (confidence, mode, stale book, spread, balance,     *)
(* symbol rules) may always happen.                                        *)
(***************************************************************************)
FindAccount(w) ==
    /\ worker[w].pc = "FindAccount"
    /\ \/ Goto(w, "Duplicate") /\ UNCHANGED budget
       \/ Rejects(w, "REFUSED") /\ UNCHANGED budget
       \/ Spend("query") /\ Throws(w)
    /\ UNCHANGED <<bus, holder, records, exchange, accidents, locked>>

Check(w, pc, fails, verdict, next) ==
    /\ worker[w].pc = pc
    /\ \/ fails /\ Rejects(w, verdict) /\ UNCHANGED budget
       \/ ~fails /\ Goto(w, next) /\ UNCHANGED budget
       \/ Spend("query") /\ Goto(w, "Catch")
    /\ UNCHANGED <<bus, holder, records, exchange, accidents, locked>>

\* Mutants: the locks are not read; off by one.
CheckNothing(w)      == Check(w, "TradingLocks", FALSE, "REFUSED", "CountOpen")
CheckOpenLate(w)     == Check(w, "CountOpen", Cardinality(rows) > MaxOpen, "REFUSED", "HasSymbol")

CheckDuplicate(w)    == Check(w, "Duplicate", decided[Signal(w)] # {}, "DUPLICATE", "TradingLocks")
CheckTradingLocks(w) == Check(w, "TradingLocks", locked, "REFUSED", "CountOpen")
CheckOpenCount(w)    == Check(w, "CountOpen", Cardinality(rows) >= MaxOpen, "REFUSED", "HasSymbol")
HasOpenSymbol(x)     == \E r \in rows : SymbolOf[r[1]] = x
CheckSymbol(w)       == Check(w, "HasSymbol", HasOpenSymbol(SymbolOf[Signal(w)]), "REFUSED", "CountDaily")
CheckDailyCount(w)   == Check(w, "CountDaily", Cardinality(opened) >= MaxDaily, "REFUSED", "Market")

\* Credentials, stream, rules, balance, book, sizing, leverage.
CheckMarket(w) ==
    /\ worker[w].pc = "Market"
    /\ \/ Goto(w, "Place") /\ UNCHANGED budget
       \/ Rejects(w, "REFUSED") /\ UNCHANGED budget
       \/ (Spend("query") \/ Spend("exchange")) /\ Goto(w, "Catch")
    /\ UNCHANGED <<bus, holder, records, exchange, accidents, locked>>

Enters(w) ==
    LET s == Signal(w) IN
    /\ entered' = [entered EXCEPT ![s] = @ + 1]
    /\ late' = IF locked THEN late \union {<<s, entered[s] + 1>>} ELSE late

Sent(w, pc) == worker' = [worker EXCEPT ![w].pc = pc, ![w].entry = entered[Signal(w)] + 1]

PlaceOrder(w) ==
    /\ worker[w].pc = "Place"
    /\ \/ Enters(w) /\ Sent(w, "OpenRow") /\ UNCHANGED budget
       \/ Spend("exchange") /\ Goto(w, "Catch") /\ UNCHANGED exchange
       \/ Spend("lost") /\ Enters(w) /\ Sent(w, "Catch")
    /\ UNCHANGED <<bus, holder, records, accidents, locked>>

(***************************************************************************)
(* Recording.                                                              *)
(***************************************************************************)
\* Mutant: an error of the insert is swallowed.
OpenRowOrIgnore(w) ==
    /\ worker[w].pc = "OpenRow"
    /\ \/ rows' = rows \union {EntryOf(w)} /\ UNCHANGED budget
       \/ Spend("query") /\ UNCHANGED rows
    /\ Goto(w, "RecordOrder")
    /\ UNCHANGED <<bus, holder, opened, decided, exchange, accidents, locked>>

OpenRow(w) ==
    /\ worker[w].pc = "OpenRow"
    /\ \/ rows' = rows \union {EntryOf(w)} /\ Goto(w, "RecordOrder") /\ UNCHANGED budget
       \/ Spend("query") /\ rows' \in {rows, rows \union {EntryOf(w)}} /\ Goto(w, "Catch")
    /\ UNCHANGED <<bus, holder, opened, decided, exchange, accidents, locked>>

RecordOrder(w) ==
    /\ worker[w].pc = "RecordOrder"
    /\ \/ Goto(w, "Decide") /\ UNCHANGED budget
       \/ Spend("query") /\ Goto(w, "Catch")
    /\ UNCHANGED <<bus, holder, records, exchange, accidents, locked>>

InsertDecision(w, verdict) ==
    /\ decided' = [decided EXCEPT ![Signal(w)] = @ \union {verdict}]
    /\ opened' = IF verdict = "OPENED" THEN opened \union {EntryOf(w)} ELSE opened

\* executions.insert and publishExecution, which both may throw.
Decide(w) ==
    /\ worker[w].pc = "Decide"
    /\ \/ InsertDecision(w, "OPENED") /\ Goto(w, "Unlock") /\ UNCHANGED budget
       \/ Spend("query") /\ Goto(w, "Catch") /\ UNCHANGED <<decided, opened>>
       \/ /\ Spend("query") /\ InsertDecision(w, "OPENED")
          /\ worker' = [worker EXCEPT ![w].pc = "Catch", ![w].inserted = TRUE]
    /\ UNCHANGED <<bus, holder, rows, exchange, accidents, locked>>

\* Mutant: the failure is thrown on and nothing is recorded.
CatchAndThrow(w) ==
    /\ worker[w].pc = "Catch"
    /\ Throws(w) /\ UNCHANGED budget
    /\ UNCHANGED <<bus, holder, records, exchange, accidents, locked>>

\* incidents.create stands first in the catch block; when it throws nothing is recorded.
CatchFailure(w) ==
    /\ worker[w].pc = "Catch"
    /\ \/ Rejects(w, "FAILED") /\ UNCHANGED <<forgotten, budget>>
       \/ Spend("query") /\ Throws(w) /\ Forgets(w)
    /\ UNCHANGED <<bus, holder, records, exchange, bared, locked>>

\* The insert does nothing when this execution already has its decision.  The promise
\* of reject is returned and not awaited: its errors pass the catch block by.
Reject(w) ==
    /\ worker[w].pc = "Reject"
    /\ \/ Goto(w, "Unlock") /\ UNCHANGED <<forgotten, budget>>
          /\ IF worker[w].inserted THEN UNCHANGED <<decided, opened>>
                                   ELSE InsertDecision(w, worker[w].verdict)
       \/ /\ Spend("query") /\ Throws(w)
          /\ \/ Forgets(w) /\ UNCHANGED <<decided, opened>>
             \/ ~worker[w].inserted /\ InsertDecision(w, worker[w].verdict) /\ UNCHANGED forgotten
    /\ UNCHANGED <<bus, holder, rows, exchange, bared, locked>>

-----------------------------------------------------------------------------
WorkerStep(w) ==
    \/ TryLock(w) \/ RejectBusy(w) \/ FindAccount(w) \/ CheckDuplicate(w) \/ CheckTradingLocks(w)
    \/ CheckOpenCount(w) \/ CheckSymbol(w) \/ CheckDailyCount(w) \/ CheckMarket(w) \/ PlaceOrder(w)
    \/ OpenRow(w) \/ RecordOrder(w) \/ Decide(w) \/ CatchFailure(w) \/ Reject(w) \/ Unlock(w)

Next ==
    \/ SetTradingLock
    \/ \E s \in Signals : ConnectionCloses(s)
    \/ \E d \in Delivery : SkipProcessed(d)
    \/ \E w \in Workers : WorkerStep(w) \/ Crash(w) \/ \E d \in Delivery : Deliver(w, d)

Spec == Init /\ [][Next]_vars

\* The consumers run on and the bus delivers what is pending.
Fairness ==
    /\ WF_vars(\E d \in Delivery : SkipProcessed(d))
    /\ \A w \in Workers : WF_vars(WorkerStep(w)) /\ WF_vars(\E d \in Delivery : Deliver(w, d))

FairSpec == Spec /\ Fairness

(***************************************************************************)
(* Properties                                                              *)
(***************************************************************************)
\* However a signal is redelivered, it is entered on the exchange once, and once more
\* only for an accident of its own each time: an execution that sent its order and ended
\* without a decision, or whose advisory lock was closed under it.
RepeatsAreExplained == \A s \in Signals : entered[s] <= 1 + forgotten[s] + bared[s]

\* While a signal has no decision, every order it has entered belongs to an execution
\* that is still at work on it or was lost in such an accident.
EntryIsDecided == \A s \in Signals :
    decided[s] = {} =>
        entered[s] <= forgotten[s] + Cardinality({w \in Workers : Handles(w, s) /\ worker[w].entry # 0})

\* A decision says OPENED only of an entry whose position has its row, and a row
\* stands only for an executed order, whichever of the writes in between failed.
OpenedHasPosition == opened \subseteq rows /\ \A r \in rows : r[2] <= entered[r[1]]

\* The limits the checks are for: open positions, one per pair, trades of the day.
\* One executor keeps them; each further one, which may have passed the same check
\* before the row was there, exceeds them by one at most, whatever fails.
WithinLimits ==
    /\ Cardinality(rows) < MaxOpen + Cardinality(Workers)
    /\ \A x \in Symbols : Cardinality({r \in rows : SymbolOf[r[1]] = x}) <= Cardinality(Workers)
    /\ Cardinality(opened) < MaxDaily + Cardinality(Workers)

\* After a trading lock is set no worker enters more than once: what is under way
\* past the check may finish, nothing new may start.
LateEntriesBounded == Cardinality(late) <= Cardinality(Workers)

\* Every signal is done with in the end: no lock that stays behind blocks it.
Concluded == \A s \in Signals : <>[](\A d \in queue : d[1] # s)
=============================================================================
