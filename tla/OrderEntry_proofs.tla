--------------------------- MODULE OrderEntry_proofs ---------------------------
(***************************************************************************)
(* Theorems about OrderEntry, for every value of its constants and all its *)
(* faults: the types, the order in which an entry is recorded, the bounds  *)
(* on what outruns the limits and the trading lock, and what every entry   *)
(* of a signal beyond its first is owed to.                                *)
(***************************************************************************)
EXTENDS OrderEntry, FiniteSetTheorems, TLAPS

(***************************************************************************)
(* Part 1.  The inductive invariant.                                       *)
(***************************************************************************)
\* The places behind a check and before the step that makes the check's answer stale.
PastLock   == {"CountOpen", "HasSymbol", "CountDaily", "Market", "Place"}
PastOpen   == {"HasSymbol", "CountDaily", "Market", "Place", "OpenRow"}
PastSymbol == {"CountDaily", "Market", "Place", "OpenRow"}
PastDaily  == {"Market", "Place", "OpenRow", "RecordOrder", "Decide"}
Past       == PastLock \union PastOpen \union PastSymbol \union PastDaily

At(pcs)       == {w \in Workers : worker[w].pc \in pcs}
AtOfSymbol(x) == {w \in Workers : worker[w].pc \in PastSymbol /\ SymbolOf[worker[w].sig] = x}
RowsOf(x)     == {r \in rows : SymbolOf[r[1]] = x}

\* Recorded(w): what worker w knows of its own entry.
Recorded(w) ==
    /\ worker[w].pc \in {"OpenRow", "RecordOrder", "Decide"} =>
          worker[w].entry # 0 /\ worker[w].entry <= entered[worker[w].sig]
    /\ worker[w].pc \in {"RecordOrder", "Decide"} => EntryOf(w) \in rows
    /\ worker[w].pc = "Reject" => worker[w].verdict # "OPENED"

\* Whoever is past a check has its share of the bound reserved.
Bounded(S, W, bound) == IsFiniteSet(S) /\ Cardinality(S) + Cardinality(W) <= bound

LateBounded   == Bounded(late, IF locked THEN At(PastLock) ELSE {}, Cardinality(Workers))
NoneLate      == ~locked => late = {}
OpenBounded   == Bounded(rows, At(PastOpen), MaxOpen + Cardinality(Workers) - 1)
SymbolBounded == \A x \in Symbols : Bounded(RowsOf(x), AtOfSymbol(x), Cardinality(Workers))
DailyBounded  == Bounded(opened, At(PastDaily), MaxDaily + Cardinality(Workers) - 1)

IInv ==
    /\ TypeOK
    /\ OpenedHasPosition
    /\ \A w \in Workers : Recorded(w)
    /\ NoneLate /\ LateBounded /\ OpenBounded /\ SymbolBounded /\ DailyBounded

(***************************************************************************)
(* The invariant of the repeated entries.                                  *)
(***************************************************************************)
Inside   == WorkerPc \ {"Idle", "Lock", "RejectBusy"}
Entering == {"TradingLocks", "CountOpen", "HasSymbol", "CountDaily", "Market", "Place"}
Placed   == {"OpenRow", "RecordOrder", "Decide", "Catch", "Reject"}

\* Who is inside with a signal: without its lock, before the order, after it and without a decision.
With(t, pcs) == {w \in Workers : worker[w].pc \in pcs /\ worker[w].sig = t}
Orphans(t)   == {w \in With(t, Inside) : holder[t] # w}
Enterers(t)  == With(t, Entering)
Senders(t)   == {w \in With(t, Placed) : worker[w].entry # 0}

Inserted(w)  == worker[w].pc # "Idle" /\ worker[w].inserted => decided[worker[w].sig] # {}
Excluded(t)  == Cardinality(Orphans(t)) <= bared[t]
Accounted(t) == decided[t] = {} => entered[t] <= forgotten[t] + Cardinality(Senders(t))
Paid(t)      == entered[t] + Cardinality(Enterers(t)) <= 1 + forgotten[t] + bared[t]

Explained == /\ \A w \in Workers : Inserted(w)
             /\ \A t \in Signals : Excluded(t) /\ Accounted(t) /\ Paid(t)

(***************************************************************************)
(* Part 2.  The moves of a worker.                                         *)
(***************************************************************************)
\* Worker w, and no other, has become r.
Becomes(w, r) ==
    /\ worker' \in [Workers -> Worker \union {Idle}]
    /\ worker'[w] = r
    /\ \A v \in Workers \ {w} : worker'[v] = worker[v]

LEMMA Moves ==
    ASSUME TypeOK, NEW w \in Workers, NEW r \in Worker \union {Idle}, worker' = [worker EXCEPT ![w] = r]
    PROVE  Becomes(w, r)
BY DEF TypeOK, Becomes

LEMMA AtWork ==
    ASSUME TypeOK, NEW w \in Workers, worker[w].pc # "Idle"
    PROVE  /\ worker[w] \in Worker /\ worker[w].sig \in Signals /\ worker[w].attempt \in 0..(MaxDeliveries - 1)
           /\ worker[w].entry \in Nat /\ worker[w].verdict \in Decisions
           /\ worker[w].inserted \in BOOLEAN /\ worker[w].throws \in BOOLEAN
<1>1. worker[w] \in Worker
  BY DEF TypeOK, Idle
<1> QED
  BY <1>1 DEF Worker

LEMMA GoesTo ==
    ASSUME TypeOK, NEW w \in Workers, worker[w].pc # "Idle", NEW pc \in WorkerPc, Goto(w, pc)
    PROVE  /\ worker' \in [Workers -> Worker \union {Idle}]
           /\ \A v \in Workers \ {w} : worker'[v] = worker[v]
           /\ worker'[w].pc = pc /\ worker'[w].sig = worker[w].sig /\ worker'[w].entry = worker[w].entry
           /\ worker'[w].verdict = worker[w].verdict /\ worker'[w].inserted = worker[w].inserted
<1> DEFINE r == [worker[w] EXCEPT !.pc = pc]
<1>1. worker[w] \in Worker
  BY AtWork
<1>2. /\ r \in Worker /\ r.pc = pc /\ r.sig = worker[w].sig /\ r.entry = worker[w].entry
      /\ r.verdict = worker[w].verdict /\ r.inserted = worker[w].inserted
  BY <1>1 DEF Worker
<1>3. worker' = [worker EXCEPT ![w] = r]
  BY DEF Goto
<1> HIDE DEF r
<1>4. Becomes(w, r)
  BY <1>2, <1>3, Moves
<1> QED
  BY <1>2, <1>4 DEF Becomes

LEMMA IsRejected ==
    ASSUME TypeOK, NEW w \in Workers, worker[w].pc # "Idle", NEW verdict \in Decisions, Rejects(w, verdict)
    PROVE  /\ worker' \in [Workers -> Worker \union {Idle}]
           /\ \A v \in Workers \ {w} : worker'[v] = worker[v]
           /\ worker'[w].pc = "Reject" /\ worker'[w].sig = worker[w].sig
           /\ worker'[w].verdict = verdict /\ worker'[w].inserted = worker[w].inserted
           /\ worker'[w].entry = worker[w].entry
<1> DEFINE r == [worker[w] EXCEPT !.pc = "Reject", !.verdict = verdict]
<1>1. worker[w] \in Worker
  BY AtWork
<1>2. /\ r \in Worker /\ r.pc = "Reject" /\ r.sig = worker[w].sig /\ r.entry = worker[w].entry
      /\ r.verdict = verdict /\ r.inserted = worker[w].inserted
  BY <1>1 DEF Worker, WorkerPc
<1>3. worker' = [worker EXCEPT ![w] = r]
  BY DEF Rejects
<1> HIDE DEF r
<1>4. Becomes(w, r)
  BY <1>2, <1>3, Moves
<1> QED
  BY <1>2, <1>4 DEF Becomes

LEMMA HasThrown ==
    ASSUME TypeOK, NEW w \in Workers, worker[w].pc # "Idle", Throws(w)
    PROVE  /\ worker' \in [Workers -> Worker \union {Idle}]
           /\ \A v \in Workers \ {w} : worker'[v] = worker[v]
           /\ worker'[w].pc = "Unlock" /\ worker'[w].sig = worker[w].sig
           /\ worker'[w].inserted = worker[w].inserted
<1> DEFINE r == [worker[w] EXCEPT !.pc = "Unlock", !.throws = TRUE]
<1>1. worker[w] \in Worker
  BY AtWork
<1>2. /\ r \in Worker /\ r.pc = "Unlock" /\ r.sig = worker[w].sig
      /\ r.inserted = worker[w].inserted
  BY <1>1 DEF Worker, WorkerPc
<1>3. worker' = [worker EXCEPT ![w] = r]
  BY DEF Throws
<1> HIDE DEF r
<1>4. Becomes(w, r)
  BY <1>2, <1>3, Moves
<1> QED
  BY <1>2, <1>4 DEF Becomes

LEMMA HasFinished ==
    ASSUME TypeOK, NEW w \in Workers, worker[w].pc # "Idle", NEW throws \in BOOLEAN, Finish(w, throws)
    PROVE  /\ worker' \in [Workers -> Worker \union {Idle}]
           /\ \A v \in Workers \ {w} : worker'[v] = worker[v]
           /\ worker'[w] = Idle /\ worker'[w].pc = "Idle"
           /\ queue' \in SUBSET Delivery /\ processed' \in SUBSET Signals
<1>1. worker[w].sig \in Signals /\ worker[w].attempt \in 0..(MaxDeliveries - 1)
  BY AtWork
<1>2. worker' = [worker EXCEPT ![w] = Idle]
  BY DEF Finish
<1>3. Becomes(w, Idle)
  BY <1>2, Moves
<1>4. processed' \in SUBSET Signals
  BY <1>1 DEF Finish, Signal, TypeOK
<1>5. queue' \in SUBSET Delivery
  <2> DEFINE s == worker[w].sig
             a == worker[w].attempt
  <2>1. queue' = (queue \ {<<s, a>>}) \union
                   (IF throws /\ a + 1 < MaxDeliveries THEN {<<s, a + 1>>} ELSE {})
    BY DEF Finish, Signal
  <2>2. a + 1 < MaxDeliveries => a + 1 \in 0..(MaxDeliveries - 1)
    BY <1>1, LimitsAssumption
  <2>3. a + 1 < MaxDeliveries => <<s, a + 1>> \in Delivery
    BY <1>1, <2>2 DEF Delivery
  <2> HIDE DEF s, a
  <2>4. queue \in SUBSET Delivery
    BY DEF TypeOK
  <2> QED
    BY <2>1, <2>3, <2>4
<1> QED
  BY <1>3, <1>4, <1>5 DEF Becomes, Idle

LEMMA BudgetType ==
    ASSUME TypeOK, NEW kind, UNCHANGED budget \/ Spend(kind)
    PROVE  budget' \in 0..MaxFaults
BY EntryFaultsAssumption DEF TypeOK, Spend

Counted == forgotten \in [Signals -> Nat] /\ bared \in [Signals -> Nat]

LEMMA CountedType ==
    ASSUME TypeOK, NEW w \in Workers, UNCHANGED accidents \/ (Forgets(w) /\ UNCHANGED bared)
    PROVE  Counted'
<1>1. forgotten \in [Signals -> Nat] /\ bared \in [Signals -> Nat]
  BY DEF TypeOK
<1>2. CASE Unrecorded(w) /\ forgotten' = [forgotten EXCEPT ![Signal(w)] = @ + 1] /\ UNCHANGED bared
  <2>1. Signal(w) \in Signals
    BY <1>2, AtWork DEF Unrecorded, Signal
  <2> QED
    BY <1>1, <1>2, <2>1 DEF Counted
<1> QED
  BY <1>1, <1>2 DEF Forgets, Counted, accidents

(***************************************************************************)
(* Part 3.  What each step of a worker does to the entries and the rows.   *)
(***************************************************************************)
Away      == WorkerPc \ Past
Leaves(w) == worker'[w].pc \in Away /\ (worker'[w].pc = "Reject" => worker'[w].verdict # "OPENED")
Passes(w, pc, next) ==
    /\ worker[w].pc = pc /\ worker'[w].pc = next
    /\ worker'[w].sig = worker[w].sig /\ worker'[w].entry = worker[w].entry

Walks(w) ==
    /\ UNCHANGED <<entered, late, rows, opened>>
    /\ \/ Leaves(w)
       \/ Passes(w, "TradingLocks", "CountOpen") /\ ~locked
       \/ Passes(w, "CountOpen", "HasSymbol") /\ ~(Cardinality(rows) >= MaxOpen)
       \/ Passes(w, "HasSymbol", "CountDaily") /\ ~HasOpenSymbol(SymbolOf[worker[w].sig])
       \/ Passes(w, "CountDaily", "Market") /\ ~(Cardinality(opened) >= MaxDaily)
       \/ Passes(w, "Market", "Place")
       \/ Passes(w, "RecordOrder", "Decide")

Places(w) ==
    /\ worker[w].pc = "Place" /\ Enters(w) /\ UNCHANGED <<rows, opened>>
    /\ \/ Leaves(w)
       \/ /\ worker'[w].pc = "OpenRow" /\ worker'[w].sig = worker[w].sig
          /\ worker'[w].entry = entered[worker[w].sig] + 1

Opens(w) ==
    /\ worker[w].pc = "OpenRow" /\ UNCHANGED <<entered, late, opened>>
    /\ \/ Leaves(w) /\ rows' \in {rows, rows \union {EntryOf(w)}}
       \/ Passes(w, "OpenRow", "RecordOrder") /\ rows' = rows \union {EntryOf(w)}

Decides(w) ==
    /\ worker[w].pc = "Decide" /\ UNCHANGED <<entered, late, rows>>
    /\ Leaves(w) /\ opened' \in {opened, opened \union {EntryOf(w)}}

Effect(w) ==
    /\ TypeOK'
    /\ \A v \in Workers \ {w} : worker'[v] = worker[v]
    /\ UNCHANGED locked
    /\ Walks(w) \/ Places(w) \/ Opens(w) \/ Decides(w)

LEMMA AwayPcs ==
    {"Idle", "Lock", "RejectBusy", "FindAccount", "Duplicate", "TradingLocks", "Catch", "Reject", "Unlock"}
        \subseteq Away
BY DEF Away, WorkerPc, Past, PastLock, PastOpen, PastSymbol, PastDaily

LEMMA DeliverCase ==
    ASSUME IInv, NEW w \in Workers, NEW d \in Delivery, Deliver(w, d)
    PROVE  Effect(w)
<1> DEFINE r == [pc |-> "Lock", sig |-> d[1], attempt |-> d[2], entry |-> 0,
                 verdict |-> "REFUSED", inserted |-> FALSE, throws |-> FALSE]
<1>1. d[1] \in Signals /\ d[2] \in 0..(MaxDeliveries - 1)
  BY DEF Delivery
<1>2. r \in Worker /\ r.pc = "Lock"
  BY <1>1 DEF Worker, WorkerPc, Decisions
<1>3. worker' = [worker EXCEPT ![w] = r]
  BY DEF Deliver
<1> HIDE DEF r
<1>4. Becomes(w, r)
  BY <1>2, <1>3, Moves DEF IInv
<1>5. /\ UNCHANGED <<queue, processed, holder, rows, opened, decided, entered, late, locked>>
      /\ budget' \in 0..MaxFaults /\ Counted'
  BY BudgetType, CountedType DEF Deliver, bus, records, exchange, IInv, accidents
<1>6. TypeOK'
  BY <1>4, <1>5 DEF TypeOK, Counted, IInv, Becomes
<1>7. Leaves(w)
  BY <1>2, <1>4, AwayPcs DEF Leaves, Becomes
<1> QED
  BY <1>4, <1>5, <1>6, <1>7 DEF Effect, Walks, Becomes

LEMMA CrashCase ==
    ASSUME IInv, NEW w \in Workers, Crash(w)
    PROVE  Effect(w)
<1>1. worker' = [worker EXCEPT ![w] = Idle]
  BY DEF Crash
<1>2. Becomes(w, Idle) /\ Idle.pc = "Idle"
  BY <1>1, Moves DEF IInv, Idle
<1>3. /\ UNCHANGED <<queue, processed, rows, opened, decided, entered, late, locked>>
      /\ budget' \in 0..MaxFaults /\ Counted'
  BY BudgetType, CountedType DEF Crash, bus, records, exchange, IInv, accidents
<1>4. holder' \in [Signals -> Workers \union {"nobody"}]
  BY DEF Crash, IInv, TypeOK, Counted
<1>5. TypeOK'
  BY <1>2, <1>3, <1>4 DEF TypeOK, Counted, IInv, Becomes
<1>6. Leaves(w)
  BY <1>2, AwayPcs DEF Leaves, Becomes
<1> QED
  BY <1>2, <1>3, <1>5, <1>6 DEF Effect, Walks, Becomes

LEMMA TryLockCase ==
    ASSUME IInv, NEW w \in Workers, TryLock(w)
    PROVE  Effect(w)
<1> USE DEF IInv
<1>1. worker[w].pc # "Idle" /\ worker[w].sig \in Signals
  BY AtWork DEF TryLock
<1>2. UNCHANGED <<rows, opened, decided, entered, late, locked>> /\ budget' \in 0..MaxFaults /\ Counted'
  BY BudgetType, CountedType DEF TryLock, records, exchange, accidents
<1>3. holder' \in [Signals -> Workers \union {"nobody"}]
  <2>1. holder' \in {holder, [holder EXCEPT ![worker[w].sig] = w]}
    BY DEF TryLock, Signal
  <2> QED
    BY <1>1, <2>1 DEF TypeOK, Counted
<1>4. CASE UNCHANGED bus /\ \E pc \in {"FindAccount", "RejectBusy"} : Goto(w, pc)
  <2>1. PICK pc \in {"FindAccount", "RejectBusy"} : Goto(w, pc)
    BY <1>4
  <2>2. pc \in WorkerPc
    BY DEF WorkerPc
  <2>3. /\ worker' \in [Workers -> Worker \union {Idle}] /\ worker'[w].pc = pc
        /\ \A v \in Workers \ {w} : worker'[v] = worker[v]
    BY <1>1, <2>1, <2>2, GoesTo
  <2>4. TypeOK'
    BY <1>2, <1>3, <1>4, <2>3 DEF TypeOK, Counted, bus
  <2>5. Leaves(w)
    BY <2>3, AwayPcs DEF Leaves
  <2> QED
    BY <1>2, <2>3, <2>4, <2>5 DEF Effect, Walks
<1>5. CASE Finish(w, TRUE)
  <2>1. /\ worker' \in [Workers -> Worker \union {Idle}] /\ worker'[w].pc = "Idle"
        /\ \A v \in Workers \ {w} : worker'[v] = worker[v]
        /\ queue' \in SUBSET Delivery /\ processed' \in SUBSET Signals
    BY <1>1, <1>5, HasFinished
  <2>2. TypeOK'
    BY <1>2, <1>3, <2>1 DEF TypeOK, Counted
  <2>3. Leaves(w)
    BY <2>1, AwayPcs DEF Leaves
  <2> QED
    BY <1>2, <2>1, <2>2, <2>3 DEF Effect, Walks
<1> QED
  BY <1>4, <1>5 DEF TryLock, bus

LEMMA RejectBusyCase ==
    ASSUME IInv, NEW w \in Workers, RejectBusy(w)
    PROVE  Effect(w)
<1> USE DEF IInv
<1>1. worker[w].pc # "Idle" /\ worker[w].sig \in Signals
  BY AtWork DEF RejectBusy
<1>2. UNCHANGED <<holder, rows, opened, entered, late, locked>> /\ budget' \in 0..MaxFaults /\ Counted'
  BY BudgetType, CountedType DEF RejectBusy, exchange, accidents
<1>3. decided' \in [Signals -> SUBSET Decisions]
  <2>1. decided' \in {decided, [decided EXCEPT ![worker[w].sig] = @ \union {"DUPLICATE"}]}
    BY DEF RejectBusy, Signal
  <2> QED
    BY <1>1, <2>1 DEF TypeOK, Counted, Decisions
<1>4. PICK throws \in BOOLEAN : Finish(w, throws)
  BY DEF RejectBusy
<1>5. /\ worker' \in [Workers -> Worker \union {Idle}] /\ worker'[w].pc = "Idle"
      /\ \A v \in Workers \ {w} : worker'[v] = worker[v]
      /\ queue' \in SUBSET Delivery /\ processed' \in SUBSET Signals
  BY <1>1, <1>4, HasFinished
<1>6. TypeOK'
  BY <1>2, <1>3, <1>5 DEF TypeOK, Counted
<1>7. Leaves(w)
  BY <1>5, AwayPcs DEF Leaves
<1> QED
  BY <1>2, <1>5, <1>6, <1>7 DEF Effect, Walks

LEMMA UnlockCase ==
    ASSUME IInv, NEW w \in Workers, Unlock(w)
    PROVE  Effect(w)
<1> USE DEF IInv
<1>1. worker[w].pc # "Idle" /\ worker[w].sig \in Signals /\ worker[w].throws \in BOOLEAN
  BY AtWork DEF Unlock
<1>2. UNCHANGED <<rows, opened, decided, entered, late, locked>> /\ budget' \in 0..MaxFaults /\ Counted'
  BY BudgetType, CountedType DEF Unlock, records, exchange, accidents
<1>3. holder' \in [Signals -> Workers \union {"nobody"}]
  <2>1. holder' \in {holder, [holder EXCEPT ![worker[w].sig] = "nobody"]}
    BY DEF Unlock, Signal
  <2> QED
    BY <1>1, <2>1 DEF TypeOK, Counted
<1>4. PICK throws \in BOOLEAN : Finish(w, throws)
  BY <1>1 DEF Unlock
<1>5. /\ worker' \in [Workers -> Worker \union {Idle}] /\ worker'[w].pc = "Idle"
      /\ \A v \in Workers \ {w} : worker'[v] = worker[v]
      /\ queue' \in SUBSET Delivery /\ processed' \in SUBSET Signals
  BY <1>1, <1>4, HasFinished
<1>6. TypeOK'
  BY <1>2, <1>3, <1>5 DEF TypeOK, Counted
<1>7. Leaves(w)
  BY <1>5, AwayPcs DEF Leaves
<1> QED
  BY <1>2, <1>5, <1>6, <1>7 DEF Effect, Walks

\* A step that writes nothing but the worker and the budget.
LEMMA OnlyWorker ==
    ASSUME TypeOK, UNCHANGED <<bus, holder, records, exchange, locked>>, budget' \in 0..MaxFaults /\ Counted',
           worker' \in [Workers -> Worker \union {Idle}]
    PROVE  TypeOK' /\ UNCHANGED <<entered, late, rows, opened, locked>>
BY DEF TypeOK, Counted, bus, records, exchange

LEMMA CheckCase ==
    ASSUME IInv, NEW w \in Workers, NEW pc \in WorkerPc \ {"Idle"}, NEW fails, NEW next \in WorkerPc,
           NEW verdict \in Decisions \ {"OPENED"}, Check(w, pc, fails, verdict, next)
    PROVE  /\ TypeOK' /\ UNCHANGED <<entered, late, rows, opened, locked>>
           /\ \A v \in Workers \ {w} : worker'[v] = worker[v]
           /\ Leaves(w) \/ (Passes(w, pc, next) /\ ~fails)
<1> USE DEF IInv
<1>1. worker[w].pc # "Idle" /\ worker[w].pc = pc /\ budget' \in 0..MaxFaults /\ Counted'
  BY BudgetType, CountedType DEF Check, accidents
<1>2. UNCHANGED <<bus, holder, records, exchange, locked>>
  BY DEF Check
<1>3. CASE Rejects(w, verdict)
  <2>1. /\ worker' \in [Workers -> Worker \union {Idle}]
        /\ \A v \in Workers \ {w} : worker'[v] = worker[v]
        /\ worker'[w].pc = "Reject" /\ worker'[w].verdict # "OPENED"
    BY <1>1, <1>3, IsRejected
  <2> QED
    BY <1>1, <1>2, <2>1, OnlyWorker, AwayPcs DEF Leaves
<1>4. CASE ~fails /\ Goto(w, next)
  <2>1. /\ worker' \in [Workers -> Worker \union {Idle}]
        /\ \A v \in Workers \ {w} : worker'[v] = worker[v]
        /\ Passes(w, pc, next)
    BY <1>1, <1>4, GoesTo DEF Passes
  <2> QED
    BY <1>1, <1>2, <1>4, <2>1, OnlyWorker
<1>5. CASE Goto(w, "Catch")
  <2>1. "Catch" \in WorkerPc
    BY DEF WorkerPc
  <2>2. /\ worker' \in [Workers -> Worker \union {Idle}]
        /\ \A v \in Workers \ {w} : worker'[v] = worker[v]
        /\ worker'[w].pc = "Catch"
    BY <1>1, <1>5, <2>1, GoesTo
  <2> QED
    BY <1>1, <1>2, <2>2, OnlyWorker, AwayPcs DEF Leaves
<1> QED
  BY <1>3, <1>4, <1>5 DEF Check

LEMMA ChecksCase ==
    ASSUME IInv, NEW w \in Workers,
           \/ CheckDuplicate(w) \/ CheckTradingLocks(w) \/ CheckOpenCount(w)
           \/ CheckSymbol(w) \/ CheckDailyCount(w)
    PROVE  Effect(w)
<1>1. /\ {"Duplicate", "TradingLocks", "CountOpen", "HasSymbol", "CountDaily", "Market"} \subseteq WorkerPc \ {"Idle"}
      /\ {"DUPLICATE", "REFUSED"} \subseteq Decisions \ {"OPENED"}
  BY DEF WorkerPc, Decisions
<1>2. CASE CheckDuplicate(w)
  <2>1. Check(w, "Duplicate", decided[worker[w].sig] # {}, "DUPLICATE", "TradingLocks")
    BY <1>2 DEF CheckDuplicate, Signal
  <2>2. /\ TypeOK' /\ UNCHANGED <<entered, late, rows, opened, locked>>
        /\ \A v \in Workers \ {w} : worker'[v] = worker[v]
        /\ Leaves(w) \/ Passes(w, "Duplicate", "TradingLocks")
    <3>1. "Duplicate" \in WorkerPc \ {"Idle"} /\ "TradingLocks" \in WorkerPc /\ "DUPLICATE" \in Decisions \ {"OPENED"}
      BY <1>1
    <3> QED
      BY <2>1, <3>1, CheckCase
  <2>3. Passes(w, "Duplicate", "TradingLocks") => Leaves(w)
    BY AwayPcs DEF Passes, Leaves
  <2> QED
    BY <2>2, <2>3 DEF Effect, Walks
<1>3. CASE CheckTradingLocks(w)
  <2>1. Check(w, "TradingLocks", locked, "REFUSED", "CountOpen")
    BY <1>3 DEF CheckTradingLocks
  <2>2. /\ TypeOK' /\ UNCHANGED <<entered, late, rows, opened, locked>>
        /\ \A v \in Workers \ {w} : worker'[v] = worker[v]
        /\ Leaves(w) \/ (Passes(w, "TradingLocks", "CountOpen") /\ ~locked)
    <3>1. "TradingLocks" \in WorkerPc \ {"Idle"} /\ "CountOpen" \in WorkerPc /\ "REFUSED" \in Decisions \ {"OPENED"}
      BY <1>1
    <3> QED
      BY <2>1, <3>1, CheckCase
  <2>3. Walks(w)
    BY <2>2 DEF Walks
  <2> QED
    BY <2>2, <2>3 DEF Effect
<1>4. CASE CheckOpenCount(w)
  <2>1. Check(w, "CountOpen", Cardinality(rows) >= MaxOpen, "REFUSED", "HasSymbol")
    BY <1>4 DEF CheckOpenCount
  <2>2. /\ TypeOK' /\ UNCHANGED <<entered, late, rows, opened, locked>>
        /\ \A v \in Workers \ {w} : worker'[v] = worker[v]
        /\ Leaves(w) \/ (Passes(w, "CountOpen", "HasSymbol") /\ ~(Cardinality(rows) >= MaxOpen))
    <3>1. "CountOpen" \in WorkerPc \ {"Idle"} /\ "HasSymbol" \in WorkerPc /\ "REFUSED" \in Decisions \ {"OPENED"}
      BY <1>1
    <3> QED
      BY <2>1, <3>1, CheckCase
  <2>3. Walks(w)
    BY <2>2 DEF Walks
  <2> QED
    BY <2>2, <2>3 DEF Effect
<1>5. CASE CheckSymbol(w)
  <2>1. Check(w, "HasSymbol", HasOpenSymbol(SymbolOf[worker[w].sig]), "REFUSED", "CountDaily")
    BY <1>5 DEF CheckSymbol, Signal
  <2>2. /\ TypeOK' /\ UNCHANGED <<entered, late, rows, opened, locked>>
        /\ \A v \in Workers \ {w} : worker'[v] = worker[v]
        /\ Leaves(w) \/ (Passes(w, "HasSymbol", "CountDaily") /\ ~HasOpenSymbol(SymbolOf[worker[w].sig]))
    <3>1. "HasSymbol" \in WorkerPc \ {"Idle"} /\ "CountDaily" \in WorkerPc /\ "REFUSED" \in Decisions \ {"OPENED"}
      BY <1>1
    <3> QED
      BY <2>1, <3>1, CheckCase
  <2>3. Walks(w)
    BY <2>2 DEF Walks
  <2> QED
    BY <2>2, <2>3 DEF Effect
<1>6. CASE CheckDailyCount(w)
  <2>1. Check(w, "CountDaily", Cardinality(opened) >= MaxDaily, "REFUSED", "Market")
    BY <1>6 DEF CheckDailyCount
  <2>2. /\ TypeOK' /\ UNCHANGED <<entered, late, rows, opened, locked>>
        /\ \A v \in Workers \ {w} : worker'[v] = worker[v]
        /\ Leaves(w) \/ (Passes(w, "CountDaily", "Market") /\ ~(Cardinality(opened) >= MaxDaily))
    <3>1. "CountDaily" \in WorkerPc \ {"Idle"} /\ "Market" \in WorkerPc /\ "REFUSED" \in Decisions \ {"OPENED"}
      BY <1>1
    <3> QED
      BY <2>1, <3>1, CheckCase
  <2>3. Walks(w)
    BY <2>2 DEF Walks
  <2> QED
    BY <2>2, <2>3 DEF Effect
<1> QED
  BY <1>2, <1>3, <1>4, <1>5, <1>6

\* The steps that only look or only fail: the account, the market, RecordOrder and the catch block.
LEMMA LooksCase ==
    ASSUME IInv, NEW w \in Workers,
           FindAccount(w) \/ CheckMarket(w) \/ RecordOrder(w) \/ CatchFailure(w)
    PROVE  Effect(w)
<1> USE DEF IInv
<1>1. worker[w].pc # "Idle" /\ budget' \in 0..MaxFaults /\ Counted'
  BY BudgetType, CountedType DEF FindAccount, CheckMarket, RecordOrder, CatchFailure, accidents
<1>2. UNCHANGED <<bus, holder, records, exchange, locked>>
  BY DEF FindAccount, CheckMarket, RecordOrder, CatchFailure
<1>3. ASSUME NEW verdict \in {"REFUSED", "FAILED"}, Rejects(w, verdict) PROVE Effect(w)
  <2>1. verdict \in Decisions
    BY DEF Decisions
  <2>2. /\ worker' \in [Workers -> Worker \union {Idle}]
        /\ \A v \in Workers \ {w} : worker'[v] = worker[v]
        /\ worker'[w].pc = "Reject" /\ worker'[w].verdict # "OPENED"
    BY <1>1, <1>3, <2>1, IsRejected
  <2>3. Leaves(w)
    BY <2>2, AwayPcs DEF Leaves
  <2> QED
    BY <1>1, <1>2, <2>2, <2>3, OnlyWorker DEF Effect, Walks
<1>4. CASE Throws(w)
  <2>1. /\ worker' \in [Workers -> Worker \union {Idle}]
        /\ \A v \in Workers \ {w} : worker'[v] = worker[v]
        /\ worker'[w].pc = "Unlock"
    BY <1>1, <1>4, HasThrown
  <2>2. Leaves(w)
    BY <2>1, AwayPcs DEF Leaves
  <2> QED
    BY <1>1, <1>2, <2>1, <2>2, OnlyWorker DEF Effect, Walks
<1>5. ASSUME NEW pc \in {"Duplicate", "Catch"}, Goto(w, pc) PROVE Effect(w)
  <2>1. pc \in WorkerPc
    BY DEF WorkerPc
  <2>2. /\ worker' \in [Workers -> Worker \union {Idle}]
        /\ \A v \in Workers \ {w} : worker'[v] = worker[v]
        /\ worker'[w].pc = pc
    BY <1>1, <1>5, <2>1, GoesTo
  <2>3. Leaves(w)
    BY <2>2, AwayPcs DEF Leaves
  <2> QED
    BY <1>1, <1>2, <2>2, <2>3, OnlyWorker DEF Effect, Walks
<1>6. ASSUME worker[w].pc = "Market", Goto(w, "Place") PROVE Effect(w)
  <2>1. "Place" \in WorkerPc
    BY DEF WorkerPc
  <2>2. /\ worker' \in [Workers -> Worker \union {Idle}]
        /\ \A v \in Workers \ {w} : worker'[v] = worker[v]
        /\ Passes(w, "Market", "Place")
    BY <1>1, <1>6, <2>1, GoesTo DEF Passes
  <2> QED
    BY <1>1, <1>2, <2>2, OnlyWorker DEF Effect, Walks
<1>7. ASSUME worker[w].pc = "RecordOrder", Goto(w, "Decide") PROVE Effect(w)
  <2>1. "Decide" \in WorkerPc
    BY DEF WorkerPc
  <2>2. /\ worker' \in [Workers -> Worker \union {Idle}]
        /\ \A v \in Workers \ {w} : worker'[v] = worker[v]
        /\ Passes(w, "RecordOrder", "Decide")
    BY <1>1, <1>7, <2>1, GoesTo DEF Passes
  <2> QED
    BY <1>1, <1>2, <2>2, OnlyWorker DEF Effect, Walks
<1> QED
  BY <1>3, <1>4, <1>5, <1>6, <1>7 DEF FindAccount, CheckMarket, RecordOrder, CatchFailure

LEMMA PlaceOrderCase ==
    ASSUME IInv, NEW w \in Workers, PlaceOrder(w)
    PROVE  Effect(w)
<1> USE DEF IInv
<1>1. worker[w].pc = "Place" /\ worker[w].pc # "Idle" /\ worker[w].sig \in Signals /\ worker[w] \in Worker
  BY AtWork DEF PlaceOrder
<1>2. /\ UNCHANGED <<queue, processed, holder, rows, opened, decided, locked>>
      /\ budget' \in 0..MaxFaults /\ Counted'
  BY BudgetType, CountedType DEF PlaceOrder, bus, records, accidents
<1>3. Enters(w) \/ UNCHANGED <<entered, late>>
  BY DEF PlaceOrder, exchange
<1>4. entered' \in [Signals -> Nat] /\ late' \in SUBSET Entry
  <2>1. entered \in [Signals -> Nat] /\ late \in SUBSET Entry
    BY DEF TypeOK, Counted
  <2>2. CASE Enters(w)
    <3> DEFINE s == worker[w].sig
               n == entered[s] + 1
    <3>1. s \in Signals /\ n \in Nat \ {0}
      BY <1>1, <2>1
    <3>2. entered' = [entered EXCEPT ![s] = n] /\ late' \in {late, late \union {<<s, n>>}}
      BY <2>2 DEF Enters, Signal
    <3>3. <<s, n>> \in Entry
      BY <3>1 DEF Entry
    <3> HIDE DEF s, n
    <3> QED
      BY <2>1, <3>1, <3>2, <3>3
  <2> QED
    BY <1>3, <2>1, <2>2
<1>5. CASE Goto(w, "Catch")
  <2>1. "Catch" \in WorkerPc
    BY DEF WorkerPc
  <2>2. /\ worker' \in [Workers -> Worker \union {Idle}]
        /\ \A v \in Workers \ {w} : worker'[v] = worker[v]
        /\ worker'[w].pc = "Catch"
    BY <1>1, <1>5, <2>1, GoesTo
  <2>3. TypeOK'
    BY <1>2, <1>4, <2>2 DEF TypeOK, Counted
  <2>4. Leaves(w)
    BY <2>2, AwayPcs DEF Leaves
  <2> QED
    BY <1>1, <1>2, <1>3, <2>2, <2>3, <2>4 DEF Effect, Walks, Places
<1>6. ASSUME NEW pc \in {"OpenRow", "Catch"}, Enters(w), Sent(w, pc) PROVE Effect(w)
  <2> DEFINE n == entered[worker[w].sig] + 1
             r == [worker[w] EXCEPT !.pc = pc, !.entry = n]
  <2>1. n \in Nat
    BY <1>1 DEF TypeOK
  <2>2. worker' = [worker EXCEPT ![w] = r]
    BY <1>6 DEF Signal, Sent
  <2> HIDE DEF n
  <2>3. r \in Worker /\ r.pc = pc /\ r.sig = worker[w].sig /\ r.entry = n
    BY <1>1, <2>1 DEF Worker, WorkerPc
  <2> HIDE DEF r
  <2>4. Becomes(w, r)
    BY <2>2, <2>3, Moves
  <2>5. TypeOK'
    BY <1>2, <1>4, <2>4 DEF TypeOK, Counted, Becomes
  <2>6. pc = "Catch" => Leaves(w)
    BY <2>3, <2>4, AwayPcs DEF Leaves, Becomes
  <2>7. Places(w)
    BY <1>1, <1>2, <1>6, <2>3, <2>4, <2>6 DEF Places, Becomes, n
  <2> QED
    BY <1>2, <2>4, <2>5, <2>7 DEF Effect, Becomes
<1> QED
  BY <1>5, <1>6 DEF PlaceOrder

LEMMA OpenRowCase ==
    ASSUME IInv, NEW w \in Workers, OpenRow(w)
    PROVE  Effect(w)
<1> USE DEF IInv
<1>1. worker[w].pc = "OpenRow" /\ worker[w].pc # "Idle" /\ worker[w].sig \in Signals /\ worker[w].entry \in Nat
  BY AtWork DEF OpenRow
<1>2. /\ UNCHANGED <<queue, processed, holder, entered, late, opened, decided, locked>>
      /\ budget' \in 0..MaxFaults /\ Counted' /\ rows' \in {rows, rows \union {EntryOf(w)}}
  BY BudgetType, CountedType DEF OpenRow, bus, exchange, accidents
<1>3. EntryOf(w) \in Entry
  BY <1>1 DEF Recorded, Entry, EntryOf
<1>4. rows' \in SUBSET Entry
  BY <1>2, <1>3 DEF TypeOK, Counted
<1>5. PICK pc \in {"RecordOrder", "Catch"} :
         Goto(w, pc) /\ (pc = "RecordOrder" => rows' = rows \union {EntryOf(w)})
  BY DEF OpenRow
<1>6. pc \in WorkerPc
  BY DEF WorkerPc
<1>7. /\ worker' \in [Workers -> Worker \union {Idle}]
      /\ \A v \in Workers \ {w} : worker'[v] = worker[v]
      /\ Passes(w, "OpenRow", pc)
  BY <1>1, <1>5, <1>6, GoesTo DEF Passes
<1>8. TypeOK'
  BY <1>2, <1>4, <1>7 DEF TypeOK, Counted
<1>9. pc = "Catch" => Leaves(w)
  BY <1>7, AwayPcs DEF Leaves, Passes
<1>10. Opens(w)
  BY <1>1, <1>2, <1>5, <1>7, <1>9 DEF Opens
<1> QED
  BY <1>2, <1>7, <1>8, <1>10 DEF Effect

LEMMA DecideCase ==
    ASSUME IInv, NEW w \in Workers, Decide(w)
    PROVE  Effect(w)
<1> USE DEF IInv
<1>1. worker[w].pc = "Decide" /\ worker[w].pc # "Idle" /\ worker[w].sig \in Signals /\ worker[w] \in Worker
  BY AtWork DEF Decide
<1>2. /\ UNCHANGED <<queue, processed, holder, entered, late, rows, locked>>
      /\ budget' \in 0..MaxFaults /\ Counted' /\ opened' \in {opened, opened \union {EntryOf(w)}}
  BY BudgetType, CountedType DEF Decide, bus, exchange, InsertDecision, accidents
<1>3. EntryOf(w) \in rows
  BY <1>1 DEF Recorded
<1>4. opened' \in SUBSET Entry
  BY <1>2, <1>3 DEF TypeOK, Counted
<1>5. decided' \in [Signals -> SUBSET Decisions]
  <2>1. decided' \in {decided, [decided EXCEPT ![worker[w].sig] = @ \union {"OPENED"}]}
    BY DEF Decide, InsertDecision, Signal
  <2> QED
    BY <1>1, <2>1 DEF TypeOK, Counted, Decisions
<1>6. ASSUME NEW r \in Worker, r.pc \in {"Unlock", "Catch"}, worker' = [worker EXCEPT ![w] = r]
      PROVE  Effect(w)
  <2>1. Becomes(w, r)
    BY <1>6, Moves
  <2>2. TypeOK'
    BY <1>2, <1>4, <1>5, <2>1 DEF TypeOK, Counted, Becomes
  <2>3. Leaves(w)
    BY <1>6, <2>1, AwayPcs DEF Leaves, Becomes
  <2> QED
    BY <1>1, <1>2, <2>1, <2>2, <2>3 DEF Effect, Decides, Becomes
<1>7. ASSUME NEW pc \in {"Unlock", "Catch"}, Goto(w, pc) PROVE Effect(w)
  <2> DEFINE r == [worker[w] EXCEPT !.pc = pc]
  <2>1. worker' = [worker EXCEPT ![w] = r]
    BY <1>7 DEF Goto
  <2>2. r \in Worker /\ r.pc \in {"Unlock", "Catch"}
    BY <1>1 DEF Worker, WorkerPc
  <2> HIDE DEF r
  <2> QED
    BY <1>6, <2>1, <2>2
<1>8. ASSUME worker' = [worker EXCEPT ![w].pc = "Catch", ![w].inserted = TRUE] PROVE Effect(w)
  <2> DEFINE r == [worker[w] EXCEPT !.pc = "Catch", !.inserted = TRUE]
  <2>1. worker' = [worker EXCEPT ![w] = r]
    BY <1>8
  <2>2. r \in Worker /\ r.pc \in {"Unlock", "Catch"}
    BY <1>1 DEF Worker, WorkerPc
  <2> HIDE DEF r
  <2> QED
    BY <1>6, <2>1, <2>2
<1> QED
  BY <1>7, <1>8 DEF Decide

LEMMA RejectCase ==
    ASSUME IInv, NEW w \in Workers, Reject(w)
    PROVE  Effect(w)
<1> USE DEF IInv
<1>1. worker[w].pc = "Reject" /\ worker[w].pc # "Idle" /\ worker[w].sig \in Signals
      /\ worker[w].verdict \in Decisions /\ worker[w].verdict # "OPENED"
  BY AtWork DEF Reject, Recorded
<1>2. /\ UNCHANGED <<queue, processed, holder, entered, late, rows, locked>>
      /\ budget' \in 0..MaxFaults /\ Counted'
  BY BudgetType, CountedType DEF Reject, bus, exchange, accidents
<1>3. \/ UNCHANGED <<decided, opened>>
      \/ /\ UNCHANGED opened
         /\ decided' = [decided EXCEPT ![worker[w].sig] = @ \union {worker[w].verdict}]
  BY <1>1 DEF Reject, InsertDecision, Signal
<1>4. UNCHANGED opened /\ decided' \in [Signals -> SUBSET Decisions]
  BY <1>1, <1>3 DEF TypeOK, Counted
<1>5. CASE Goto(w, "Unlock")
  <2>1. "Unlock" \in WorkerPc
    BY DEF WorkerPc
  <2>2. /\ worker' \in [Workers -> Worker \union {Idle}]
        /\ \A v \in Workers \ {w} : worker'[v] = worker[v]
        /\ worker'[w].pc = "Unlock"
    BY <1>1, <1>5, <2>1, GoesTo
  <2>3. TypeOK'
    BY <1>2, <1>4, <2>2 DEF TypeOK, Counted
  <2>4. Leaves(w)
    BY <2>2, AwayPcs DEF Leaves
  <2> QED
    BY <1>2, <1>4, <2>2, <2>3, <2>4 DEF Effect, Walks
<1>6. CASE Throws(w)
  <2>1. /\ worker' \in [Workers -> Worker \union {Idle}]
        /\ \A v \in Workers \ {w} : worker'[v] = worker[v]
        /\ worker'[w].pc = "Unlock"
    BY <1>1, <1>6, HasThrown
  <2>2. TypeOK'
    BY <1>2, <1>4, <2>1 DEF TypeOK, Counted
  <2>3. Leaves(w)
    BY <2>1, AwayPcs DEF Leaves
  <2> QED
    BY <1>2, <1>4, <2>1, <2>2, <2>3 DEF Effect, Walks
<1> QED
  BY <1>5, <1>6 DEF Reject

(***************************************************************************)
(* Part 4.  Counting: who is past a check has a share of the bound, and    *)
(* gives it up when it adds an element.                                    *)
(***************************************************************************)
LEMMA Shrinks ==
    ASSUME NEW S, NEW W \in SUBSET Workers, NEW bound \in Int, Bounded(S, W, bound),
           NEW T \in SUBSET S, NEW V \in SUBSET W
    PROVE  Bounded(T, V, bound)
<1>1. IsFiniteSet(S) /\ IsFiniteSet(W)
  BY FS_Subset, WorkersAssumption DEF Bounded
<1>2. /\ IsFiniteSet(T) /\ Cardinality(T) <= Cardinality(S)
      /\ IsFiniteSet(V) /\ Cardinality(V) <= Cardinality(W)
  BY <1>1, FS_Subset
<1>3. Cardinality(S) \in Nat /\ Cardinality(T) \in Nat /\ Cardinality(W) \in Nat /\ Cardinality(V) \in Nat
  BY <1>1, <1>2, FS_CardinalityType
<1> QED
  BY <1>2, <1>3 DEF Bounded

LEMMA Pays ==
    ASSUME NEW S, NEW W \in SUBSET Workers, NEW bound \in Int, Bounded(S, W, bound),
           NEW w \in W, NEW V \in SUBSET (W \ {w}), NEW e, NEW T \in SUBSET (S \union {e})
    PROVE  Bounded(T, V, bound)
<1>1. IsFiniteSet(S) /\ IsFiniteSet(W)
  BY FS_Subset, WorkersAssumption DEF Bounded
<1>2. /\ IsFiniteSet(S \union {e}) /\ Cardinality(S \union {e}) <= Cardinality(S) + 1
      /\ IsFiniteSet(W \ {w}) /\ Cardinality(W \ {w}) = Cardinality(W) - 1
  BY <1>1, FS_AddElement, FS_RemoveElement, FS_CardinalityType
<1>3. /\ IsFiniteSet(T) /\ Cardinality(T) <= Cardinality(S \union {e})
      /\ IsFiniteSet(V) /\ Cardinality(V) <= Cardinality(W \ {w})
  BY <1>2, FS_Subset
<1>4. /\ Cardinality(S) \in Nat /\ Cardinality(T) \in Nat /\ Cardinality(W) \in Nat /\ Cardinality(V) \in Nat
      /\ Cardinality(S \union {e}) \in Nat
  BY <1>1, <1>2, <1>3, FS_CardinalityType
<1> QED
  BY <1>2, <1>3, <1>4 DEF Bounded

LEMMA Fits ==
    ASSUME NEW S, IsFiniteSet(S), NEW most \in Int, Cardinality(S) <= most, NEW V \in SUBSET Workers
    PROVE  Bounded(S, V, most + Cardinality(Workers))
<1>1. IsFiniteSet(V) /\ Cardinality(V) <= Cardinality(Workers)
  BY FS_Subset, WorkersAssumption
<1>2. Cardinality(S) \in Nat /\ Cardinality(V) \in Nat /\ Cardinality(Workers) \in Nat
  BY <1>1, FS_CardinalityType, WorkersAssumption
<1> QED
  BY <1>1, <1>2 DEF Bounded

LEMMA BoundsAreInts ==
    /\ Cardinality(Workers) \in Nat /\ Cardinality(Workers) > 0
    /\ MaxOpen + Cardinality(Workers) - 1 \in Int /\ MaxDaily + Cardinality(Workers) - 1 \in Int
    /\ MaxOpen - 1 \in Int /\ MaxDaily - 1 \in Int
<1>1. Cardinality(Workers) \in Nat /\ Cardinality(Workers) # 0
  BY FS_CardinalityType, FS_EmptySet, WorkersAssumption
<1> QED
  BY <1>1, LimitsAssumption

LEMMA InitIInv == Init => IInv
<1> SUFFICES ASSUME Init PROVE IInv
  OBVIOUS
<1> USE DEF Init
<1>1. /\ \A w \in Workers : worker[w] = Idle /\ worker[w].pc = "Idle"
      /\ worker \in [Workers -> Worker \union {Idle}]
  BY DEF Idle
<1>2. TypeOK
  <2>1. queue \in SUBSET Delivery
    BY LimitsAssumption DEF Delivery
  <2>2. /\ holder \in [Signals -> Workers \union {"nobody"}] /\ entered \in [Signals -> Nat]
        /\ decided \in [Signals -> SUBSET Decisions]
    OBVIOUS
  <2>3. /\ processed \in SUBSET Signals
        /\ rows \in SUBSET Entry /\ opened \in SUBSET Entry /\ late \in SUBSET Entry
    OBVIOUS
  <2>4. locked \in BOOLEAN /\ forgotten \in [Signals -> Nat] /\ bared \in [Signals -> Nat]
    OBVIOUS
  <2>5. budget \in 0..MaxFaults
    BY EntryFaultsAssumption
  <2> QED
    BY <1>1, <2>1, <2>2, <2>3, <2>4, <2>5 DEF TypeOK
<1>3. OpenedHasPosition /\ NoneLate
  BY DEF OpenedHasPosition, NoneLate
<1>4. \A w \in Workers : Recorded(w)
  BY <1>1 DEF Recorded
<1>5. At(PastOpen) = {} /\ At(PastDaily) = {} /\ \A x \in Symbols : AtOfSymbol(x) = {} /\ RowsOf(x) = {}
  BY <1>1 DEF At, AtOfSymbol, RowsOf, PastOpen, PastDaily, PastSymbol
<1>6. IsFiniteSet({}) /\ Cardinality({}) = 0
  BY FS_EmptySet
<1>7. \A bound \in Nat : Bounded({}, {}, bound)
  BY <1>6 DEF Bounded
<1>8. MaxOpen + Cardinality(Workers) - 1 \in Nat /\ MaxDaily + Cardinality(Workers) - 1 \in Nat
  BY BoundsAreInts, LimitsAssumption
<1>9. LateBounded /\ OpenBounded
  BY <1>5, <1>7, <1>8, BoundsAreInts DEF LateBounded, OpenBounded
<1>10. SymbolBounded /\ DailyBounded
  BY <1>5, <1>7, <1>8, BoundsAreInts DEF SymbolBounded, DailyBounded
<1> QED
  BY <1>2, <1>3, <1>4, <1>9, <1>10 DEF IInv

LEMMA IInvImplies == IInv => TypeOK /\ OpenedHasPosition /\ WithinLimits /\ LateEntriesBounded
<1> SUFFICES ASSUME IInv PROVE TypeOK /\ OpenedHasPosition /\ WithinLimits /\ LateEntriesBounded
  OBVIOUS
<1>1. ASSUME NEW S, NEW W \in SUBSET Workers, NEW bound \in Int, Bounded(S, W, bound)
      PROVE  Cardinality(S) <= bound /\ Cardinality(S) \in Nat
  <2>1. IsFiniteSet(S) /\ IsFiniteSet(W)
    BY <1>1, FS_Subset, WorkersAssumption DEF Bounded
  <2>2. Cardinality(S) \in Nat /\ Cardinality(W) \in Nat
    BY <2>1, FS_CardinalityType
  <2> QED
    BY <1>1, <2>2 DEF Bounded
<1>2. At(PastOpen) \in SUBSET Workers /\ At(PastDaily) \in SUBSET Workers /\ At(PastLock) \in SUBSET Workers
      /\ \A x \in Symbols : AtOfSymbol(x) \in SUBSET Workers
  BY DEF At, AtOfSymbol
<1>3. Cardinality(late) <= Cardinality(Workers)
  BY <1>1, <1>2, BoundsAreInts DEF IInv, LateBounded
<1>4. Cardinality(rows) <= MaxOpen + Cardinality(Workers) - 1 /\ Cardinality(rows) \in Nat
  BY <1>1, <1>2, BoundsAreInts DEF IInv, OpenBounded
<1>5. Cardinality(opened) <= MaxDaily + Cardinality(Workers) - 1 /\ Cardinality(opened) \in Nat
  BY <1>1, <1>2, BoundsAreInts DEF IInv, DailyBounded
<1>6. \A x \in Symbols : Cardinality(RowsOf(x)) <= Cardinality(Workers)
  BY <1>1, <1>2, BoundsAreInts DEF IInv, SymbolBounded
<1> QED
  BY <1>3, <1>4, <1>5, <1>6, BoundsAreInts, LimitsAssumption
  DEF IInv, WithinLimits, LateEntriesBounded, RowsOf

(***************************************************************************)
(* Part 5.  A step of a worker keeps the invariant.                        *)
(***************************************************************************)
LEMMA Grows ==
    ASSUME IInv, NEW w \in Workers, Effect(w)
    PROVE  /\ rows \subseteq rows'
           /\ \A s \in Signals : entered[s] \in Nat /\ entered'[s] \in Nat /\ entered[s] <= entered'[s]
<1>1. rows \subseteq rows'
  BY DEF Effect, Walks, Places, Opens, Decides
<1>2. entered \in [Signals -> Nat] /\ entered' \in [Signals -> Nat]
  BY DEF IInv, Effect, TypeOK
<1>3. ASSUME NEW s \in Signals PROVE entered[s] <= entered'[s]
  <2>1. CASE UNCHANGED entered
    BY <1>2, <2>1
  <2>2. CASE Enters(w)
    <3>1. entered' = [entered EXCEPT ![Signal(w)] = @ + 1]
      BY <2>2 DEF Enters
    <3>2. entered'[s] = entered[s] \/ entered'[s] = entered[s] + 1
      BY <1>2, <3>1
    <3> QED
      BY <1>2, <3>2
  <2> QED
    BY <2>1, <2>2 DEF Effect, Walks, Places, Opens, Decides
<1> QED
  BY <1>1, <1>2, <1>3

LEMMA RecordsStay ==
    ASSUME IInv, NEW w \in Workers, Effect(w)
    PROVE  OpenedHasPosition' /\ \A v \in Workers : Recorded(v)'
<1> USE DEF IInv
<1>1. /\ rows \subseteq rows'
      /\ \A s \in Signals : entered[s] \in Nat /\ entered'[s] \in Nat /\ entered[s] <= entered'[s]
  BY Grows
<1>2. worker[w].pc # "Idle" => worker[w].sig \in Signals /\ worker[w].entry \in Nat
  BY AtWork
<1>3. \A r \in rows' : r \in rows \/ (worker[w].pc = "OpenRow" /\ r = EntryOf(w))
  BY DEF Effect, Walks, Places, Opens, Decides
<1>4. \A r \in opened' : r \in opened \/ (worker[w].pc = "Decide" /\ r = EntryOf(w))
  BY DEF Effect, Walks, Places, Opens, Decides
<1>5. opened' \subseteq rows'
  BY <1>1, <1>4 DEF OpenedHasPosition, Recorded
<1>6. ASSUME NEW r \in rows' PROVE r[2] <= entered'[r[1]]
  <2>1. CASE r \in rows
    <3>1. r[1] \in Signals /\ r[2] \in Nat /\ r[2] <= entered[r[1]]
      BY <2>1 DEF OpenedHasPosition, TypeOK, Entry
    <3> QED
      BY <1>1, <3>1
  <2>2. CASE worker[w].pc = "OpenRow" /\ r = EntryOf(w)
    <3>1. r[1] = worker[w].sig /\ r[2] = worker[w].entry
      BY <2>2 DEF EntryOf
    <3>2. worker[w].entry <= entered[worker[w].sig]
      BY <2>2 DEF Recorded
    <3> QED
      BY <1>1, <1>2, <2>2, <3>1, <3>2
  <2> QED
    BY <1>3, <2>1, <2>2
<1>7. ASSUME NEW v \in Workers, v # w PROVE Recorded(v)'
  <2>1. worker'[v] = worker[v] /\ EntryOf(v)' = EntryOf(v)
    BY <1>7 DEF Effect, EntryOf
  <2>2. worker[v].pc # "Idle" => worker[v].sig \in Signals /\ worker[v].entry \in Nat
    BY AtWork
  <2>3. worker[v].pc \in {"OpenRow", "RecordOrder", "Decide"} => worker[v].entry <= entered'[worker[v].sig]
    BY <1>1, <2>2 DEF Recorded
  <2> QED
    BY <1>1, <2>1, <2>3 DEF Recorded
<1>8. Recorded(w)'
  <2>1. CASE Leaves(w)
    <3>1. worker'[w].pc \notin {"OpenRow", "RecordOrder", "Decide"}
      BY <2>1 DEF Leaves, Away, Past, PastOpen, PastDaily
    <3> QED
      BY <2>1, <3>1 DEF Recorded, Leaves
  <2>2. CASE worker'[w].pc \in {"CountOpen", "HasSymbol", "CountDaily", "Market", "Place"}
    BY <2>2 DEF Recorded
  <2>3. CASE Passes(w, "RecordOrder", "Decide")
    <3>1. EntryOf(w)' = EntryOf(w) /\ EntryOf(w) \in rows' /\ worker'[w].entry # 0
      BY <1>1, <2>3 DEF Passes, EntryOf, Recorded
    <3>2. worker'[w].entry <= entered'[worker'[w].sig]
      BY <1>1, <1>2, <2>3 DEF Passes, Recorded
    <3> QED
      BY <2>3, <3>1, <3>2 DEF Passes, Recorded
  <2>4. CASE Passes(w, "OpenRow", "RecordOrder") /\ rows' = rows \union {EntryOf(w)}
    <3>1. EntryOf(w)' = EntryOf(w) /\ EntryOf(w) \in rows' /\ worker'[w].entry # 0
      BY <2>4 DEF Passes, EntryOf, Recorded
    <3>2. worker'[w].entry <= entered'[worker'[w].sig]
      BY <1>1, <1>2, <2>4 DEF Passes, Recorded
    <3> QED
      BY <2>4, <3>1, <3>2 DEF Passes, Recorded
  <2>5. CASE Places(w) /\ ~Leaves(w)
    <3>1. /\ worker'[w].pc = "OpenRow" /\ worker'[w].sig = worker[w].sig
          /\ worker'[w].entry = entered[worker[w].sig] + 1
          /\ entered' = [entered EXCEPT ![worker[w].sig] = @ + 1] /\ worker[w].pc = "Place"
      BY <2>5 DEF Places, Enters, Signal
    <3>2. entered'[worker[w].sig] = entered[worker[w].sig] + 1
      BY <1>2, <3>1 DEF TypeOK
    <3> QED
      BY <1>1, <1>2, <3>1, <3>2 DEF Recorded
  <2> QED
    BY <2>1, <2>2, <2>3, <2>4, <2>5 DEF Effect, Walks, Places, Opens, Decides, Passes
<1> QED
  BY <1>5, <1>6, <1>7, <1>8 DEF OpenedHasPosition

\* Who is at which place after a step of worker w.
LEMMA AtAfter ==
    ASSUME NEW w \in Workers, \A v \in Workers \ {w} : worker'[v] = worker[v], NEW pcs
    PROVE  /\ At(pcs) \in SUBSET Workers /\ At(pcs)' \in SUBSET Workers
           /\ At(pcs)' \subseteq At(pcs) \union {w}
           /\ worker[w].pc \in pcs => At(pcs)' \subseteq At(pcs) /\ w \in At(pcs)
           /\ worker'[w].pc \notin pcs => At(pcs)' \subseteq At(pcs) \ {w}
BY DEF At

LEMMA OpenKept ==
    ASSUME IInv, NEW w \in Workers, Effect(w)
    PROVE  OpenBounded'
<1> DEFINE bound == MaxOpen + Cardinality(Workers) - 1
           W == At(PastOpen)
<1>1. bound \in Int /\ Bounded(rows, W, bound)
  BY BoundsAreInts DEF IInv, OpenBounded
<1>2. /\ W \in SUBSET Workers /\ W' \in SUBSET Workers
      /\ worker[w].pc \in PastOpen => W' \subseteq W /\ w \in W
      /\ worker'[w].pc \notin PastOpen => W' \subseteq W \ {w}
  BY AtAfter DEF Effect
<1>3. OpenBounded' = Bounded(rows', W', bound)
  BY DEF OpenBounded, Bounded
<1> HIDE DEF W, bound
<1>4. CASE Passes(w, "CountOpen", "HasSymbol") /\ UNCHANGED rows /\ ~(Cardinality(rows) >= MaxOpen)
  <2>1. IsFiniteSet(rows) /\ Cardinality(rows) \in Nat
    BY <1>1, FS_CardinalityType DEF Bounded
  <2>2. Cardinality(rows) <= MaxOpen - 1
    BY <1>4, <2>1, LimitsAssumption
  <2>3. Bounded(rows, W', (MaxOpen - 1) + Cardinality(Workers))
    BY <1>2, <2>1, <2>2, BoundsAreInts, Fits
  <2>4. (MaxOpen - 1) + Cardinality(Workers) = bound
    BY BoundsAreInts, LimitsAssumption DEF bound
  <2> QED
    BY <1>3, <1>4, <2>3, <2>4
<1>5. CASE Opens(w)
  <2>1. worker[w].pc \in PastOpen /\ worker'[w].pc \notin PastOpen /\ rows' \subseteq rows \union {EntryOf(w)}
    BY <1>5 DEF Opens, Leaves, Away, Past, PastOpen, Passes
  <2>2. PICK e : e = EntryOf(w)
    OBVIOUS
  <2>3. w \in W /\ W' \in SUBSET (W \ {w}) /\ rows' \in SUBSET (rows \union {e})
    BY <1>2, <2>1, <2>2
  <2> QED
    BY <1>1, <1>2, <1>3, <2>3, Pays
<1>6. CASE UNCHANGED rows /\ ~Passes(w, "CountOpen", "HasSymbol")
  <2>1. worker'[w].pc \in PastOpen => worker[w].pc \in PastOpen
    BY <1>6 DEF Effect, Walks, Places, Opens, Decides, Leaves, Passes, Away, Past, PastOpen
  <2>2. W' \in SUBSET W /\ rows' \in SUBSET rows
    BY <1>2, <1>6, <2>1
  <2> QED
    BY <1>1, <1>2, <1>3, <2>2, Shrinks
<1> QED
  BY <1>4, <1>5, <1>6 DEF Effect, Walks, Places, Decides, Leaves, Passes, Away, Past, PastOpen

LEMMA DailyKept ==
    ASSUME IInv, NEW w \in Workers, Effect(w)
    PROVE  DailyBounded'
<1> DEFINE bound == MaxDaily + Cardinality(Workers) - 1
           W == At(PastDaily)
<1>1. bound \in Int /\ Bounded(opened, W, bound)
  BY BoundsAreInts DEF IInv, DailyBounded
<1>2. /\ W \in SUBSET Workers /\ W' \in SUBSET Workers
      /\ worker[w].pc \in PastDaily => W' \subseteq W /\ w \in W
      /\ worker'[w].pc \notin PastDaily => W' \subseteq W \ {w}
  BY AtAfter DEF Effect
<1>3. DailyBounded' = Bounded(opened', W', bound)
  BY DEF DailyBounded, Bounded
<1> HIDE DEF W, bound
<1>4. CASE Passes(w, "CountDaily", "Market") /\ UNCHANGED opened /\ ~(Cardinality(opened) >= MaxDaily)
  <2>1. IsFiniteSet(opened) /\ Cardinality(opened) \in Nat
    BY <1>1, FS_CardinalityType DEF Bounded
  <2>2. Cardinality(opened) <= MaxDaily - 1
    BY <1>4, <2>1, LimitsAssumption
  <2>3. Bounded(opened, W', (MaxDaily - 1) + Cardinality(Workers))
    BY <1>2, <2>1, <2>2, BoundsAreInts, Fits
  <2>4. (MaxDaily - 1) + Cardinality(Workers) = bound
    BY BoundsAreInts, LimitsAssumption DEF bound
  <2> QED
    BY <1>3, <1>4, <2>3, <2>4
<1>5. CASE Decides(w)
  <2>1. worker[w].pc \in PastDaily /\ worker'[w].pc \notin PastDaily /\ opened' \subseteq opened \union {EntryOf(w)}
    BY <1>5 DEF Decides, Leaves, Away, Past, PastDaily
  <2>2. PICK e : e = EntryOf(w)
    OBVIOUS
  <2>3. w \in W /\ W' \in SUBSET (W \ {w}) /\ opened' \in SUBSET (opened \union {e})
    BY <1>2, <2>1, <2>2
  <2> QED
    BY <1>1, <1>2, <1>3, <2>3, Pays
<1>6. CASE UNCHANGED opened /\ ~Passes(w, "CountDaily", "Market")
  <2>1. worker'[w].pc \in PastDaily => worker[w].pc \in PastDaily
    BY <1>6 DEF Effect, Walks, Places, Opens, Decides, Leaves, Passes, Away, Past, PastDaily
  <2>2. W' \in SUBSET W /\ opened' \in SUBSET opened
    BY <1>2, <1>6, <2>1
  <2> QED
    BY <1>1, <1>2, <1>3, <2>2, Shrinks
<1> QED
  BY <1>4, <1>5, <1>6 DEF Effect, Walks, Places, Opens, Leaves, Passes, Away, Past, PastDaily

LEMMA LateKept ==
    ASSUME IInv, NEW w \in Workers, Effect(w)
    PROVE  NoneLate' /\ LateBounded'
<1> DEFINE W == IF locked THEN At(PastLock) ELSE {}
           A == At(PastLock)
           bound == Cardinality(Workers)
<1>1. bound \in Int /\ Bounded(late, W, bound) /\ locked' = locked
  BY BoundsAreInts DEF IInv, LateBounded, Effect
<1>2. /\ A \in SUBSET Workers
      /\ worker[w].pc \in PastLock => A' \subseteq A /\ w \in A
      /\ worker'[w].pc \notin PastLock => A' \subseteq A \ {w}
  BY AtAfter DEF Effect
<1>3. LateBounded' = Bounded(late', IF locked THEN A' ELSE {}, bound)
  BY <1>1 DEF LateBounded, Bounded
<1> HIDE DEF A, bound
<1>4. CASE ~locked
  <2>1. UNCHANGED late
    BY <1>4 DEF Effect, Walks, Places, Opens, Decides, Enters
  <2> QED
    BY <1>1, <1>3, <1>4, <2>1 DEF IInv, NoneLate
<1>5. CASE locked
  <2>1. NoneLate' /\ Bounded(late, A, bound) /\ LateBounded' = Bounded(late', A', bound)
    BY <1>1, <1>3, <1>5 DEF NoneLate, A
  <2>2. CASE Places(w)
    <3>1. worker[w].pc \in PastLock /\ worker'[w].pc \notin PastLock
      BY <2>2 DEF Places, Leaves, Away, Past, PastLock
    <3>2. PICK e : e = <<Signal(w), entered[Signal(w)] + 1>>
      OBVIOUS
    <3>3. w \in A /\ A' \in SUBSET (A \ {w}) /\ late' \in SUBSET (late \union {e})
      BY <1>2, <2>2, <3>1, <3>2 DEF Places, Enters
    <3> QED
      BY <1>1, <1>2, <2>1, <3>3, Pays
  <2>3. CASE UNCHANGED late
    <3>1. worker'[w].pc \in PastLock => worker[w].pc \in PastLock
      BY <1>5, <2>3 DEF Effect, Walks, Places, Opens, Decides, Leaves, Passes, Away, Past, PastLock
    <3>2. A' \in SUBSET A /\ late' \in SUBSET late
      BY <1>2, <2>3, <3>1
    <3> QED
      BY <1>1, <1>2, <2>1, <3>2, Shrinks
  <2> QED
    BY <2>2, <2>3 DEF Effect, Walks, Opens, Decides
<1> QED
  BY <1>4, <1>5

LEMMA SymbolKept ==
    ASSUME IInv, NEW w \in Workers, Effect(w)
    PROVE  SymbolBounded'
<1> DEFINE bound == Cardinality(Workers)
<1>1. \A v \in Workers \ {w} : worker'[v] = worker[v]
  BY DEF Effect
<1> SUFFICES ASSUME NEW x \in Symbols PROVE Bounded(RowsOf(x)', AtOfSymbol(x)', bound)
  BY DEF SymbolBounded, Bounded
<1> DEFINE W == AtOfSymbol(x)
           Mine == worker[w].pc \in PastSymbol /\ SymbolOf[worker[w].sig] = x
<1>2. bound \in Int /\ Bounded(RowsOf(x), W, bound)
  BY BoundsAreInts DEF IInv, SymbolBounded
<1>3. /\ W \in SUBSET Workers /\ W' \in SUBSET Workers
      /\ Mine => W' \subseteq W /\ w \in W
      /\ ~(worker'[w].pc \in PastSymbol /\ SymbolOf[worker'[w].sig] = x) => W' \subseteq W \ {w}
  BY <1>1 DEF AtOfSymbol
<1>4. W' = AtOfSymbol(x)'
  OBVIOUS
<1> HIDE DEF W, bound, Mine
<1>5. CASE Passes(w, "HasSymbol", "CountDaily") /\ UNCHANGED rows /\ ~HasOpenSymbol(SymbolOf[worker[w].sig])
  <2>1. CASE SymbolOf[worker[w].sig] = x
    <3>1. RowsOf(x)' = {}
      BY <1>5, <2>1 DEF RowsOf, HasOpenSymbol
    <3>2. Bounded({}, W', 0 + Cardinality(Workers))
      BY <1>3, FS_EmptySet, Fits
    <3> QED
      BY <1>4, <3>1, <3>2, BoundsAreInts DEF bound
  <2>2. CASE SymbolOf[worker[w].sig] # x
    <3>1. W' \in SUBSET W /\ RowsOf(x)' \in SUBSET RowsOf(x)
      BY <1>3, <1>5, <2>2 DEF Passes, RowsOf
    <3> QED
      BY <1>2, <1>3, <3>1, Shrinks, <1>4
  <2> QED
    BY <2>1, <2>2
<1>6. CASE Opens(w)
  <2>1. worker[w].pc \in PastSymbol /\ worker'[w].pc \notin PastSymbol /\ rows' \subseteq rows \union {EntryOf(w)}
    BY <1>6 DEF Opens, Leaves, Away, Past, PastSymbol, Passes
  <2>2. PICK e : e = EntryOf(w)
    OBVIOUS
  <2>3. W' \in SUBSET (W \ {w})
    BY <1>3, <2>1
  <2>4. CASE SymbolOf[worker[w].sig] = x
    <3>1. w \in W /\ RowsOf(x)' \in SUBSET (RowsOf(x) \union {e})
      BY <1>3, <2>1, <2>2, <2>4 DEF RowsOf, Mine
    <3> QED
      BY <1>2, <1>3, <2>3, <3>1, Pays, <1>4
  <2>5. CASE SymbolOf[worker[w].sig] # x
    <3>1. e[1] = worker[w].sig
      BY <2>2 DEF EntryOf
    <3>2. RowsOf(x)' \in SUBSET RowsOf(x)
      BY <2>1, <2>2, <2>5, <3>1 DEF RowsOf
    <3> QED
      BY <1>2, <1>3, <2>3, <3>2, Shrinks, <1>4
  <2> QED
    BY <2>4, <2>5
<1>7. CASE UNCHANGED rows /\ ~Passes(w, "HasSymbol", "CountDaily")
  <2>1. worker'[w].pc \in PastSymbol => worker[w].pc \in PastSymbol /\ worker'[w].sig = worker[w].sig
    BY <1>7 DEF Effect, Walks, Places, Opens, Decides, Leaves, Passes, Away, Past, PastSymbol
  <2>2. W' \in SUBSET W /\ RowsOf(x)' \in SUBSET RowsOf(x)
    BY <1>3, <1>7, <2>1 DEF RowsOf, Mine
  <2> QED
    BY <1>2, <1>3, <2>2, Shrinks, <1>4
<1> QED
  BY <1>5, <1>6, <1>7 DEF Effect, Walks, Places, Decides, Leaves, Passes, Away, Past, PastSymbol

LEMMA WorkerKeepsIInv ==
    ASSUME IInv, NEW w \in Workers,
           WorkerStep(w) \/ Crash(w) \/ \E d \in Delivery : Deliver(w, d)
    PROVE  IInv'
<1>1. Effect(w)
  BY DeliverCase, CrashCase, TryLockCase, RejectBusyCase, UnlockCase, ChecksCase, LooksCase,
     PlaceOrderCase, OpenRowCase, DecideCase, RejectCase
  DEF WorkerStep
<1> QED
  BY <1>1, RecordsStay, OpenKept, DailyKept, LateKept, SymbolKept DEF IInv, Effect

\* A step that leaves workers, entries and rows alone.
LEMMA ElsewhereKeepsIInv ==
    ASSUME IInv, UNCHANGED <<worker, entered, late, rows, opened, decided, locked>>,
           queue' \in SUBSET Delivery, processed' \in SUBSET Signals,
           holder' \in [Signals -> Workers \union {"nobody"}], budget' \in 0..MaxFaults, Counted'
    PROVE  IInv'
<1>1. TypeOK'
  BY DEF IInv, TypeOK, Counted
<1>2. OpenedHasPosition' /\ NoneLate' /\ \A w \in Workers : Recorded(w)'
  BY DEF IInv, OpenedHasPosition, NoneLate, Recorded, EntryOf
<1>3. LateBounded' /\ OpenBounded' /\ SymbolBounded' /\ DailyBounded'
  BY DEF IInv, LateBounded, OpenBounded, SymbolBounded, DailyBounded, Bounded, At, AtOfSymbol, RowsOf
<1> QED
  BY <1>1, <1>2, <1>3 DEF IInv

LEMMA SetTradingLockKeepsIInv ==
    ASSUME IInv, SetTradingLock
    PROVE  IInv'
<1>1. /\ UNCHANGED <<worker, entered, late, rows, opened, decided, queue, processed, holder, budget>>
      /\ UNCHANGED <<forgotten, bared>> /\ ~locked /\ locked' = TRUE
  BY DEF SetTradingLock, bus, records, exchange, accidents
<1>2. TypeOK'
  <2>1. locked' \in BOOLEAN
    BY <1>1
  <2> QED
    BY <1>1, <2>1 DEF IInv, TypeOK
<1>3. OpenedHasPosition' /\ NoneLate' /\ \A w \in Workers : Recorded(w)'
  BY <1>1 DEF IInv, OpenedHasPosition, NoneLate, Recorded, EntryOf
<1>4. OpenBounded' /\ SymbolBounded' /\ DailyBounded'
  BY <1>1 DEF IInv, OpenBounded, SymbolBounded, DailyBounded, Bounded, At, AtOfSymbol, RowsOf
<1>5. LateBounded'
  <2>1. late' = {} /\ IsFiniteSet({}) /\ Cardinality({}) = 0
    BY <1>1, FS_EmptySet DEF IInv, NoneLate
  <2>2. At(PastLock)' \in SUBSET Workers
    BY DEF At
  <2>3. Bounded({}, At(PastLock)', 0 + Cardinality(Workers))
    BY <2>1, <2>2, Fits
  <2> QED
    BY <1>1, <2>1, <2>3, BoundsAreInts DEF LateBounded, Bounded
<1> QED
  BY <1>2, <1>3, <1>4, <1>5 DEF IInv

LEMMA StepIInv == IInv /\ [Next]_vars => IInv'
<1> SUFFICES ASSUME IInv, [Next]_vars PROVE IInv'
  OBVIOUS
<1>1. CASE SetTradingLock
  BY <1>1, SetTradingLockKeepsIInv
<1>2. ASSUME NEW s \in Signals, ConnectionCloses(s) PROVE IInv'
  <2>1. /\ UNCHANGED <<worker, entered, late, rows, opened, decided, locked, queue, processed>>
        /\ budget' \in 0..MaxFaults
    BY <1>2, BudgetType DEF ConnectionCloses, bus, records, exchange, IInv
  <2>2. holder' \in [Signals -> Workers \union {"nobody"}]
    BY <1>2 DEF ConnectionCloses, IInv, TypeOK
  <2>3. Counted'
    BY <1>2 DEF ConnectionCloses, IInv, TypeOK, Counted
  <2> QED
    BY <2>1, <2>2, <2>3, ElsewhereKeepsIInv DEF IInv, TypeOK
<1>3. ASSUME NEW d \in Delivery, SkipProcessed(d) PROVE IInv'
  BY <1>3, ElsewhereKeepsIInv DEF SkipProcessed, records, exchange, accidents, IInv, TypeOK, Counted
<1>4. ASSUME NEW w \in Workers, WorkerStep(w) \/ Crash(w) \/ \E d \in Delivery : Deliver(w, d) PROVE IInv'
  BY <1>4, WorkerKeepsIInv
<1>5. CASE UNCHANGED vars
  BY <1>5, ElsewhereKeepsIInv DEF vars, IInv, TypeOK, Counted
<1> QED
  BY <1>1, <1>2, <1>3, <1>4, <1>5 DEF Next

LEMMA AlwaysIInv == Spec => []IInv
BY InitIInv, StepIInv, PTL DEF Spec

\* Every variable of the entry side keeps to its type.
THEOREM TypeCorrect == Spec => []TypeOK
BY AlwaysIInv, IInvImplies, PTL

\* Whatever query fails and wherever the process dies, execution_decisions says OPENED only
\* of an entry with a row in active_positions, and a row stands only for an executed order.
THEOREM OpenedHasPositionHolds == Spec => []OpenedHasPosition
BY AlwaysIInv, IInvImplies, PTL

\* The limits are checked before the row they count exists; however many processes have
\* passed a check at once, each exceeds it by one at most.
THEOREM WithinLimitsHolds == Spec => []WithinLimits
BY AlwaysIInv, IInvImplies, PTL

\* After activate sets a trading lock no process enters more than once.
THEOREM LateEntriesBoundedHolds == Spec => []LateEntriesBounded
BY AlwaysIInv, IInvImplies, PTL

(***************************************************************************)
(* Part 6.  Every entry of a signal beyond the first is owed to an         *)
(* accident of its own.  AccidentStep is a step of a worker as this        *)
(* invariant sees it.                                                      *)
(***************************************************************************)
\* It touches its own signal only, and a decision stays.
OwnOnly(w) ==
    /\ \A v \in Workers \ {w} : worker'[v] = worker[v]
    /\ worker'[w].pc # "Idle" => worker'[w].sig = worker[w].sig
    /\ worker'[w].pc # "Idle" /\ worker'[w].inserted => worker[w].inserted \/ decided'[worker[w].sig] # {}
    /\ \A t \in Signals \ {worker[w].sig} :
          entered'[t] = entered[t] /\ forgotten'[t] = forgotten[t]
    /\ UNCHANGED bared
    /\ \A t \in Signals : decided[t] # {} => decided'[t] # {}

\* It comes in with the lock only, and moves no lock that another worker holds.
KeepsLocks(w) ==
    /\ \A t \in Signals : holder'[t] = holder[t] \/ holder[t] \in {"nobody", w}
    /\ worker'[w].pc \in Inside =>
          \/ worker[w].pc \in Inside /\ holder'[worker[w].sig] = holder[worker[w].sig]
          \/ holder'[worker[w].sig] = w

Quiet(w) ==
    /\ UNCHANGED <<entered, forgotten>>
    /\ worker'[w].pc \in Entering => worker[w].pc \in Entering
    /\ worker[w].pc \in Placed /\ worker[w].entry # 0 =>
          \/ worker'[w].pc \in Placed /\ worker'[w].entry = worker[w].entry
          \/ decided'[worker[w].sig] # {}
Looks(w) ==
    /\ worker[w].pc = "Duplicate" /\ worker'[w].pc \in Entering
    /\ decided[worker[w].sig] = {} /\ UNCHANGED <<entered, forgotten>>
Orders(w) ==
    /\ worker[w].pc = "Place" /\ worker'[w].pc \in Placed /\ worker'[w].entry # 0
    /\ entered'[worker[w].sig] = entered[worker[w].sig] + 1 /\ UNCHANGED forgotten
Gives(w) ==
    /\ forgotten'[worker[w].sig] = forgotten[worker[w].sig] + 1 /\ UNCHANGED entered
    /\ worker'[w].pc \notin Entering

AccidentStep(w) == OwnOnly(w) /\ KeepsLocks(w) /\ (Quiet(w) \/ Looks(w) \/ Orders(w) \/ Gives(w))

LEMMA Places3 ==
    /\ Inside = Entering \union Placed \union {"FindAccount", "Duplicate", "Unlock"}
    /\ Entering \cap Placed = {} /\ "Idle" \notin Inside
    /\ {"FindAccount", "Duplicate", "Unlock", "Idle", "Lock", "RejectBusy"} \cap (Entering \union Placed) = {}
    /\ {"Idle", "Lock", "RejectBusy"} \cap Inside = {}
BY DEF Inside, Entering, Placed, WorkerPc

LEMMA OwnDecision ==
    ASSUME TypeOK, NEW s \in Signals, NEW verdict,
           decided' = decided \/ decided' = [decided EXCEPT ![s] = @ \union {verdict}]
    PROVE  /\ \A t \in Signals : decided[t] # {} => decided'[t] # {}
           /\ decided' = [decided EXCEPT ![s] = @ \union {verdict}] => decided'[s] # {}
BY DEF TypeOK

LEMMA OwnHolder ==
    ASSUME TypeOK, NEW s \in Signals, NEW h, holder' = holder \/ holder' = [holder EXCEPT ![s] = h]
    PROVE  /\ \A t \in Signals \ {s} : holder'[t] = holder[t]
           /\ holder' = [holder EXCEPT ![s] = h] => holder'[s] = h
BY DEF TypeOK

\* What an execution that ends at w leaves behind.
LEMMA Ending ==
    ASSUME TypeOK, NEW w \in Workers, Inserted(w), worker[w].pc # "Idle", Forgets(w)
    PROVE  /\ \A t \in Signals \ {worker[w].sig} : forgotten'[t] = forgotten[t]
           /\ \/ forgotten'[worker[w].sig] = forgotten[worker[w].sig] + 1
              \/ /\ UNCHANGED forgotten
                 /\ worker[w].pc \in Placed /\ worker[w].entry # 0 => decided[worker[w].sig] # {}
<1>1. worker[w].sig \in Signals /\ forgotten \in [Signals -> Nat]
  BY AtWork DEF TypeOK
<1>2. CASE Unrecorded(w) /\ forgotten' = [forgotten EXCEPT ![worker[w].sig] = @ + 1]
  BY <1>1, <1>2
<1>3. CASE ~Unrecorded(w) /\ UNCHANGED forgotten
  BY <1>3 DEF Unrecorded, Placed, Inserted
<1> QED
  BY <1>2, <1>3 DEF Forgets, Signal

\* A step inside that leaves lock, entries and accidents alone and loses no order it has sent.
LEMMA Continues ==
    ASSUME NEW w \in Workers, UNCHANGED <<entered, holder, accidents>>,
           \A v \in Workers \ {w} : worker'[v] = worker[v],
           \A t \in Signals : decided[t] # {} => decided'[t] # {},
           worker'[w].sig = worker[w].sig,
           worker'[w].inserted = worker[w].inserted \/ decided'[worker[w].sig] # {},
           worker[w].pc \in Inside,
           worker'[w].pc \in Entering => worker[w].pc \in Entering,
           worker[w].pc \in Placed =>
              (worker'[w].pc \in Placed /\ worker'[w].entry = worker[w].entry) \/ decided'[worker[w].sig] # {}
    PROVE  AccidentStep(w)
<1>1. OwnOnly(w)
  BY DEF OwnOnly, accidents
<1>2. KeepsLocks(w)
  BY DEF KeepsLocks
<1>3. Quiet(w)
  BY DEF Quiet, accidents
<1> QED
  BY <1>1, <1>2, <1>3 DEF AccidentStep

LEMMA LockAccidentStep ==
    ASSUME IInv, NEW w \in Workers, TryLock(w) \/ RejectBusy(w) \/ Unlock(w)
    PROVE  AccidentStep(w)
<1> USE DEF IInv
<1> DEFINE s == worker[w].sig
<1>1. /\ worker[w].pc # "Idle" /\ s \in Signals /\ worker[w].throws \in BOOLEAN
      /\ worker[w].pc \in {"Lock", "RejectBusy", "Unlock"} /\ worker[w].pc \notin Placed
  BY AtWork DEF TryLock, RejectBusy, Unlock, Placed
<1>2. UNCHANGED <<entered, forgotten, bared>>
  BY DEF TryLock, RejectBusy, Unlock, exchange, accidents
<1>3. \A t \in Signals : decided[t] # {} => decided'[t] # {}
  <2>1. decided' \in {decided, [decided EXCEPT ![s] = @ \union {"DUPLICATE"}]}
    BY DEF TryLock, RejectBusy, Unlock, records, Signal
  <2> QED
    BY <1>1, <2>1, OwnDecision
<1>4. \A t \in Signals : holder'[t] = holder[t] \/ holder[t] \in {"nobody", w}
  <2>1. CASE TryLock(w)
    <3>1. holder' = holder \/ (holder[s] \in {"nobody", w} /\ holder' = [holder EXCEPT ![s] = w])
      BY <2>1 DEF TryLock, Grants, Signal
    <3> QED
      BY <1>1, <3>1, OwnHolder
  <2>2. CASE RejectBusy(w)
    BY <2>2 DEF RejectBusy
  <2>3. CASE Unlock(w)
    <3>1. holder' = holder \/ (holder[s] = w /\ holder' = [holder EXCEPT ![s] = "nobody"])
      BY <2>3 DEF Unlock, Signal
    <3> QED
      BY <1>1, <3>1, OwnHolder
  <2> QED
    BY <2>1, <2>2, <2>3
<1>5. /\ \A v \in Workers \ {w} : worker'[v] = worker[v]
      /\ \/ worker'[w].pc \in {"Idle", "RejectBusy"}
         \/ worker'[w].pc = "FindAccount" /\ holder'[s] = w
      /\ worker'[w].pc # "Idle" => worker'[w].sig = s /\ worker'[w].inserted = worker[w].inserted
  <2>1. ASSUME NEW pc \in {"FindAccount", "RejectBusy"}, Goto(w, pc)
        PROVE  /\ \A v \in Workers \ {w} : worker'[v] = worker[v]
               /\ worker'[w].pc = pc /\ worker'[w].sig = s /\ worker'[w].inserted = worker[w].inserted
    <3>1. pc \in WorkerPc
      BY DEF WorkerPc
    <3> QED
      BY <1>1, <2>1, <3>1, GoesTo
  <2>2. ASSUME NEW throws \in BOOLEAN, Finish(w, throws)
        PROVE  worker'[w].pc = "Idle" /\ \A v \in Workers \ {w} : worker'[v] = worker[v]
    BY <1>1, <2>2, HasFinished
  <2>3. CASE Goto(w, "FindAccount") /\ holder' = [holder EXCEPT ![s] = w]
    BY <1>1, <2>1, <2>3, OwnHolder
  <2>4. CASE Goto(w, "RejectBusy")
    BY <2>1, <2>4
  <2>5. CASE \E throws \in BOOLEAN : Finish(w, throws)
    BY <2>2, <2>5
  <2> QED
    BY <1>1, <2>3, <2>4, <2>5 DEF TryLock, RejectBusy, Unlock, Signal
<1>6. OwnOnly(w)
  BY <1>2, <1>3, <1>5 DEF OwnOnly
<1>7. KeepsLocks(w)
  BY <1>4, <1>5, Places3 DEF KeepsLocks
<1>8. Quiet(w)
  BY <1>1, <1>2, <1>5, Places3 DEF Quiet
<1> QED
  BY <1>6, <1>7, <1>8 DEF AccidentStep

LEMMA CheckAccidentStep ==
    ASSUME IInv, NEW w \in Workers, NEW pc \in Entering \union {"Duplicate"}, NEW fails, NEW next \in Entering,
           NEW verdict \in Decisions, Check(w, pc, fails, verdict, next),
           pc = "Duplicate" => (fails = (decided[worker[w].sig] # {}))
    PROVE  AccidentStep(w)
<1>1. /\ worker[w].pc # "Idle" /\ worker[w].pc = pc /\ next \in WorkerPc /\ "Catch" \in WorkerPc
      /\ pc \in Inside /\ pc \notin Placed
  BY DEF Check, Entering, WorkerPc, Inside, Placed
<1>2. UNCHANGED <<entered, decided, holder, accidents>>
  BY DEF Check, records, exchange
<1>3. ASSUME NEW there, worker'[w].pc = there, \A v \in Workers \ {w} : worker'[v] = worker[v],
             worker'[w].sig = worker[w].sig, worker'[w].inserted = worker[w].inserted,
             there \in {"Reject", "Catch"} \/ pc \in Entering
      PROVE  AccidentStep(w)
  <2>1. worker'[w].pc \in Entering => worker[w].pc \in Entering
    BY <1>1, <1>3, Places3 DEF Placed
  <2> QED
    BY <1>1, <1>2, <1>3, <2>1, Continues
<1>4. CASE Rejects(w, verdict)
  BY <1>1, <1>3, <1>4, IsRejected DEF IInv
<1>5. CASE Goto(w, "Catch")
  BY <1>1, <1>3, <1>5, GoesTo DEF IInv
<1>6. CASE ~fails /\ Goto(w, next)
  <2>1. /\ \A v \in Workers \ {w} : worker'[v] = worker[v]
        /\ worker'[w].sig = worker[w].sig /\ worker'[w].inserted = worker[w].inserted /\ worker'[w].pc = next
    BY <1>1, <1>6, GoesTo DEF IInv
  <2>2. CASE pc \in Entering
    BY <1>3, <2>1, <2>2
  <2>3. CASE pc = "Duplicate"
    <3>1. Looks(w)
      BY <1>1, <1>2, <1>6, <2>1, <2>3 DEF Looks, accidents
    <3>2. OwnOnly(w)
      BY <1>2, <2>1 DEF OwnOnly, accidents
    <3>3. KeepsLocks(w)
      BY <1>1, <1>2 DEF KeepsLocks
    <3> QED
      BY <3>1, <3>2, <3>3 DEF AccidentStep
  <2> QED
    BY <2>2, <2>3
<1> QED
  BY <1>4, <1>5, <1>6 DEF Check

LEMMA ChecksAccidentStep ==
    ASSUME IInv, NEW w \in Workers,
           \/ CheckDuplicate(w) \/ CheckTradingLocks(w) \/ CheckOpenCount(w)
           \/ CheckSymbol(w) \/ CheckDailyCount(w)
    PROVE  AccidentStep(w)
<1>1. "DUPLICATE" \in Decisions /\ "REFUSED" \in Decisions
      /\ {"TradingLocks", "CountOpen", "HasSymbol", "CountDaily", "Market", "Place"} \subseteq Entering
      /\ "Duplicate" \notin Entering
  BY DEF Decisions, Entering
<1>2. CASE CheckDuplicate(w)
  <2>1. Check(w, "Duplicate", decided[worker[w].sig] # {}, "DUPLICATE", "TradingLocks")
    BY <1>2 DEF CheckDuplicate, Signal
  <2> QED
    BY <1>1, <2>1, CheckAccidentStep
<1>3. ASSUME NEW pc \in Entering, NEW fails, NEW next \in Entering, Check(w, pc, fails, "REFUSED", next)
      PROVE  AccidentStep(w)
  BY <1>1, <1>3, CheckAccidentStep
<1>4. CASE CheckTradingLocks(w)
  BY <1>1, <1>3, <1>4 DEF CheckTradingLocks
<1>5. CASE CheckOpenCount(w)
  BY <1>1, <1>3, <1>5 DEF CheckOpenCount
<1>6. CASE CheckSymbol(w)
  BY <1>1, <1>3, <1>6 DEF CheckSymbol
<1>7. CASE CheckDailyCount(w)
  BY <1>1, <1>3, <1>7 DEF CheckDailyCount
<1> QED
  BY <1>2, <1>4, <1>5, <1>6, <1>7

\* The steps that go to another place and leave lock, entries and decisions alone.
LEMMA GoingAccidentStep ==
    ASSUME IInv, NEW w \in Workers, FindAccount(w) \/ CheckMarket(w) \/ OpenRow(w) \/ RecordOrder(w)
    PROVE  AccidentStep(w)
<1>1. /\ worker[w].pc # "Idle" /\ worker[w].pc \in Inside
      /\ worker[w].pc \in {"FindAccount", "Market", "OpenRow", "RecordOrder"}
  BY DEF FindAccount, CheckMarket, OpenRow, RecordOrder, Inside, WorkerPc
<1>2. UNCHANGED <<entered, decided, holder, accidents>>
  BY DEF FindAccount, CheckMarket, OpenRow, RecordOrder, records, exchange
<1>3. ASSUME NEW pc \in {"Duplicate", "Catch", "Place", "RecordOrder", "Decide", "Reject", "Unlock"},
             Goto(w, pc) \/ (pc = "Reject" /\ Rejects(w, "REFUSED")) \/ (pc = "Unlock" /\ Throws(w)),
             pc = "Place" => worker[w].pc = "Market",
             worker[w].pc \in {"OpenRow", "RecordOrder"} => pc \in {"RecordOrder", "Decide", "Catch"}
      PROVE  AccidentStep(w)
  <2>1. pc \in WorkerPc /\ "REFUSED" \in Decisions
    BY DEF WorkerPc, Decisions
  <2>2. /\ \A v \in Workers \ {w} : worker'[v] = worker[v]
        /\ worker'[w].sig = worker[w].sig /\ worker'[w].inserted = worker[w].inserted
        /\ worker'[w].pc = pc
        /\ pc \notin {"Reject", "Unlock"} => worker'[w].entry = worker[w].entry
    BY <1>1, <1>3, <2>1, GoesTo, IsRejected, HasThrown DEF IInv
  <2>3. worker'[w].pc \in Entering => worker[w].pc \in Entering
    BY <1>3, <2>2 DEF Entering
  <2>4. worker[w].pc \in Placed => worker'[w].pc \in Placed /\ worker'[w].entry = worker[w].entry
    BY <1>1, <1>3, <2>2 DEF Placed
  <2> QED
    BY <1>1, <1>2, <2>2, <2>3, <2>4, Continues
<1>4. CASE FindAccount(w)
  BY <1>3, <1>4 DEF FindAccount
<1>5. CASE CheckMarket(w)
  BY <1>3, <1>5 DEF CheckMarket
<1>6. CASE OpenRow(w)
  BY <1>3, <1>6 DEF OpenRow
<1>7. CASE RecordOrder(w)
  BY <1>3, <1>7 DEF RecordOrder
<1> QED
  BY <1>4, <1>5, <1>6, <1>7

LEMMA PlaceAccidentStep ==
    ASSUME IInv, NEW w \in Workers, PlaceOrder(w)
    PROVE  AccidentStep(w)
<1> DEFINE s == worker[w].sig
<1>1. /\ worker[w].pc = "Place" /\ worker[w].pc # "Idle" /\ worker[w] \in Worker /\ s \in Signals
      /\ entered \in [Signals -> Nat] /\ worker[w].pc \in Inside /\ worker[w].pc \notin Placed
  BY AtWork DEF PlaceOrder, IInv, TypeOK, Inside, WorkerPc, Placed
<1>2. UNCHANGED <<decided, holder, accidents>>
  BY DEF PlaceOrder, records
<1>3. CASE Goto(w, "Catch") /\ UNCHANGED exchange
  <2>1. "Catch" \in WorkerPc /\ "Catch" \notin Entering
    BY DEF WorkerPc, Entering
  <2>2. /\ \A v \in Workers \ {w} : worker'[v] = worker[v]
        /\ worker'[w].pc = "Catch" /\ worker'[w].sig = s /\ worker'[w].inserted = worker[w].inserted
    BY <1>1, <1>3, <2>1, GoesTo DEF IInv
  <2> QED
    BY <1>1, <1>2, <1>3, <2>1, <2>2, Continues DEF exchange
<1>4. ASSUME NEW pc \in {"OpenRow", "Catch"}, Enters(w), Sent(w, pc) PROVE AccidentStep(w)
  <2> DEFINE n == entered[s] + 1
             r == [worker[w] EXCEPT !.pc = pc, !.entry = n]
  <2>1. n \in Nat /\ n # 0
    BY <1>1
  <2>2. worker' = [worker EXCEPT ![w] = r]
    BY <1>4 DEF Sent, Signal
  <2>3. entered' = [entered EXCEPT ![s] = n]
    BY <1>4 DEF Enters, Signal
  <2>4. entered'[s] = entered[s] + 1 /\ \A t \in Signals \ {s} : entered'[t] = entered[t]
    BY <1>1, <2>1, <2>3
  <2> HIDE DEF n
  <2>5. r.pc = pc /\ r.sig = s /\ r.inserted = worker[w].inserted /\ r.entry = n
    BY <1>1 DEF Worker
  <2> HIDE DEF r
  <2>6. worker'[w] = r /\ \A v \in Workers \ {w} : worker'[v] = worker[v]
    BY <2>2 DEF IInv, TypeOK
  <2>7. OwnOnly(w)
    BY <1>2, <2>4, <2>5, <2>6 DEF OwnOnly, accidents
  <2>8. KeepsLocks(w)
    BY <1>1, <1>2 DEF KeepsLocks
  <2>9. Orders(w)
    BY <1>1, <1>2, <2>1, <2>4, <2>5, <2>6 DEF Orders, accidents, Placed
  <2> QED
    BY <2>7, <2>8, <2>9 DEF AccidentStep
<1> QED
  BY <1>3, <1>4 DEF PlaceOrder

LEMMA DecideAccidentStep ==
    ASSUME IInv, NEW w \in Workers, Decide(w)
    PROVE  AccidentStep(w)
<1> DEFINE s == worker[w].sig
<1>1. /\ worker[w].pc # "Idle" /\ worker[w].pc \in Inside /\ worker[w] \in Worker /\ s \in Signals
      /\ {"Unlock", "Catch"} \cap Entering = {} /\ "Catch" \in Placed /\ {"Unlock", "Catch"} \subseteq WorkerPc
  BY AtWork DEF Decide, Inside, WorkerPc, IInv, Entering, Placed
<1>2. UNCHANGED <<entered, holder, accidents>>
  BY DEF Decide, exchange
<1>3. decided' \in {decided, [decided EXCEPT ![s] = @ \union {"OPENED"}]}
  BY DEF Decide, InsertDecision, Signal
<1>4. /\ \A t \in Signals : decided[t] # {} => decided'[t] # {}
      /\ decided' = [decided EXCEPT ![s] = @ \union {"OPENED"}] => decided'[s] # {}
  BY <1>1, <1>3, OwnDecision DEF IInv
<1>5. CASE InsertDecision(w, "OPENED")
  <2>1. decided'[s] # {}
    BY <1>4, <1>5 DEF InsertDecision, Signal
  <2>2. /\ \A v \in Workers \ {w} : worker'[v] = worker[v]
        /\ worker'[w].sig = s /\ worker'[w].pc \in {"Unlock", "Catch"}
    <3>1. CASE \E pc \in {"Unlock", "Catch"} : Goto(w, pc)
      <4>1. PICK pc \in {"Unlock", "Catch"} : Goto(w, pc)
        BY <3>1
      <4> QED
        BY <1>1, <4>1, GoesTo DEF IInv
    <3>2. CASE worker' = [worker EXCEPT ![w].pc = "Catch", ![w].inserted = TRUE]
      <4> DEFINE r == [worker[w] EXCEPT !.pc = "Catch", !.inserted = TRUE]
      <4>1. worker' = [worker EXCEPT ![w] = r]
        BY <3>2
      <4>2. r.pc = "Catch" /\ r.sig = s
        BY <1>1 DEF Worker
      <4> HIDE DEF r
      <4> QED
        BY <4>1, <4>2 DEF IInv, TypeOK
    <3> QED
      BY <3>1, <3>2 DEF Decide
  <2> QED
    BY <1>1, <1>2, <1>4, <2>1, <2>2, Continues
<1>6. CASE Goto(w, "Catch") /\ UNCHANGED <<decided, opened>>
  <2>1. /\ \A v \in Workers \ {w} : worker'[v] = worker[v] /\ worker'[w].pc = "Catch"
        /\ worker'[w].sig = s /\ worker'[w].inserted = worker[w].inserted /\ worker'[w].entry = worker[w].entry
    BY <1>1, <1>6, GoesTo DEF IInv
  <2>2. worker'[w].pc = "Catch"
    BY <1>1, <1>6, GoesTo DEF IInv
  <2> QED
    BY <1>1, <1>2, <1>4, <2>1, <2>2, Continues
<1> QED
  BY <1>5, <1>6 DEF Decide

\* An execution that ends: what it owes is in the decisions or in the accidents.
LEMMA EndsAccidentStep ==
    ASSUME IInv, NEW w \in Workers, worker[w].pc # "Idle", Inserted(w), Forgets(w), UNCHANGED <<entered, decided, bared>>,
           KeepsLocks(w), \A v \in Workers \ {w} : worker'[v] = worker[v],
           worker'[w].pc \in {"Idle", "Unlock"},
           worker'[w].pc # "Idle" => worker'[w].sig = worker[w].sig /\ worker'[w].inserted = worker[w].inserted
    PROVE  AccidentStep(w)
<1>1. /\ \A t \in Signals \ {worker[w].sig} : forgotten'[t] = forgotten[t]
      /\ \/ forgotten'[worker[w].sig] = forgotten[worker[w].sig] + 1
         \/ /\ UNCHANGED forgotten
            /\ worker[w].pc \in Placed /\ worker[w].entry # 0 => decided[worker[w].sig] # {}
  BY Ending DEF IInv
<1>2. OwnOnly(w)
  BY <1>1 DEF OwnOnly
<1>3. worker'[w].pc \notin Entering
  BY DEF Entering
<1>4. Quiet(w) \/ Gives(w)
  BY <1>1, <1>3 DEF Quiet, Gives
<1> QED
  BY <1>2, <1>4 DEF AccidentStep

LEMMA CatchAccidentStep ==
    ASSUME IInv, NEW w \in Workers, Inserted(w), CatchFailure(w)
    PROVE  AccidentStep(w)
<1>1. /\ worker[w].pc # "Idle" /\ worker[w].pc \in Inside /\ "FAILED" \in Decisions
      /\ "Reject" \in Placed /\ "Reject" \notin Entering
  BY DEF CatchFailure, Inside, WorkerPc, Decisions, Placed, Entering
<1>2. UNCHANGED <<entered, decided, holder, bared>>
  BY DEF CatchFailure, exchange, records
<1>3. CASE Rejects(w, "FAILED") /\ UNCHANGED <<forgotten, budget>>
  <2>1. /\ \A v \in Workers \ {w} : worker'[v] = worker[v]
        /\ worker'[w].sig = worker[w].sig /\ worker'[w].inserted = worker[w].inserted
        /\ worker'[w].pc = "Reject" /\ worker'[w].entry = worker[w].entry
    BY <1>1, <1>3, IsRejected DEF IInv
  <2>2. UNCHANGED accidents
    BY <1>2, <1>3 DEF accidents
  <2> QED
    BY <1>1, <1>2, <2>1, <2>2, Continues
<1>4. CASE Throws(w) /\ Forgets(w)
  <2>1. /\ \A v \in Workers \ {w} : worker'[v] = worker[v]
        /\ worker'[w].sig = worker[w].sig /\ worker'[w].inserted = worker[w].inserted /\ worker'[w].pc = "Unlock"
    BY <1>1, <1>4, HasThrown DEF IInv
  <2>2. KeepsLocks(w)
    BY <1>1, <1>2 DEF KeepsLocks
  <2> QED
    BY <1>1, <1>2, <1>4, <2>1, <2>2, EndsAccidentStep
<1> QED
  BY <1>3, <1>4 DEF CatchFailure

LEMMA RejectAccidentStep ==
    ASSUME IInv, NEW w \in Workers, Inserted(w), Reject(w)
    PROVE  AccidentStep(w)
<1> DEFINE s == worker[w].sig
<1>1. /\ worker[w].pc # "Idle" /\ worker[w].pc \in Inside /\ s \in Signals
      /\ "Unlock" \in WorkerPc /\ "Unlock" \notin Entering /\ worker[w].inserted \in BOOLEAN
  BY AtWork DEF Reject, Inside, WorkerPc, Entering, IInv
<1>2. UNCHANGED <<entered, holder, bared>>
  BY DEF Reject, exchange
<1>3. /\ \A v \in Workers \ {w} : worker'[v] = worker[v]
      /\ worker'[w].sig = worker[w].sig /\ worker'[w].inserted = worker[w].inserted /\ worker'[w].pc = "Unlock"
  BY <1>1, GoesTo, HasThrown DEF Reject, IInv
<1>4. CASE UNCHANGED forgotten /\ InsertDecision(w, worker[w].verdict)
  <2>1. PICK verdict : verdict = worker[w].verdict
    OBVIOUS
  <2>2. decided' = [decided EXCEPT ![s] = @ \union {verdict}]
    BY <1>4, <2>1 DEF InsertDecision, Signal
  <2>3. decided'[s] # {} /\ \A t \in Signals : decided[t] # {} => decided'[t] # {}
    BY <1>1, <2>2, OwnDecision DEF IInv
  <2>4. UNCHANGED accidents
    BY <1>2, <1>4 DEF accidents
  <2> QED
    BY <1>1, <1>2, <1>3, <2>3, <2>4, Continues
<1>5. CASE UNCHANGED forgotten /\ worker[w].inserted /\ UNCHANGED <<decided, opened>>
  <2>1. decided'[s] # {}
    BY <1>1, <1>5 DEF Inserted
  <2>2. UNCHANGED accidents
    BY <1>2, <1>5 DEF accidents
  <2> QED
    BY <1>1, <1>2, <1>3, <1>5, <2>1, <2>2, Continues
<1>6. CASE Forgets(w) /\ UNCHANGED <<decided, opened>>
  <2>1. KeepsLocks(w)
    BY <1>1, <1>2 DEF KeepsLocks
  <2> QED
    BY <1>1, <1>2, <1>3, <1>6, <2>1, EndsAccidentStep
<1> QED
  BY <1>1, <1>4, <1>5, <1>6 DEF Reject

LEMMA CrashAccidentStep ==
    ASSUME IInv, NEW w \in Workers, Inserted(w), Crash(w)
    PROVE  AccidentStep(w)
<1>1. UNCHANGED <<entered, decided, bared>> /\ worker[w].pc # "Idle" /\ Forgets(w)
  BY DEF Crash, exchange, records
<1>2. worker'[w].pc = "Idle" /\ \A v \in Workers \ {w} : worker'[v] = worker[v]
  BY DEF Crash, IInv, TypeOK, Idle
<1>3. KeepsLocks(w)
  <2>1. \A t \in Signals : holder'[t] = IF holder[t] = w THEN "nobody" ELSE holder[t]
    BY DEF Crash
  <2> QED
    BY <1>2, <2>1 DEF KeepsLocks, Inside
<1> QED
  BY <1>1, <1>2, <1>3, EndsAccidentStep

LEMMA Fewer ==
    ASSUME NEW W \in SUBSET Workers, NEW V \in SUBSET W
    PROVE  Cardinality(V) \in Nat /\ Cardinality(W) \in Nat /\ Cardinality(V) <= Cardinality(W)
<1>1. IsFiniteSet(W) /\ IsFiniteSet(V)
  BY FS_Subset, WorkersAssumption
<1> QED
  BY <1>1, FS_Subset, FS_CardinalityType

LEMMA OneMore ==
    ASSUME NEW W \in SUBSET Workers, NEW w \in Workers, NEW V \in SUBSET (W \union {w})
    PROVE  Cardinality(V) \in Nat /\ Cardinality(W) \in Nat /\ Cardinality(V) <= Cardinality(W) + 1
<1>1. W \union {w} \in SUBSET Workers /\ IsFiniteSet(W)
  BY FS_Subset, WorkersAssumption
<1>2. Cardinality(V) \in Nat /\ Cardinality(V) <= Cardinality(W \union {w}) /\ Cardinality(W \union {w}) \in Nat
  BY <1>1, Fewer
<1>3. Cardinality(W) \in Nat /\ Cardinality(W \union {w}) <= Cardinality(W) + 1
  BY <1>1, FS_AddElement, FS_CardinalityType
<1> QED
  BY <1>2, <1>3

LEMMA OneLess ==
    ASSUME NEW W \in SUBSET Workers, NEW w \in W, NEW V \in SUBSET (W \ {w})
    PROVE  Cardinality(V) \in Nat /\ Cardinality(W) \in Nat /\ Cardinality(V) + 1 <= Cardinality(W)
<1>1. IsFiniteSet(W) /\ W \ {w} \in SUBSET Workers
  BY FS_Subset, WorkersAssumption
<1>2. Cardinality(V) \in Nat /\ Cardinality(V) <= Cardinality(W \ {w}) /\ Cardinality(W \ {w}) \in Nat
  BY <1>1, Fewer
<1>3. Cardinality(W) \in Nat /\ Cardinality(W \ {w}) = Cardinality(W) - 1
  BY <1>1, FS_RemoveElement, FS_CardinalityType
<1> QED
  BY <1>2, <1>3

\* Who is inside with a signal: one with its lock, the others without.
LEMMA Crowd ==
    ASSUME NEW t \in Signals, NEW A \in SUBSET With(t, Inside), NEW B \in SUBSET With(t, Inside), A \cap B = {}
    PROVE  /\ Cardinality(A) \in Nat /\ Cardinality(B) \in Nat /\ Cardinality(Orphans(t)) \in Nat
           /\ Cardinality(A) + Cardinality(B) <= Cardinality(Orphans(t)) + 1
<1>1. /\ With(t, Inside) \in SUBSET Workers /\ Orphans(t) \in SUBSET With(t, Inside) /\ Orphans(t) \in SUBSET Workers
      /\ A \union B \in SUBSET With(t, Inside)
  BY DEF With, Orphans
<1>2. /\ IsFiniteSet(A) /\ IsFiniteSet(B) /\ IsFiniteSet(A \union B)
      /\ Cardinality(A) \in Nat /\ Cardinality(B) \in Nat
  BY <1>1, FS_Subset, FS_CardinalityType, WorkersAssumption
<1>3. Cardinality(A \union B) = Cardinality(A) + Cardinality(B)
  <2>1. Cardinality(A \cap B) = 0
    BY FS_EmptySet
  <2> QED
    BY <1>2, <2>1, FS_Union
<1>4. Cardinality(Orphans(t)) \in Nat
  BY <1>1, Fewer
<1>5. CASE holder[t] \in Workers
  <2>1. A \union B \in SUBSET (Orphans(t) \union {holder[t]})
    BY <1>1 DEF Orphans
  <2>2. Cardinality(A \union B) <= Cardinality(Orphans(t)) + 1
    BY <1>1, <1>5, <2>1, OneMore
  <2> QED
    BY <1>2, <1>3, <1>4, <2>2
<1>6. CASE holder[t] \notin Workers
  <2>1. A \union B \in SUBSET Orphans(t)
    BY <1>1, <1>6 DEF Orphans
  <2>2. Cardinality(A \union B) <= Cardinality(Orphans(t))
    BY <1>1, <2>1, Fewer
  <2> QED
    BY <1>2, <1>3, <1>4, <2>2
<1> QED
  BY <1>5, <1>6

LEMMA OrphansKept ==
    ASSUME IInv, Explained, NEW w \in Workers, worker[w].pc # "Idle", AccidentStep(w), NEW t \in Signals
    PROVE  Excluded(t)'
<1>1. Orphans(t)' \in SUBSET Orphans(t)
  <2> SUFFICES ASSUME NEW v \in Orphans(t)' PROVE v \in Orphans(t)
    OBVIOUS
  <2>1. v \in Workers /\ worker'[v].pc \in Inside /\ worker'[v].sig = t /\ holder'[t] # v /\ v # "nobody"
    BY WorkersAssumption DEF Orphans, With
  <2>2. CASE v # w
    BY <2>1, <2>2 DEF AccidentStep, OwnOnly, KeepsLocks, Orphans, With
  <2>3. CASE v = w
    <3>1. worker'[w].sig = worker[w].sig
      BY <2>1, <2>3, Places3 DEF AccidentStep, OwnOnly
    <3> QED
      BY <2>1, <2>3, <3>1 DEF AccidentStep, KeepsLocks, Orphans, With
  <2> QED
    BY <2>2, <2>3
<1>2. Orphans(t) \in SUBSET Workers
  BY DEF Orphans, With
<1>3. /\ Cardinality(Orphans(t)') <= Cardinality(Orphans(t))
      /\ Cardinality(Orphans(t)') \in Nat /\ Cardinality(Orphans(t)) \in Nat
  BY <1>1, <1>2, Fewer
<1>4. bared'[t] = bared[t] /\ bared[t] \in Nat /\ Cardinality(Orphans(t)) <= bared[t]
  BY DEF AccidentStep, OwnOnly, IInv, TypeOK, Explained, Excluded
<1> QED
  BY <1>3, <1>4 DEF Excluded

LEMMA AccountKept ==
    ASSUME IInv, IInv', Explained, NEW w \in Workers, worker[w].pc # "Idle", AccidentStep(w), NEW t \in Signals
    PROVE  Accounted(t)' /\ Paid(t)'
<1> DEFINE s == worker[w].sig
<1>1. /\ s \in Signals /\ \A u \in Signals : entered[u] \in Nat /\ forgotten[u] \in Nat /\ bared[u] \in Nat
      /\ \A u \in Signals : entered'[u] \in Nat /\ forgotten'[u] \in Nat
      /\ UNCHANGED bared
  BY AtWork DEF IInv, TypeOK, AccidentStep, OwnOnly
<1>2. /\ Senders(t) \in SUBSET Workers /\ Enterers(t) \in SUBSET Workers
      /\ Senders(t)' \in SUBSET Workers /\ Enterers(t)' \in SUBSET Workers
  BY DEF Senders, Enterers, With
<1>3. /\ Cardinality(Senders(t)) \in Nat /\ Cardinality(Enterers(t)) \in Nat
      /\ Cardinality(Senders(t)') \in Nat /\ Cardinality(Enterers(t)') \in Nat
  BY <1>2, Fewer
<1>4. /\ decided[t] = {} => entered[t] <= forgotten[t] + Cardinality(Senders(t))
      /\ entered[t] + Cardinality(Enterers(t)) <= 1 + forgotten[t] + bared[t]
      /\ decided'[t] = {} => decided[t] = {}
  BY DEF Explained, Accounted, Paid, AccidentStep, OwnOnly
<1>5. Senders(t) \in SUBSET (Senders(t)' \union {w}) /\ Enterers(t)' \in SUBSET (Enterers(t) \union {w})
  BY DEF AccidentStep, OwnOnly, Senders, Enterers, With
<1>6. /\ Cardinality(Senders(t)) <= Cardinality(Senders(t)') + 1
      /\ Cardinality(Enterers(t)') <= Cardinality(Enterers(t)) + 1
  BY <1>2, <1>3, <1>5, OneMore
<1>7. /\ worker'[w].pc \in Entering \union Placed => worker'[w].sig = s
      /\ t # s => w \notin Senders(t) /\ w \notin Enterers(t)'
  <2>1. worker'[w].pc \in Entering \union Placed => worker'[w].sig = s
    BY Places3 DEF AccidentStep, OwnOnly
  <2> QED
    BY <2>1 DEF Senders, Enterers, With
<1>8. CASE t # s
  <2>1. entered'[t] = entered[t] /\ forgotten'[t] = forgotten[t]
    BY <1>8 DEF AccidentStep, OwnOnly
  <2>2. Senders(t) \in SUBSET Senders(t)' /\ Enterers(t)' \in SUBSET Enterers(t)
    BY <1>5, <1>7, <1>8
  <2>3. Cardinality(Senders(t)) <= Cardinality(Senders(t)') /\ Cardinality(Enterers(t)') <= Cardinality(Enterers(t))
    BY <1>2, <2>2, Fewer
  <2> QED
    BY <1>1, <1>3, <1>4, <2>1, <2>3 DEF Accounted, Paid
<1>9. CASE t = s /\ Quiet(w)
  <2>1. entered'[t] = entered[t] /\ forgotten'[t] = forgotten[t]
    BY <1>9 DEF Quiet
  <2>2. Enterers(t)' \in SUBSET Enterers(t)
    BY <1>5, <1>9 DEF Quiet, Enterers, With
  <2>3. decided'[t] = {} => Senders(t) \in SUBSET Senders(t)'
    BY <1>5, <1>7, <1>9 DEF Quiet, Senders, With
  <2>4. /\ decided'[t] = {} => Cardinality(Senders(t)) <= Cardinality(Senders(t)')
        /\ Cardinality(Enterers(t)') <= Cardinality(Enterers(t))
    BY <1>2, <2>2, <2>3, Fewer
  <2> QED
    BY <1>1, <1>3, <1>4, <2>1, <2>4 DEF Accounted, Paid
<1>10. CASE t = s /\ Looks(w)
  <2>1. /\ entered'[t] = entered[t] /\ forgotten'[t] = forgotten[t] /\ decided[t] = {}
        /\ worker[w].pc = "Duplicate" /\ w \in With(t, Inside)
    BY <1>10, Places3 DEF Looks, With
  <2>2. w \notin Senders(t) /\ w \notin Enterers(t)
    BY <2>1, Places3 DEF Senders, Enterers, With
  <2>3. Cardinality(Senders(t)) <= Cardinality(Senders(t)')
    BY <1>2, <1>5, <2>2, Fewer
  <2>4. /\ Senders(t) \in SUBSET With(t, Inside) /\ Enterers(t) \union {w} \in SUBSET With(t, Inside)
        /\ Senders(t) \cap (Enterers(t) \union {w}) = {}
    BY <2>1, <2>2, Places3 DEF Senders, Enterers, With
  <2>5. Cardinality(Senders(t)) + Cardinality(Enterers(t) \union {w}) <= Cardinality(Orphans(t)) + 1
    BY <2>4, Crowd
  <2>6. Cardinality(Enterers(t) \union {w}) = Cardinality(Enterers(t)) + 1
    <3>1. IsFiniteSet(Enterers(t))
      BY <1>2, FS_Subset, WorkersAssumption
    <3> QED
      BY <2>2, <3>1, FS_AddElement
  <2>7. Cardinality(Orphans(t)) <= bared[t] /\ Cardinality(Orphans(t)) \in Nat
    <3>1. Orphans(t) \in SUBSET Workers
      BY DEF Orphans, With
    <3> QED
      BY <3>1, Fewer DEF Explained, Excluded
  <2>8. entered[t] + Cardinality(Enterers(t)) + 1 <= 1 + forgotten[t] + bared[t]
    BY <1>1, <1>3, <1>4, <2>1, <2>5, <2>6, <2>7
  <2> QED
    BY <1>1, <1>3, <1>4, <1>6, <2>1, <2>3, <2>8 DEF Accounted, Paid
<1>11. CASE t = s /\ Orders(w)
  <2>1. entered'[t] = entered[t] + 1 /\ forgotten'[t] = forgotten[t]
    BY <1>11 DEF Orders
  <2>2. w \in Enterers(t) /\ w \in Senders(t)' /\ w \notin Senders(t) /\ w \notin Enterers(t)'
    BY <1>7, <1>11, Places3 DEF Orders, Enterers, Senders, With, Entering, Placed
  <2>3. Senders(t) \in SUBSET (Senders(t)' \ {w}) /\ Enterers(t)' \in SUBSET (Enterers(t) \ {w})
    BY <1>5, <2>2
  <2>4. Cardinality(Senders(t)) + 1 <= Cardinality(Senders(t)')
    BY <1>2, <2>2, <2>3, OneLess
  <2>5. Cardinality(Enterers(t)') + 1 <= Cardinality(Enterers(t))
    BY <1>2, <2>2, <2>3, OneLess
  <2> QED
    BY <1>1, <1>3, <1>4, <2>1, <2>4, <2>5 DEF Accounted, Paid
<1>12. CASE t = s /\ Gives(w)
  <2>1. entered'[t] = entered[t] /\ forgotten'[t] = forgotten[t] + 1
    BY <1>12 DEF Gives
  <2>2. Enterers(t)' \in SUBSET Enterers(t)
    BY <1>5, <1>12 DEF Gives, Enterers, With
  <2>3. Cardinality(Enterers(t)') <= Cardinality(Enterers(t))
    BY <1>2, <2>2, Fewer
  <2> QED
    BY <1>1, <1>3, <1>4, <1>6, <2>1, <2>3 DEF Accounted, Paid
<1> QED
  BY <1>8, <1>9, <1>10, <1>11, <1>12 DEF AccidentStep

LEMMA WorkerKeepsExplained ==
    ASSUME IInv, IInv', Explained, NEW w \in Workers, WorkerStep(w) \/ Crash(w)
    PROVE  Explained'
<1>1. worker[w].pc # "Idle"
  BY DEF WorkerStep, Crash, TryLock, RejectBusy, FindAccount, CheckDuplicate, CheckTradingLocks, CheckOpenCount,
     CheckSymbol, CheckDailyCount, Check, CheckMarket, PlaceOrder, OpenRow, RecordOrder, Decide,
     CatchFailure, Reject, Unlock
<1>2. Inserted(w)
  BY DEF Explained
<1>3. AccidentStep(w)
  BY <1>2, LockAccidentStep, ChecksAccidentStep, GoingAccidentStep, PlaceAccidentStep, DecideAccidentStep,
     CatchAccidentStep, RejectAccidentStep, CrashAccidentStep DEF WorkerStep
<1>4. ASSUME NEW v \in Workers PROVE Inserted(v)'
  <2>1. worker[v].pc # "Idle" => worker[v].sig \in Signals
    BY AtWork DEF IInv
  <2>2. OwnOnly(w) /\ Inserted(v)
    BY <1>3 DEF AccidentStep, Explained
  <2>3. CASE v # w
    BY <2>1, <2>2, <2>3 DEF OwnOnly, Inserted
  <2>4. CASE v = w
    BY <1>1, <2>1, <2>2, <2>4 DEF OwnOnly, Inserted
  <2> QED
    BY <2>3, <2>4
<1>5. ASSUME NEW t \in Signals PROVE Excluded(t)' /\ Accounted(t)' /\ Paid(t)'
  BY <1>1, <1>3, OrphansKept, AccountKept
<1> QED
  BY <1>4, <1>5 DEF Explained

LEMMA DeliverKeepsExplained ==
    ASSUME IInv, Explained, NEW w \in Workers, NEW d \in Delivery, Deliver(w, d)
    PROVE  Explained'
<1> DEFINE r == [pc |-> "Lock", sig |-> d[1], attempt |-> d[2], entry |-> 0,
                 verdict |-> "REFUSED", inserted |-> FALSE, throws |-> FALSE]
<1>1. UNCHANGED <<entered, decided, holder, forgotten, bared>> /\ worker[w].pc = "Idle"
  BY DEF Deliver, records, exchange, accidents
<1>2. worker' = [worker EXCEPT ![w] = r]
  BY DEF Deliver
<1>3. r.pc = "Lock" /\ r.inserted = FALSE
  OBVIOUS
<1> HIDE DEF r
<1>4. worker'[w] = r /\ \A v \in Workers \ {w} : worker'[v] = worker[v]
  BY <1>2 DEF IInv, TypeOK
<1>5. ASSUME NEW v \in Workers PROVE Inserted(v)'
  BY <1>1, <1>3, <1>4 DEF Explained, Inserted
<1>6. ASSUME NEW t \in Signals
      PROVE  Orphans(t)' = Orphans(t) /\ Senders(t)' = Senders(t) /\ Enterers(t)' = Enterers(t)
  <2>1. /\ w \notin With(t, Inside) /\ w \notin With(t, Inside)'
        /\ w \notin With(t, Placed) /\ w \notin With(t, Placed)'
        /\ w \notin With(t, Entering) /\ w \notin With(t, Entering)'
    BY <1>1, <1>3, <1>4, Places3 DEF With
  <2> QED
    BY <1>1, <1>4, <2>1 DEF Orphans, Senders, Enterers, With
<1> QED
  BY <1>1, <1>5, <1>6 DEF Explained, Excluded, Accounted, Paid

LEMMA ConnectionClosesKeepsExplained ==
    ASSUME IInv, Explained, NEW s \in Signals, ConnectionCloses(s)
    PROVE  Explained'
<1>1. /\ UNCHANGED <<worker, entered, decided, forgotten>> /\ holder[s] # "nobody"
      /\ holder' = [holder EXCEPT ![s] = "nobody"]
  BY DEF ConnectionCloses, records, exchange
<1>2. \A t \in Signals \ {s} : holder'[t] = holder[t]
  BY <1>1 DEF IInv, TypeOK
<1>3. PICK h \in Workers : h = holder[s]
  BY <1>1 DEF IInv, TypeOK
<1>4. /\ \A t \in Signals \ {s} : bared'[t] = bared[t]
      /\ bared'[s] = bared[s] + 1 \/ (bared'[s] = bared[s] /\ ~Handles(h, s))
  <2>1. bared \in [Signals -> Nat]
    BY DEF IInv, TypeOK
  <2>2. CASE bared' = [bared EXCEPT ![s] = @ + 1]
    BY <2>1, <2>2
  <2>3. CASE UNCHANGED bared /\ ~\E w \in Workers : Handles(w, s) /\ holder[s] = w
    BY <1>3, <2>3
  <2> QED
    BY <2>2, <2>3 DEF ConnectionCloses
<1>5. ASSUME NEW t \in Signals PROVE Excluded(t)' /\ bared[t] \in Nat /\ bared'[t] \in Nat /\ bared[t] <= bared'[t]
  <2>1. bared[t] \in Nat /\ bared'[t] \in Nat /\ bared[t] <= bared'[t]
    BY <1>4 DEF IInv, TypeOK
  <2>2. Orphans(t) \in SUBSET Workers /\ Orphans(t)' \in SUBSET Workers
    BY DEF Orphans, With
  <2>3. /\ Cardinality(Orphans(t)) <= bared[t]
        /\ Cardinality(Orphans(t)) \in Nat /\ Cardinality(Orphans(t)') \in Nat
    BY <2>2, Fewer DEF Explained, Excluded
  <2>4. CASE t # s \/ ~Handles(h, s)
    <3>1. Orphans(t)' \in SUBSET Orphans(t)
      BY <1>1, <1>2, <1>3, <2>4 DEF Orphans, With, Handles, Inside
    <3>2. Cardinality(Orphans(t)') <= Cardinality(Orphans(t))
      BY <2>2, <3>1, Fewer
    <3> QED
      BY <2>1, <2>3, <3>2 DEF Excluded
  <2>5. CASE t = s /\ bared'[s] = bared[s] + 1
    <3>1. Orphans(t)' \in SUBSET (Orphans(t) \union {h})
      BY <1>1, <1>3, <2>5 DEF Orphans, With
    <3>2. Cardinality(Orphans(t)') <= Cardinality(Orphans(t)) + 1
      BY <2>2, <3>1, OneMore
    <3> QED
      BY <2>1, <2>3, <2>5, <3>2 DEF Excluded
  <2> QED
    BY <1>4, <2>1, <2>4, <2>5
<1>6. ASSUME NEW t \in Signals PROVE Accounted(t)' /\ Paid(t)'
  <2>1. Senders(t)' = Senders(t) /\ Enterers(t)' = Enterers(t)
    BY <1>1 DEF Senders, Enterers, With
  <2>2. entered[t] \in Nat /\ forgotten[t] \in Nat /\ Cardinality(Enterers(t)) \in Nat
    <3>1. Enterers(t) \in SUBSET Workers
      BY DEF Enterers, With
    <3> QED
      BY <3>1, Fewer DEF IInv, TypeOK
  <2>3. Accounted(t) /\ Paid(t) /\ bared[t] \in Nat /\ bared'[t] \in Nat /\ bared[t] <= bared'[t]
    BY <1>5 DEF Explained
  <2>4. Accounted(t)'
    BY <1>1, <2>1, <2>3 DEF Accounted
  <2>5. Paid(t)'
    BY <1>1, <2>1, <2>2, <2>3 DEF Paid
  <2> QED
    BY <2>4, <2>5
<1> QED
  BY <1>1, <1>5, <1>6 DEF Explained, Inserted

LEMMA StepExplained ==
    ASSUME IInv, IInv', Explained, [Next]_vars
    PROVE  Explained'
<1>1. CASE SetTradingLock \/ UNCHANGED vars \/ \E d \in Delivery : SkipProcessed(d)
  <2>1. UNCHANGED <<worker, entered, decided, holder, forgotten, bared>>
    BY <1>1 DEF SetTradingLock, SkipProcessed, records, exchange, accidents, vars
  <2> QED
    BY <2>1 DEF Explained, Inserted, Excluded, Accounted, Paid, Orphans, Senders, Enterers, With
<1>2. CASE \E s \in Signals : ConnectionCloses(s)
  BY <1>2, ConnectionClosesKeepsExplained
<1>3. CASE \E w \in Workers : WorkerStep(w) \/ Crash(w)
  BY <1>3, WorkerKeepsExplained
<1>4. CASE \E w \in Workers, d \in Delivery : Deliver(w, d)
  BY <1>4, DeliverKeepsExplained
<1> QED
  BY <1>1, <1>2, <1>3, <1>4 DEF Next

LEMMA InitExplained == Init => Explained
<1> SUFFICES ASSUME Init PROVE Explained
  OBVIOUS
<1>1. \A w \in Workers : worker[w].pc = "Idle"
  BY DEF Init, Idle
<1>2. \A t \in Signals : entered[t] = 0 /\ forgotten[t] = 0 /\ bared[t] = 0
  BY DEF Init
<1>3. \A t \in Signals : Orphans(t) = {} /\ Enterers(t) = {} /\ Senders(t) = {}
  BY <1>1, Places3 DEF Orphans, Enterers, Senders, With
<1>4. Cardinality({}) = 0
  BY FS_EmptySet
<1>5. \A t \in Signals : Excluded(t) /\ Accounted(t) /\ Paid(t)
  BY <1>2, <1>3, <1>4 DEF Excluded, Accounted, Paid
<1> QED
  BY <1>1, <1>5 DEF Explained, Inserted

LEMMA AlwaysExplained == Spec => [](IInv /\ Explained)
<1>1. IInv /\ IInv' /\ Explained /\ [Next]_vars => Explained'
  BY StepExplained
<1> QED
  BY <1>1, InitExplained, AlwaysIInv, PTL DEF Spec

\* Redelivery, takeover, duplicate hands, locks left behind and every failing query or call:
\* the advisory lock and the look for duplicates let a signal be entered again only for an
\* execution that was lost after its order, or whose lock was closed under it, once for each.
THEOREM RepeatsAreExplainedHolds == Spec => []RepeatsAreExplained
<1>1. IInv /\ Explained => RepeatsAreExplained
  <2> SUFFICES ASSUME IInv, Explained, NEW t \in Signals PROVE entered[t] <= 1 + forgotten[t] + bared[t]
    BY DEF RepeatsAreExplained
  <2>1. Enterers(t) \in SUBSET Workers
    BY DEF Enterers, With
  <2>2. Cardinality(Enterers(t)) \in Nat
    BY <2>1, Fewer
  <2> QED
    BY <2>2 DEF Explained, Paid, IInv, TypeOK
<1> QED
  BY <1>1, AlwaysExplained, PTL

\* Whatever fails, an order that execution_decisions does not know of is still in the hands
\* of its execution or was lost by a crash or a failing incident, each of which is counted.
THEOREM EntryIsDecidedHolds == Spec => []EntryIsDecided
<1>1. IInv /\ Explained => EntryIsDecided
  <2> SUFFICES ASSUME IInv, Explained, NEW t \in Signals, decided[t] = {}
               PROVE  entered[t] <= forgotten[t] + Cardinality({w \in Workers : Handles(w, t) /\ worker[w].entry # 0})
    BY DEF EntryIsDecided
  <2> DEFINE H == {w \in Workers : Handles(w, t) /\ worker[w].entry # 0}
  <2>1. Senders(t) \in SUBSET H /\ H \in SUBSET Workers
    BY Places3 DEF Senders, With, Handles
  <2> HIDE DEF H
  <2>2. Cardinality(Senders(t)) \in Nat /\ Cardinality(H) \in Nat /\ Cardinality(Senders(t)) <= Cardinality(H)
    BY <2>1, Fewer
  <2>3. entered[t] <= forgotten[t] + Cardinality(Senders(t)) /\ entered[t] \in Nat /\ forgotten[t] \in Nat
    BY DEF Explained, Accounted, IInv, TypeOK
  <2> QED
    BY <2>2, <2>3 DEF H
<1> QED
  BY <1>1, AlwaysExplained, PTL
================================================================================
