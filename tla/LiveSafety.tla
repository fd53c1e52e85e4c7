----------------------------- MODULE LiveSafety -----------------------------
(***************************************************************************)
(* What watches a live account: the private order stream whose health row  *)
(* the executor's entry gate reads, the reconciliation of the position row *)
(* with the exchange, the supervisor of protective orders and the monitor  *)
(* that turns bad health and mismatches into safe-mode events.  One        *)
(* account, one pair.  A step is one await.                                *)
(***************************************************************************)
EXTENDS Integers, FiniteSetsExt

CONSTANTS
    Venues,       \* exchanges the account may be on
    Keys,         \* API keys the account may have, one at a time
    Streams,      \* bound: stream objects alive at once
    StaleAfter,   \* ticks after which a status is stale
    MaxWrites,    \* bound: status writes of a key in flight
    Volume,       \* largest volume of the position
    Monitors,     \* safe-mode runs that may overlap
    Groups,       \* bound: which workers and runs of the monitor run together
    Events,       \* kinds of event that may happen
    MaxEvents     \* bound: events in a behaviour

\* drop: a socket errs or closes; refuse: a call to the exchange fails; query: a statement fails;
\* crash: the process stops; rotate: the user stores another key; switch: the account is disabled or
\* enabled; move: position, row and orders change; operator: an incident or safe-mode event is resolved.
EventKinds == {"drop", "refuse", "query", "crash", "rotate", "switch", "move", "operator"}
Workers == {"stream", "reconciliation", "supervisor"}
ASSUME WatchAssumption ==
    /\ Groups \subseteq SUBSET (Workers \union Monitors)
    /\ Venues \subseteq {"BINANCE", "BYBIT"} /\ Keys # {} /\ StaleAfter \in Nat \ {0} /\ MaxWrites \in Nat \ {0}
    /\ Volume \in Nat /\ Events \subseteq EventKinds /\ MaxEvents \in Nat

VARIABLES
    account,     \* [venue, enabled, key, group]: the account, and the workers of the instance
    scan,        \* where scanAccounts is
    stream,      \* the stream objects
    row,         \* private_stream_statuses of the account, or none
    writes,      \* status writes nobody waits for, not yet executed
    heard,       \* history: ticks since a key's stream was opened, spoke or was kept alive
    position,    \* [row, held, stop, take]: volume of the open row and on the exchange, orders resting
    recon,       \* the reconciliation worker
    mismatches,  \* unresolved critical mismatches
    supervisor,  \* where the protection supervisor is
    reported,    \* an incident PROTECTION_ORDER_MISSING is unresolved
    monitor,     \* where each run of the safe-mode monitor is
    safe,        \* active safe-mode events of each trigger
    budget       \* events still allowed

vars     == <<account, scan, stream, row, writes, heard, position, recon, mismatches, supervisor, reported, monitor, safe, budget>>
health   == <<scan, stream, row, writes, heard>>
checking == <<recon, mismatches, supervisor, reported>>
alarms   == <<monitor, safe>>

None      == [none |-> TRUE]
Statuses  == {"CONNECTING", "HEALTHY", "RECONNECTING", "FAILED", "STALE"}
Ages      == 0..(StaleAfter + 1)
Write     == [key : Keys, status : Statuses, age : Ages]
\* conn: between which awaits or events of its connection an object is; keepers: keep-alive intervals.
Conns     == {"Start", "Listen", "Opening", "Open", "Failing", "Waiting", "Ended"}
Stream    == [key : Keys, managed : BOOLEAN, conn : Conns, keepers : 0..2]
Types     == {"POSITION_NOT_FOUND_ON_EXCHANGE", "POSITION_SIZE_MISMATCH", "PROTECTION_ORDER_MISSING", "UNKNOWN_EXCHANGE_POSITION"}
Position  == [row : 0..Volume, held : 0..Volume, stop : BOOLEAN, take : BOOLEAN]
Recon     == [row : 0..Volume, held : -1..Volume, orders : -1..2, left : SUBSET Types, pc : {"Reads", "Write"}]
Triggers  == {"PRIVATE_STREAM_LOST", "RECONCILIATION_FAILED"}

TypeOK ==
    /\ account \in [venue : Venues, enabled : BOOLEAN, key : Keys, group : Groups]
    /\ scan \in {"Idle", "List", "Find"}
    /\ stream \in [Streams -> Stream \union {None}]
    /\ row \in Write \union {None} /\ writes \in SUBSET Write /\ heard \in [Keys -> Ages]
    /\ position \in Position /\ recon \in Recon \union {None} /\ mismatches \in SUBSET Types
    /\ supervisor \in {"Idle", "Status", "Incident", "Lock"} /\ reported \in BOOLEAN
    /\ monitor \in [Monitors -> {"Idle", "StreamInsert", "Mismatches", "MismatchInsert"}]
    /\ safe \in [Triggers -> Nat] /\ budget \in 0..MaxEvents

Flat   == [row |-> 0, held |-> 0, stop |-> FALSE, take |-> FALSE]
Placed == [row |-> Volume, held |-> Volume, stop |-> TRUE, take |-> TRUE]
Init ==
    /\ account \in [venue : Venues, enabled : {TRUE}, key : Keys, group : Groups]
    /\ scan = "Idle" /\ stream = [o \in Streams |-> None]
    /\ row = None /\ writes = {} /\ heard = [k \in Keys |-> StaleAfter + 1]
    /\ position \in (IF "reconciliation" \in account.group THEN {Flat, Placed} ELSE {Flat}) /\ recon = None /\ mismatches = {}
    /\ supervisor = "Idle" /\ reported = FALSE
    /\ monitor = [m \in Monitors |-> "Idle"] /\ safe = [t \in Triggers |-> 0]
    /\ budget = MaxEvents

Event(kind) == kind \in Events /\ budget > 0 /\ budget' = budget - 1

(***************************************************************************)
(* The health row.                                                         *)
(***************************************************************************)
\* Mutant: the age of a status counts from its insertion.
UpsertNow(w) == [w EXCEPT !.age = 0]
\* status(): both times of the row are those of the event, whenever the write is executed.
Upsert(w) == w
Fresh(o, s) == [key |-> stream[o].key, status |-> s, age |-> 0]
InFlight(k) == {w \in writes : w.key = k}
Send(w) == Cardinality(InFlight(w.key)) < MaxWrites /\ writes' = writes \union {w}
Executes(w) ==
    /\ w \in writes
    /\ writes' = writes \ {w} /\ row' = Upsert(w)
    /\ UNCHANGED <<account, scan, stream, heard, position, checking, alarms, budget>>

\* getHealth: the row counts for the key it was last written for.
Health(k) ==
    IF row = None \/ row.key # k THEN None
    ELSE IF row.age > StaleAfter THEN [row EXCEPT !.status = "STALE"] ELSE row
\* hasHealthyPrivateStream, the executor's gate.
Gate(k) == Health(k) # None /\ Health(k).status = "HEALTHY"

\* Time passes; a write is executed before its status is stale.
Older(n) == IF n > StaleAfter THEN n ELSE n + 1
Tick ==
    /\ \A w \in writes : w.age < StaleAfter
    /\ row' = IF row = None THEN None ELSE [row EXCEPT !.age = Older(@)]
    /\ writes' = {[w EXCEPT !.age = Older(@)] : w \in writes}
    /\ heard' = [k \in Keys |-> Older(heard[k])]
    /\ UNCHANGED <<account, scan, stream, position, checking, alarms, budget>>

(***************************************************************************)
(* One stream object: Binance's, with its listen key; Bybit's connects at  *)
(* once.  An object that was stopped between two awaits of its connect     *)
(* opens its socket all the same.                                          *)
(***************************************************************************)
Becomes(o, c) == stream' = [stream EXCEPT ![o].conn = c]
Running(o)    == stream[o] # None /\ stream[o].managed
streamOnly    == <<account, scan, position, checking, alarms>>

\* connect: the CONNECTING status; Binance waits for its write.
Connect(o) ==
    /\ stream[o] # None /\ stream[o].conn \in {"Start", "Waiting"}
    /\ IF ~stream[o].managed THEN Becomes(o, "Ended") /\ UNCHANGED <<row, writes>>
       ELSE IF account.venue = "BINANCE" THEN
            row' = Upsert(Fresh(o, "CONNECTING")) /\ Becomes(o, "Listen") /\ UNCHANGED writes
       ELSE Send(Fresh(o, "CONNECTING")) /\ Becomes(o, "Opening") /\ UNCHANGED row
    /\ UNCHANGED <<streamOnly, heard, budget>>
ListenKey(o) ==
    /\ stream[o] # None /\ stream[o].conn = "Listen"
    /\ \/ Becomes(o, "Opening") /\ UNCHANGED budget
       \/ Event("refuse") /\ Becomes(o, "Failing")
    /\ UNCHANGED <<streamOnly, row, writes, heard>>

\* Mutant: a failed connect is not tried again.
CatchEnds(o) ==
    /\ stream[o] # None /\ stream[o].conn = "Failing"
    /\ row' = Upsert(Fresh(o, "FAILED")) /\ Becomes(o, "Ended")
    /\ UNCHANGED <<streamOnly, writes, heard, budget>>
\* The catch of connect: the FAILED status is awaited, then the reconnect is scheduled.
Catch(o) ==
    /\ stream[o] # None /\ stream[o].conn = "Failing"
    /\ row' = Upsert(Fresh(o, "FAILED"))
    /\ IF stream[o].managed THEN Send(Fresh(o, "RECONNECTING")) /\ Becomes(o, "Waiting")
       ELSE Becomes(o, "Ended") /\ UNCHANGED writes
    /\ UNCHANGED <<streamOnly, heard, budget>>

\* Every open starts one more keep-alive interval; no close clears it.  Binance's stream calls itself
\* healthy with the open, Bybit's authenticates and is not healthy before it is spoken to.
Opens(o) ==
    /\ stream[o] # None /\ stream[o].conn = "Opening"
    /\ IF account.venue = "BINANCE"
       THEN Send(Fresh(o, "HEALTHY")) /\ heard' = [heard EXCEPT ![stream[o].key] = 0]
       ELSE UNCHANGED <<writes, heard>>
    /\ stream' = [stream EXCEPT ![o].conn = "Open", ![o].keepers = IF @ = 2 THEN 2 ELSE @ + 1]
    /\ UNCHANGED <<streamOnly, row, budget>>
Hears(o) ==
    /\ stream[o] # None
    /\ stream[o].conn = "Open" \/ (stream[o].keepers > 0 /\ account.venue = "BINANCE")
    /\ Send(Fresh(o, "HEALTHY"))
    /\ heard' = [heard EXCEPT ![stream[o].key] = 0]
    /\ UNCHANGED <<streamOnly, stream, row, budget>>
\* error writes FAILED, close schedules the reconnect unless the stream was stopped.
Drops(o) ==
    /\ stream[o] # None /\ stream[o].conn \in {"Opening", "Open"} /\ Event("drop")
    /\ \E lost \in {{}, {Fresh(o, "FAILED")}} :
           writes' = writes \union lost \union (IF stream[o].managed THEN {Fresh(o, "RECONNECTING")} ELSE {})
    /\ Cardinality({w \in writes' : w.key = stream[o].key}) <= MaxWrites
    /\ Becomes(o, IF stream[o].managed THEN "Waiting" ELSE "Ended")
    /\ UNCHANGED <<streamOnly, row, heard>>
Forgotten(o) ==
    /\ stream[o] # None /\ stream[o].conn = "Ended" /\ ~stream[o].managed /\ stream[o].keepers = 0
    /\ stream' = [stream EXCEPT ![o] = None]
    /\ UNCHANGED <<streamOnly, row, writes, heard, budget>>

(***************************************************************************)
(* The scan.                                                               *)
(***************************************************************************)
MarkStale ==
    /\ scan = "Idle" /\ "stream" \in account.group /\ scan' = "List"
    /\ row' = IF row # None /\ row.status \in {"HEALTHY", "CONNECTING"} /\ row.age > StaleAfter
              THEN [row EXCEPT !.status = "STALE"] ELSE row
    /\ UNCHANGED <<account, stream, writes, heard, position, checking, alarms, budget>>
\* stop: the last interval is cleared and an existing socket is closed.
Stop(s) == [s EXCEPT !.managed = FALSE, !.keepers = IF @ > 0 THEN @ - 1 ELSE 0,
                     !.conn = IF @ \in {"Opening", "Open"} THEN "Ended" ELSE @]
ListEnabled ==
    /\ scan = "List"
    /\ IF account.enabled THEN scan' = "Find" /\ UNCHANGED stream
       ELSE /\ scan' = "Idle"
            /\ stream' = [o \in Streams |-> IF Running(o) THEN Stop(stream[o]) ELSE stream[o]]
    /\ UNCHANGED <<account, row, writes, heard, position, checking, alarms, budget>>
EnsureStream ==
    /\ scan = "Find" /\ scan' = "Idle"
    /\ IF \E o \in Streams : Running(o) /\ stream[o].key = account.key THEN UNCHANGED stream
       ELSE \E o \in Streams :
               /\ stream[o] = None
               /\ stream' = [stream EXCEPT ![o] = [key |-> account.key, managed |-> TRUE, conn |-> "Start", keepers |-> 0]]
    /\ UNCHANGED <<account, row, writes, heard, position, checking, alarms, budget>>

(***************************************************************************)
(* Reconciliation: the row first, then positions and orders of the         *)
(* exchange in either order, then one mismatch after the other.            *)
(***************************************************************************)
others == <<account, health, position>>
Mismatches(r, held, orders) ==
    {t \in Types :
        \/ t = "POSITION_NOT_FOUND_ON_EXCHANGE" /\ r > 0 /\ held = 0
        \/ t = "POSITION_SIZE_MISMATCH" /\ r > 0 /\ held > 0 /\ held # r
        \/ t = "PROTECTION_ORDER_MISSING" /\ r > 0 /\ held > 0 /\ orders < 2
        \/ t = "UNKNOWN_EXCHANGE_POSITION" /\ r = 0 /\ held > 0}
Orders == Cardinality({x \in {"stop", "take"} : position[x]})

ReconStarts ==
    /\ recon = None /\ account.enabled /\ "reconciliation" \in account.group
    /\ recon' = [row |-> position.row, held |-> -1, orders |-> -1, left |-> {}, pc |-> "Reads"]
    /\ UNCHANGED <<others, mismatches, supervisor, reported, alarms, budget>>
ReadPositions ==
    /\ recon # None /\ recon.pc = "Reads" /\ recon.held = -1
    /\ recon' = [recon EXCEPT !.held = position.held]
    /\ UNCHANGED <<others, mismatches, supervisor, reported, alarms, budget>>
ReadOrders ==
    /\ recon # None /\ recon.pc = "Reads" /\ recon.orders = -1
    /\ recon' = [recon EXCEPT !.orders = Orders]
    /\ UNCHANGED <<others, mismatches, supervisor, reported, alarms, budget>>
CreateRun ==
    /\ recon # None /\ recon.pc = "Reads" /\ recon.held # -1 /\ recon.orders # -1
    /\ recon' = [recon EXCEPT !.pc = "Write", !.left = Mismatches(recon.row, recon.held, recon.orders)]
    /\ UNCHANGED <<others, mismatches, supervisor, reported, alarms, budget>>
CreateMismatch ==
    /\ recon # None /\ recon.pc = "Write"
    /\ IF recon.left = {} THEN recon' = None /\ UNCHANGED mismatches
       ELSE \E t \in recon.left : recon' = [recon EXCEPT !.left = @ \ {t}] /\ mismatches' = mismatches \union {t}
    /\ UNCHANGED <<others, supervisor, reported, alarms, budget>>
\* Mutant: the flag `running` stays set after an error.
ReconFailsRunning ==
    /\ recon # None
    /\ Event("refuse") \/ Event("query")
    /\ recon' = [recon EXCEPT !.pc = "Running"]
    /\ UNCHANGED <<others, mismatches, supervisor, reported, alarms>>
\* Every error ends the tick; what was not written is left to the next one.
ReconFails ==
    /\ recon # None
    /\ Event("refuse") \/ Event("query")
    /\ recon' = None
    /\ UNCHANGED <<others, mismatches, supervisor, reported, alarms>>

(***************************************************************************)
(* The protection supervisor.                                              *)
(***************************************************************************)
\* The quantity of the resting orders: Binance's were sent with closePosition and without one.
BinanceQty == 0
BybitQty   == position.held
\* Mutant: only a whole loss of the protection is acted on.
MatchedByAny == position.stop \/ position.take
Matched == position.stop /\ position.take /\ (IF account.venue = "BINANCE" THEN BinanceQty ELSE BybitQty) = position.row

SupervisorLists ==
    /\ supervisor = "Idle" /\ account.enabled /\ position.row > 0 /\ "supervisor" \in account.group
    /\ supervisor' = "Status"
    /\ UNCHANGED <<others, recon, mismatches, reported, alarms, budget>>
SupervisorChecks ==
    /\ supervisor = "Status"
    /\ supervisor' = IF Matched THEN "Idle" ELSE "Incident"
    /\ UNCHANGED <<others, recon, mismatches, reported, alarms, budget>>
SupervisorReports ==
    /\ supervisor = "Incident"
    /\ supervisor' = "Lock" /\ reported' = TRUE
    /\ UNCHANGED <<others, recon, mismatches, alarms, budget>>
\* endOfUtcDayIso is imported from a module that does not export it: its call raises before the lock
\* is asked for, the catch of the position reports a failed check, and the close below is not reached.
SupervisorLocks ==
    /\ supervisor = "Lock"
    /\ supervisor' = "Idle"
    /\ UNCHANGED <<others, recon, mismatches, reported, alarms, budget>>
SupervisorFails ==
    /\ supervisor # "Idle"
    /\ Event("refuse") \/ Event("query")
    /\ supervisor' = "Idle"
    /\ UNCHANGED <<others, recon, mismatches, reported, alarms>>

(***************************************************************************)
(* The safe-mode monitor: its runs are not kept apart.                     *)
(***************************************************************************)
Unhealthy == row # None /\ row.status \in {"STALE", "RECONNECTING", "FAILED"}
Moves(m, pc) == monitor' = [monitor EXCEPT ![m] = pc]
Activate(t) == safe' = [safe EXCEPT ![t] = @ + 1]
MonitorSeesStream(m) ==
    /\ monitor[m] = "Idle" /\ m \in account.group
    /\ Moves(m, IF Unhealthy /\ safe["PRIVATE_STREAM_LOST"] = 0 THEN "StreamInsert" ELSE "Mismatches")
    /\ UNCHANGED <<others, checking, safe, budget>>
MonitorRaisesStream(m) ==
    /\ monitor[m] = "StreamInsert"
    /\ Activate("PRIVATE_STREAM_LOST") /\ Moves(m, "Mismatches")
    /\ UNCHANGED <<others, checking, budget>>
MonitorSeesMismatch(m) ==
    /\ monitor[m] = "Mismatches"
    /\ Moves(m, IF mismatches # {} /\ safe["RECONCILIATION_FAILED"] = 0 THEN "MismatchInsert" ELSE "Idle")
    /\ UNCHANGED <<others, checking, safe, budget>>
MonitorRaisesMismatch(m) ==
    /\ monitor[m] = "MismatchInsert"
    /\ Activate("RECONCILIATION_FAILED") /\ Moves(m, "Idle")
    /\ UNCHANGED <<others, checking, budget>>
MonitorFails(m) ==
    /\ monitor[m] # "Idle" /\ Event("query")
    /\ Moves(m, "Idle")
    /\ UNCHANGED <<others, checking, safe>>

(***************************************************************************)
(* What happens around.                                                    *)
(***************************************************************************)
Restarts ==
    /\ scan' = "Idle" /\ stream' = [o \in Streams |-> None] /\ writes' = {}
    /\ recon' = None /\ supervisor' = "Idle" /\ monitor' = [m \in Monitors |-> "Idle"]
    /\ UNCHANGED <<account, row, heard, position, mismatches, reported, safe>>
\* A ping interval that outlived its socket sends into the next one while it still connects: this throws.
PingsTooEarly ==
    /\ account.venue = "BYBIT" /\ \E o \in Streams : stream[o] # None /\ stream[o].conn = "Opening" /\ stream[o].keepers > 0
    /\ Restarts /\ UNCHANGED budget
\* A status write or a keep-alive that fails is an unhandled rejection: the process stops with it.
Crash ==
    /\ \/ Event("crash") \/ (Event("query") /\ writes # {})
       \/ (Event("refuse") /\ account.venue = "BINANCE" /\ \E o \in Streams : stream[o] # None /\ stream[o].keepers > 0)
    /\ Restarts
Rotate ==
    /\ Event("rotate") /\ "stream" \in account.group /\ \E k \in Keys \ {account.key} : account' = [account EXCEPT !.key = k]
    /\ UNCHANGED <<health, position, checking, alarms>>
Switch ==
    /\ Event("switch") /\ account' = [account EXCEPT !.enabled = ~@]
    /\ UNCHANGED <<health, position, checking, alarms>>
\* The executor fills and records an entry, a level is reached, in part perhaps, a close is recorded, an order is lost.
Move ==
    /\ Event("move") /\ "reconciliation" \in account.group
    /\ \/ position = Flat /\ \E n \in 1..Volume : position' = [row |-> 0, held |-> n, stop |-> TRUE, take |-> TRUE]
       \/ position.row = 0 /\ \E n \in 1..position.held : position' = [position EXCEPT !.row = n]
       \/ position.held > 0 /\ position' = [Flat EXCEPT !.row = position.row]
       \/ \E n \in 1..(position.held - 1) : position' = [position EXCEPT !.held = n]
       \/ position.row > 0 /\ position.held = 0 /\ position' = Flat
       \/ position.held > 0 /\ \E x \in {"stop", "take"} : position[x] /\ position' = [position EXCEPT ![x] = FALSE]
    /\ UNCHANGED <<account, health, checking, alarms>>
Operator ==
    /\ Event("operator")
    /\ \/ reported /\ reported' = FALSE /\ UNCHANGED safe
       \/ \E t \in Triggers : safe[t] > 0 /\ safe' = [safe EXCEPT ![t] = @ - 1] /\ UNCHANGED reported
    /\ UNCHANGED <<others, recon, mismatches, supervisor, monitor>>

StreamStep(o) == Connect(o) \/ ListenKey(o) \/ Catch(o) \/ Opens(o) \/ Hears(o) \/ Forgotten(o)
ScanStep      == MarkStale \/ ListEnabled \/ EnsureStream
ReconStep     == ReconStarts \/ ReadPositions \/ ReadOrders \/ CreateRun \/ CreateMismatch
SupervisorStep == SupervisorLists \/ SupervisorChecks \/ SupervisorReports \/ SupervisorLocks
MonitorStep(m) == MonitorSeesStream(m) \/ MonitorRaisesStream(m) \/ MonitorSeesMismatch(m) \/ MonitorRaisesMismatch(m)
Next ==
    \/ \E w \in writes : Executes(w)
    \/ Tick
    \/ \E o \in Streams : StreamStep(o) \/ Drops(o)
    \/ ScanStep \/ ReconStep \/ ReconFails \/ SupervisorStep \/ SupervisorFails
    \/ \E m \in Monitors : MonitorStep(m) \/ MonitorFails(m)
    \/ PingsTooEarly \/ Crash \/ Rotate \/ Switch \/ Move \/ Operator

Spec == Init /\ [][Next]_vars

\* Timers, connections and queries go on; a live connection speaks or is kept alive.
Fairness ==
    /\ \A k \in Keys, s \in Statuses : WF_vars(\E w \in InFlight(k) : w.status = s /\ Executes(w))
    /\ \A o \in Streams :
          /\ WF_vars(Connect(o) \/ ListenKey(o) \/ Catch(o) \/ Opens(o) \/ Forgotten(o))
          /\ WF_vars(Hears(o))
    /\ WF_vars(ScanStep) /\ WF_vars(ReconStep) /\ WF_vars(SupervisorStep)
    /\ \A m \in Monitors : WF_vars(MonitorStep(m))
FairSpec == Spec /\ Fairness

(***************************************************************************)
(* Properties.                                                             *)
(***************************************************************************)
\* The executor's gate finds the stream of a key healthy only when that key's connection opened,
\* spoke or was kept alive a short while ago, in whatever order the status writes of several stream
\* objects, of a key that was replaced among them, are executed.
HealthyIsHeard == \A k \in Keys : Gate(k) => heard[k] <= StaleAfter

\* The gate of an enabled account opens again and again for the key it has now, after dropped
\* connections, refused calls, crashes and rotations: no stream is left without a next attempt.
GateReopens == []<>(~account.enabled \/ "stream" \notin account.group \/ Gate(account.key))

\* A stream that stays unhealthy and a divergence from the exchange that stays are safe-mode events
\* in the end, whatever single run fails, however runs of the monitor overlap and whatever event an operator
\* resolves meanwhile.
Diverged == Mismatches(position.row, position.held, Orders) # {}
AlarmsAreRaised ==
    /\ []<>(account.group \cap Monitors = {} \/ ~Unhealthy \/ safe["PRIVATE_STREAM_LOST"] > 0)
    /\ []<>(~account.enabled \/ "reconciliation" \notin account.group \/ account.group \cap Monitors = {} \/ ~Diverged \/ safe["RECONCILIATION_FAILED"] > 0)

\* A recorded position that lost a protective order and stays without it is an incident in the end: one
\* run may fail at any step, the order may go between two runs, an operator may resolve the incident.
UnprotectedIsReported ==
    []<>(~account.enabled \/ "supervisor" \notin account.group \/ position.row = 0 \/ (position.stop /\ position.take) \/ reported)
=============================================================================
