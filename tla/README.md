# TLA+ verification of the multi-agent trading core

This directory holds TLA+ specifications of the trading core of the platform
(`src/multi-agent-core-v2.5`, the API under `apps/api/src`), the TLC
configurations that model-check them on small instances, and TLAPS proofs of
the theorems that matter most. Paths below are relative to `apps/api/src`
unless they say otherwise.

Run everything from this directory: `tlc -config X.cfg M` checks one
configuration (the module of each is in `PROJECT.json`), `tlapm M_proofs.tla`
checks the proofs of a component.

Contents: 1 the system; 2 how the project is laid out; 3 the modules; 4 bounds and
fairness; 5 what is proved; 6 what is only model-checked; 7 what was seen while
modelling; 8 what is not modelled.

## 1. The system

One or more API processes share a PostgreSQL database and a Redis server. Every
process runs the routes and all agents (`workers/bootstrap.ts`). Agents talk
through envelopes: durable ones on Redis Streams, all of them also on Redis
Pub/Sub for the browser.

| Component | State it keeps | Operations | Talks to |
|---|---|---|---|
| **Durable bus** (`infrastructure/redisBus.ts`, `repositories/messageProcessingRepository.ts`) | idempotency keys, streams with pending lists, dead-letter streams, `processed_agent_messages` | publish, read, reclaim after 30 s, begin / handle / mark / acknowledge, retry copy, dead-letter | every agent |
| **Transactional outbox** (`repositories/outboxRepository.ts`, `workers/outboxDispatcherWorker.ts`) | `event_outbox` rows: status, attempts, next attempt | enqueue, claim, publish, mark published or failed | Agent 3 writes, the bus receives |
| **Agent 1 and 2** (`agents/marketAnalystAgent.ts`, `agents/strategyAgent.ts`) | last vectors, strategies | score the market, emit signals | publish to Agent 3 |
| **Agent 3, entry** (`agents/orderExecutorAgent.ts` 69-366) | advisory locks, `execution_decisions`, `active_positions`, `orders` | take the execution lock, refuse duplicates, check locks and limits, place a bracket order, record | exchange, bus, outbox |
| **Agent 3, closing** (`agents/orderExecutorAgent.ts` 82-213, `repositories/positionRepository.ts`) | `active_positions.status` | force-close one position, kill switch, emergency halt | exchange; called by Agents 4 and 6, by routes, by the protection supervisor |
| **Agents 4 and 5** (`agents/dailyDrawdownGuardAgent.ts`, `agents/dailyProfitCapGuardAgent.ts`, `repositories/dailyRiskRepository.ts`, `repositories/tradingLockRepository.ts`) | one `daily_trading_stats` row per account and UTC day, `trading_locks` | snapshot equity, set risk or profit lock, send a halt, release expired locks | Agent 3 through the bus; routes set and release locks |
| **Agent 6** (`agents/timeHorizonGuardAgent.ts`) | `position_timeout_events` | warn at 165 min, request a close at 180 min | Agent 3 through the bus |
| **Exchange clients** (`execution/*`) | none of their own; positions and orders on the exchange | leverage, bracket order with rollback, reduce-only close, cancel all, balances | Binance, Bybit |
| **Position sizing** (`execution/positionSizing.ts`) | none | quantity from risk, fees, lot step, notional bounds | Agent 3 |
| **Private streams** (`execution/privateStreamSupervisor.ts`) | one socket per account, stream health rows | connect, renew the listen key, reconnect | gates live entries |
| **Reconciliation, safe mode, protection supervisor** (`workers/*`) | reconciliation runs, `safe_mode_events` | compare rows with the exchange, start and end safe mode, force-close an unprotected position (never reached, section 7) | Agent 3, routes |
| **Sessions** (`auth/*`) | session rows with hashed tokens and a CSRF hash | register, login, refresh (rotate), logout | every route |
| **Readiness, approvals, wizard** (`routes/institutional.ts`, `repositories/institutionalRepository.ts`, `repositories/liveReadinessRepository.ts`) | approval requests, wizard runs, readiness checks | request, decide, step, switch to LIVE | accounts |
| **Route limiter** (`security/sensitiveRouteLimiter.ts`) | fixed windows in memory | count, refuse | sensitive routes |
| **Audit chain** (`repositories/immutableAuditRepository.ts`) | append-only rows with a hash of the predecessor | append | risk events |
| **Database** (`infrastructure/db.ts`) | pool of 24 connections | query, transaction, session advisory lock | everyone |
| **Market data, OSINT, LLM clients** (`data/*`, `osint/*`, `llm/*`) | caches | fetch, parse | Agents 1 and 2 |
| **Vault** (`security/vault*.ts`) | encrypted keys | encrypt, decrypt | `loadCredentials` |
| **Web console** (`apps/web`) | client state, event stream | render, send commands | routes |

What is hard about it:

* *Interleaving.* Two handlers of one process interleave at every `await`, several
  processes share the database. Positions are opened by Agent 3 and closed by five
  actors, with a status column as the only lock; entries are guarded by a session
  advisory lock taken and released through a connection pool; checks of limits and
  of trading locks precede the action they guard by several awaits.
* *Partial failure.* Nothing in the trading path uses a database transaction: a handler
  is a sequence of queries, exchange calls and publications, each of which may fail
  alone, before or after its effect.
* *Delivery.* Messages are redelivered after failures and crashes; the handler, the
  processed mark and the acknowledgement are separate steps.
* *Crash.* What was done before a crash stays done (exchange orders, rows), what was to
  follow is lost unless a message brings it back.
* *Limits.* Three deliveries, five halt attempts, limits on open positions and daily
  trades, windows of the limiter, rounding of quantities.
* *Time.* The UTC day boundary of the guards; expiry of locks, approvals and sessions.

What makes each component correct (each line is a property of section 3):

* closing: a row says closed only after an order has reduced the position; one owner per close; a recorded
  timeout keeps its message, and the handling of a halt ends;
* entry: one signal enters at most once; limits hold; no entry after a lock but those in flight;
  every OPENED decision has its row;
* bus: an acknowledged message was processed, was copied for a retry or was dead-lettered; nothing is
  buried early;
* outbox and live events: a published row is in the stream; every row is settled; a page shows only
  what its user may see;
* guards: the lock of an emergency stands to the end of the day; the profit lock never hides it; a
  drawdown that stays is halted;
* placement: the risk of an order is held; a placed position is protected; an unprotected one has an
  explanation;
* watching: the gate trusts only what was heard and opens again; alarms are raised; an unprotected
  position is reported;
* console: who is locked out, what an operator is told, what a certificate rests on, the audit chain,
  the limiter and the data shown;
* market: what a fresh vector rests on; ideas and signals are accounted for; the feed comes back.

## 2. How the project is laid out

Each component module is parameterised by its workers, items and fault kinds, has one action per
step between two awaits of the code, and keeps recursion out, so that it can be both checked and
proved about. An `MC` module with a `.cfg` instantiates it, a `_proofs` module holds its theorems.

| Order | Module | Models | Abstract specification | Proofs |
|---|---|---|---|---|
| 1 | `PositionLifecycle` | closing: Agent 6, force close, kill switch, halt | `CloseContract` | yes |
| 2 | `DurableBus` | publish, deliver, reclaim, retry, dead-letter | `DeliveryContract` | yes |
| 3 | `OrderEntry` | lock, duplicate check, limits, placement, records | | yes |
| 4 | `RiskGuards` | Agents 4 and 5, daily rows, trading locks, operator, UTC day | | yes |
| 5 | `EventOutbox` | event log, outbox, dispatchers, Pub/Sub, live stream, page | | yes |
| 6 | `BracketOrder` | sizing, placement on either exchange, rollback, audit, halt | | yes |
| 7 | `LiveSafety` | private streams, reconciliation, protection supervisor, safe mode | | yes |
| 8 | `ConsoleSession` | tabs, client retries, routes, sessions, limiter, approvals, audit chain | | yes |
| 9 | `MarketPipeline` | market feed, Agent 1, ingestion, Agent 2 | | yes, in `BracketOrder_proofs` |

The modules meet where one names a step of another: `BracketOrder` is the placement that `OrderEntry`
takes as one action with its outcomes, `LiveSafety` computes the gate that `OrderEntry` asks in its
market check and the forced closes of `PositionLifecycle`, `RiskGuards` sets the lock that `OrderEntry`
reads and sends the halt that `PositionLifecycle` and `BracketOrder` receive, `EventOutbox` publishes on
the stream that `DurableBus` delivers, `MarketPipeline` writes the signals that `OrderEntry` consumes.
They are checked apart, each against the most general behaviour of its neighbours: a lock is set at any
moment, a halt comes at any moment, a message is delivered again at any moment.

## 3. The modules

Conventions. A step of a model is what the code does between two awaits that touch shared
state; the program counter of a worker names the await it stands at. A fault is a disjunct
guarded by a budget: the constant `Faults` (or `Events`) says which kinds may happen, another
bounds how many in one behaviour. A query that fails may fail before or after its effect where
the difference matters (the code uses no transactions there, and a connection can break after the
statement was executed). History variables, which the code does not have, are marked *history* where
they are declared; properties compare the state with them, actions never read them. Operators marked
*Mutant* are deliberately wrong versions of their neighbours: each property is shown to fail when one
of them replaces the definition beside it (`mutants` in `PROJECT.json`).

### PositionLifecycle (and CloseContract)

What it models: every status a row of `active_positions` can take and every actor that
writes one, with what the exchange still holds.

| State | Code |
|---|---|
| `status` | `active_positions.status`; `NONE`, `ENTERED` before the row exists |
| `exposure`, `remainder` | positions the exchange holds whole; those an executed order left a part of (external) |
| `recorded` | `position_timeout_events` with `FORCE_CLOSE_TIMEOUT` |
| `deliveries` | the durable message of a timed-out position and its remaining deliveries |
| `closer` | each run of `forceClosePositionById` / `forceCloseAllForAccount` |
| `halt` | each run of `handleRiskHaltEnvelope` |
| `guard` | `TimeHorizonGuardAgent.runOnce` |
| `stranded` | history: timeouts whose message was never sent, given up, or acknowledged without an attempt |

Actions: `TimeoutCandidate`, `RecordTimeoutEvent`, `MarkForceClose`, `PublishTimeout` are
Agent 6; `StartTimeoutClose`, `StartDirectClose`, `ListOpenForUser`, `SubmitClose`,
`LoadCredentials`, `ClosePosition`, `RecordClose`, `RecordOrder`, `CloseFailed` are the
force-close path; `StartKillSwitch`, `KillNext`, `KillReport` loop over it; `StartHalt` to
`HaltGivesUp` are the halt loop; `EntryFills`, `OpenPosition` stand for the entry side, and
`StopOrTargetFills` for the exchange. A close order is for the volume of the row, which is what the entry
reported as filled (on Bybit its first execution), and nobody asks how much of it was filled: an accepted
order takes the position out of `exposure` and may leave it in `remainder`.

`Representable` is the CHECK of `active_positions.status`. Migration 003 admits OPENED and the CLOSED
statuses but none of the three statuses in between that the code writes (`MigratedStatuses`); an UPDATE to one of
them raises. `WidenedStatuses` is the list of the shared `PositionStatusSchema`.

`CloseContract` is the abstract specification: a position is held at most once; an order ends it or leaves a
part; its row opens after the entry, may be reopened by a late failure, and says closed only after an order
has reduced the position. `PositionLifecycle` implements it through the mapping `HoldingOf`, `RowOf`.

Properties. `SingleSubmitter`: the compare-and-set in `requestClose` really is a lock, which
depends on every other writer of the column. `ClosedWasReduced`: no row is closed over a position that no order has
reduced, although the halt ignores the result of `requestClose` and may work on a row another closer owns; that
nothing is left of a closed position is more than the code can say. `TimeoutIsPending`: a recorded timeout that no
close has reached has its message on its way, but for four ways to strand it: the mark is refused or the
process dies before the publication, the last delivery throws, the account is not found. `HaltEnds`: the handling
of a halt ends. `TimedOutPositionIsOrdered`, that a timed-out position is ordered closed, is what the
documentation says, and fails.

| Run | Question |
|---|---|
| `closers` | one position, all actors, three faults of any kind, the widened schema: `SingleSubmitter`, `ClosedWasReduced`, `TimeoutIsPending`, the refinement `KeepsCloseContract` |
| `timeouts` | the schema of the migrations, no fault: `TimedOutPositionIsOrdered` is **violated**. The UPDATE to FORCE_CLOSE_REQUESTED raises after the event was recorded |
| `halts` | two positions, the schema of the migrations, two faults of any kind: `HaltEnds` |

### DurableBus (and DeliveryContract)

What it models: one channel with one consumer group, from `publish` to acknowledgement.

| State | Code |
|---|---|
| `reserved` | the keys `ma-core:idempotency:*` |
| `producer` | where the publication of each envelope stands; who called and got an error calls again |
| `stream`, `read`, `pending` | the Redis stream, the group's last delivered entry, its pending list |
| `row` | `processed_agent_messages.status` |
| `dead` | the dead-letter stream |
| `consumer` | the loop of `consumeDurable` in each process: the batch, the entry at hand |
| `completed`, `started` | history |

Actions: `Reserve`, `AddEntry`, `PublishFails` are `publishDurable`; `Reclaim`, `ReadFresh`,
`FinishBatch` the loop; `Begin` ... `AcknowledgeOutside` are `processMessages` line by line:
the acknowledgement of the good case is inside the `try`, that of the bad case outside.

`DeliveryContract` is the abstract channel: a message is new, owed or settled, in that order.

Properties. `NothingLost`: no order of copying, marking and acknowledging lets a message
disappear. `DeadLetterIsExhausted`: nothing is buried before its handler was started as often as
its attempts allow, also when entries are claimed from a consumer that is still at work.
`Delivered`: every message of the stream is settled in the end.

| Run | Question |
|---|---|
| `bus` | two consumers claiming from each other, a poison message, one fault of any kind, fairness: the two invariants, the refinement `KeepsDeliveryContract`, `Delivered` |

### OrderEntry

What it models: `handleSignalEnvelope`, `execute`, `executeLocked`, `reject` of Agent 3 for one
account, in several API processes, with the advisory lock of `infrastructure/db.ts` taken and
released over a connection pool.

| State | Code |
|---|---|
| `queue`, `processed` | the signal messages and their processed marks, as DurableBus treats them |
| `holder` | which process's connection holds the session lock of a signal |
| `entered` | entry orders the exchange executed, per signal |
| `rows` | `active_positions` |
| `opened`, `decided` | `execution_decisions`: the OPENED ones, and what is said of each signal |
| `locked` | an active row of `trading_locks` for the account |
| `worker` | the consumer of each process |
| `late` | history: entries executed while a lock was active |
| `forgotten`, `bared` | history: executions that sent an order and ended without a decision; locks closed under an execution |

Actions: `TryLock`, `RejectBusy`, `Unlock`, `ConnectionCloses` are the lock; `FindAccount`,
`CheckDuplicate`, `CheckTradingLocks`, `CheckOpenCount`, `CheckSymbol`, `CheckDailyCount`,
`CheckMarket` the checks in their order; `PlaceOrder`, `OpenRow`, `RecordOrder`, `Decide` the
effects; `CatchFailure`, `Reject` the failures.

Properties. `RepeatsAreExplained`: however a signal is redelivered or taken over, each entry beyond its first
is owed to an accident of its own: an execution that sent its order and ended without a decision (a crash, a
failing incident or rejection), or whose lock's connection was closed. `EntryIsDecided`: an entry no decision
knows of is still in someone's hands or was lost so.
`LateEntriesBounded`: a trading lock is outrun by at most one entry per process.
`WithinLimits`: the limits hold for one process and are exceeded by at most one entry per
further process. `OpenedHasPosition`: an OPENED decision has its row. `Concluded`: no lock left
behind blocks a signal for ever.

| Run | Question |
|---|---|
| `entry_limits` | two processes, four signals of two pairs, limits of two positions and one trade, two crashes, failing queries or lost answers: `LateEntriesBounded`, `WithinLimits` (each of its three bounds fails without its check) |
| `entry_concluded` | two processes, two signals, two faults of every kind, fairness: `RepeatsAreExplained`, `EntryIsDecided`, `OpenedHasPosition`, `Concluded` |

### RiskGuards

What it models: `runOnce` of Agents 4 and 5, whose intervals do not wait for the run before, the two
tables they write and the operator's routes that write the same locks, through UTC midnight.

| State | Code |
|---|---|
| `now` | the clock, `DayLength` ticks to a UTC day |
| `account` | equity and realized profit as the exchange reports them (external) |
| `stats` | `daily_trading_stats`, one row a day |
| `locks` | the active row of `trading_locks` for each key of the unique index of migration 004 |
| `actor` | each run of an agent, each request of the operator |
| `halted` | the halt messages published |
| `weakened`, `disarmed` | history: days whose lock the operator released or shortened; days marked by a run that then sent no halt |

Actions: `ReadBalance`, `ReadProfit`, `UpsertDrawdown`, `UpsertProfit` are the snapshot (the reading may
be of another day than the row it lands in); `Trigger`, `UpdateLock`, `InsertLock`, `MarkRisk`,
`MarkProfit`, `SendHalt` the reaction, with `activate` as its UPDATE and its INSERT; `ManualLock`,
`KillSwitch`, `ReleaseLock` the routes; `ReleaseExpired`, `Tick`, `AccountMoves`, `Fail`, `Crash` the rest.

Properties. `EmergencyLockStands`: the row of the day and the lock agree, although they are two
tables written in different statements. `EmergencyOutranksProfit`: the two agents write health and end of
one row. `DrawdownHalts`: a drawdown that stays on the row of a day is answered by a halt of that same day
(one of the day before does not count: the mutant, which keeps yesterday's row after midnight, is found),
unless a run marked the row and then sent no halt for that day. Run: `risk_days` (one run of each agent, a request, two days, one fault or crash at
any await; the proofs cover overlapping runs).

### EventOutbox

What it models: an event from the agent that makes it to the page that shows it.

| State | Code |
|---|---|
| `made`, `log` | events begun, `agent_events` |
| `outbox`, `buried` | `event_outbox`, how many rows `event_outbox_dead_letters` has of each |
| `reserved`, `stream` | idempotency keys, how often an event is in its Redis stream |
| `worker` | each agent and each process's dispatcher with its batch |
| `cookie` | whose cookies each browser has; all its tabs share them |
| `page`, `asked` | `useLiveEvents` of one page of each browser: its user, the user its stream was opened as, events shown; requests for recent events under way |
| `stranded`, `lapsed`, `page.guests` | histories: reserved by a publication that failed before its XADD; how often a key expired; other users the page was served as |

Actions: `PublishEvent`, `Enqueue` are the agents, `ClaimBatch`, `TakeRecord`, `Reserve`, `AddEntry`,
`Broadcast`, `MarkPublished`, `MarkFailed`, `Bury` the dispatcher and the bus, `KeyExpires` the end of an idempotency key, `SignsIn` to `RecentArrives` the page, `OtherTab` a sign-in or sign-out in another tab.

Properties. `PublishedIsInStream`: a row says PUBLISHED only of an event that is in its stream or on its
way, but for the one window after SET NX (section 7). `TypeOK` includes that no event is added twice in one life of its key (`AddedOnce`), that a row is
tried no more often than the dispatchers that hold it at once allow, and that each of them writes at most one dead
letter of it (`BuriedOnceEach`). `ShownIsListed`: the live route and the log filter alike, and nothing late is shown
to the wrong user; a stream or a request that is sent again goes out with the cookies of that moment, and that
user's events are the exception. `Settles`: every row ends. Run:
`outbox_settles`.

### BracketOrder

What it models: one order from `calculatePositionSize` through `placeBracketOrder` of the Binance or Bybit
client and its audit back to the executor, while an emergency halt cancels the account's orders. Prices and
quantities are whole numbers of a smallest unit.

| State | Code |
|---|---|
| `signal`, `order` | the signal with the price and equity of the moment, the calculated order |
| `call` | where the executor and the client are |
| `book`, `fill` | the exchange: what is held and which protective orders rest, what the entry was executed for (external) |
| `answer`, `row` | what `placeBracketOrder` returned or threw; whether the executor has opened the row |
| `halt` | the halt loop: cancelled, closed |
| `canceled`, `partly`, `suffered` | history: the halt cancelled protection; the rollback's reducing order was filled in part; the faults with their calls |

Actions: `Size`, `CheckMargin`, `SetLeverage` to `ReduceEntry` are the calls (`Stop`, `Take`, `Cancel` and
`Reduce` are Binance's; Bybit's entry carries its protection), `ConfirmFill` the confirmation, `AuditOk`,
`AuditError`, `AuditFails` the wrapper, `HaltCancels`, `HaltCloses` the halt, `LevelReached` the market.

Properties. `RiskIsHeld`: the loss at the stop the order carries is at most the share of the equity, or what the
exchange's minimum takes, and half a tick of each unit, which is what rounding the stop can add. `PlacedIsProtected`:
what the executor was told is placed, or has a row, has both orders, and was executed for at least what its row
claims, unless Binance's answer names no quantity. `NakedIsExplained`: a call that ends with an unprotected
position is explained by a halt, a crash, a lost answer of the entry, or a reducing order of the rollback that was
refused or filled in part. Run:
`bracket_place`.

### LiveSafety

What it models: what watches a live account. The workers run in the code side by side; the run takes them in three
overlapping groups (`Groups`), one of them with two runs of the monitor, which nothing keeps apart.

| State | Code |
|---|---|
| `scan`, `stream` | `scanAccounts` and the stream objects, replaced ones included |
| `row`, `writes` | the row of `private_stream_statuses`, and the status writes nobody awaits |
| `position` | the open row, what the exchange holds, the protective orders resting |
| `recon`, `mismatches` | the reconciliation run, unresolved critical mismatches |
| `supervisor`, `reported` | the protection supervisor and its unresolved incident |
| `monitor`, `safe` | runs of the safe-mode monitor, active safe-mode events |
| `account` | venue, enabled, key |
| `heard` | history: ticks since a key's connection opened, spoke or was kept alive |

Actions: `Connect`, `ListenKey`, `Opens`, `Hears`, `Drops`, `Catch`, `MarkStale`, `Executes` are the stream;
`ListEnabled`, `EnsureStream` the scan; `ReconStarts` to `ReconFails`; `SupervisorLists` to
`SupervisorFails`; the `Monitor` actions; `Crash`, `Rotate`, `Switch`, `Move` and the operator's resolutions.

Properties. `HealthyIsHeard`: the gate is open only for a connection that was heard of a short while ago, in
whatever order the writes of several stream objects are executed. `GateReopens`, `AlarmsAreRaised`,
`UnprotectedIsReported`: no fault leaves a stream, an alarm or a position without a next attempt. The message of the
incident says that the position will be closed; it is not (section 7). Run: `live_safety`.

### ConsoleSession

What it models: the browser tabs of one operator, the client that gives a call up and repeats it while the
server works on, and the routes as sequences of awaits (`Routes`), which interleave.

| State | Code |
|---|---|
| `sessions` | `user_sessions`, the number of rotations stands for the token pair |
| `jar`, `tab`, `call` | cookies, state of `useSession` / `useConsoleData`, the calls of `requestJson` with their attempt: the operator's and two reloads |
| `handlers` | requests on the server, replies on their way |
| `store` | approval, wizard, readiness checks, mode, hash-chained events of both writers (`audit`, `events`) |
| `used` | buckets of the route limiter |
| `proof`, `slip`, `told` | history: the last marks and which were overwritten, whether LIVE was earned, who overtook whom in the chain, lost replies, what a tab was told |

Actions: `Opens`, `Closes`, `Acts`, `Reloads`, `TimesOut`, `Receives` are the browser; each await has its action:
`Enforces`, `Authenticates`, `ChecksCsrf`, `Reauthenticates`, `ChecksRole`, `Reads`, `Writes`, `Decides`,
`ReadsSteps`, `WritesStep`, `ChecksReadiness`, `SetsMode`, `MarksCheck`, `LocksHead`, `LinksEvent`, `ReadsLast`, `AppendsEvent`,
`CreatesSession`, `FindsSession`, `Rotates`, `Revokes`, `QueryFails`.

`QueryFails` is a statement that fails, and also a connection that breaks when the last statement of a route has taken
effect: the answer is 500 and sets no cookies. (In the middle of a
route that is the same as a failure of the next statement.)

Properties. `LockedOutIsExplained`: rotation locks a browser out only when a reply, or the database's answer to the
rotation, was lost or two refreshes overlapped. `ToldIsTrue`: what a tab was told of its decision is so.
`CertifiedIsEarned`: PASSED rests on last marks that are PASSED, but for one that was overwritten by an update based
on older steps; LIVE on every check passed, but for one that failed under a switch. A step is accepted
without a password, as the route accepts it. `AuditIsLinear`: the chain of a scope forks only when its first events overlap;
the other writer of chained events reads without a lock, and its chain forks exactly where another's event
was inserted between its read and its insert. `RetriesFitTheLimit`: the client's own retries never use a limit up, the
wizard's steps, which share the bucket of the readiness checks by their prefix, included.
`ConsoleCatchesUp`: a signed-in tab shows the newest data again and again, although an older reload may
overwrite what a newer one has shown. Run: `console`, in ten plans.

### MarketPipeline

What it models: one process from a pair's socket to a trade signal. Prices and scores are not modelled, only
where a price comes from and how old it is.

| State | Code |
|---|---|
| `feed` | `PairStreamState` with its socket and timers |
| `pc`, `vec` | cycles of Agent 1 that may overlap, the REST refresh, the vector each cycle holds |
| `stream`, `hand` | vectors published, what Agent 2 works on; rows, events and signals of each |
| `ingest` | ingestions with their sources and what each holds |
| `ideas` | `osint_dedupe`; `strategy_rules`, by key, with the idea whose id the row has and the one it holds now; announcements |
| `proc`, `reachable` | start, boot, stop of the process; the exchange |
| `fate` | history: the ideas stored, and those an ingestion held when a step failed or the process stopped |

Actions: `SocketOpens` to `ClosesFeed` are the feed, `StartsCycle` to `PublishesVector` Agent 1 with the
language model, `StartsIngest` to `IngestFails` the ingestion, `TakesVector` to `PublishesSignal` Agent 2.

Properties. `FreshIsExplained`: a vector that does not call itself stale although no price was heard owes that
to other data, an error or a socket event. `WorkIsAccountedFor`: only ideas an ingestion
held when a source or a step failed or the process stopped are lost, all others are stored; the idea that made a row is
announced if it was accepted, and no other; a signal has its row and its event. `FeedRecovers`: the socket comes back. Run: `market`, in four scenes.

## 4. Bounds and fairness

* Positions: one for the races on a row, two for what depends on their order (the halt passes
  over them oldest first, an error on one ends the pass). Workers: one of each kind; for the
  bus, the entry and the outbox two processes, the smallest number in which one item is in two hands.
* Faults: one to three in a behaviour, two where a fault can hit the recovery from another. Deliveries and
  attempts are three and five in the code and between two and four in the runs: the liveness properties
  need more of them than faults, and the safety properties do not depend on the number (section 5).
* `MaxEntries` bounds the bus's stream above what two messages with two attempts and one fault need.
  `MaxStarts` only caps a history counter above every bound compared with.
* `RiskGuards`: two days of one tick, equities that are below and above the threshold; a tick may pass between
  any two awaits. `BracketOrder`: prices and a trading rule chosen so that the share, the minimum notional,
  the maximum and the lot step each decide in some signal, and rounding a level moves it across the price.
* `LiveSafety`: two stream objects and two keys, so that an object outlives its key; one status write of a key in
  flight; `Tick` waits while a write in flight would be older than the staleness limit, that is, a status is
  written before it is stale. Three groups of workers: the stream and the rest meet only in the row and the events
  the monitor reads. Volumes to two, so that a row and the exchange differ in size.
* `EventOutbox`: the three bounds trade faults, the expiry of a key among them, for sign-ins and events. `ConsoleSession` and `MarketPipeline`
  split the instance into plans and scenes by the state their routes or workers share: a plan has all the routes
  of one shared row. `RetriesFitTheLimit` has the plan with the smallest limit, three calls in a window, and the
  three attempts of the client. Two reloads of a tab may be pending. A reload waits for all of its calls, which are made
  at different moments, and shows each answer as it was read, so one of its calls, any, stands for it; the wait for
  the others is a slow reply.
* Symmetry (processes) is used in a safety run only.
* Deadlock is not checked: all systems may come to rest with nothing left to do.

Fairness. Weak fairness of each activity that has been started: Node's event loop runs it on, and
`consumeDurable` and the intervals restart after errors. Nothing makes an operator act, a
signal arrive or a fault happen. `DurableBus` needs one strong fairness, `ReclaimSome`: an entry that stays
pending is older than 30 s in the end, so XAUTOCLAIM returns it again and again until it is acknowledged,
while `Reclaim` may also find nothing yet. `EventOutbox` has strong fairness of claiming a row: the tick comes
again and again, and a claim that skips a row does so because another has it (`SKIP LOCKED`). In `LiveSafety`
a connection that is open speaks or is kept alive, in `ConsoleSession` a page's requests are served and its
interval ticks.

## 5. What is proved

The proofs hold for every value of the constants that meets the named assumptions of the module
(`NumPositionsAssumption`, `WorkersAssumption`, ...: sizes are natural numbers, the two kinds of
closers are different, the statuses OPENED and CLOSED can be stored).

`PositionLifecycle_proofs`: `TypeCorrect`, `SingleSubmitterHolds`, `ClosedWasReducedHolds`,
`ConfirmedHaltHasReducedHolds`, `TimeoutIsPendingHolds`,
`RefinesCloseContract`.

* None of the three invariants is inductive. `ClosedWasReduced` needs `ReducedBeforeRecord`: whoever stands
  before a step that records a close (a closer at RecordClose, a halt at Record) stands at a position that
  was reduced; and `NothingBeforeEntry`: without an entry there is no exposure. For the halt this needs
  `ListedHaveRows`: what it listed has a row, so that an entry order cannot bring the exposure of the
  same position back. `SingleSubmitter` needs `Owned`: a submitter's row is neither requestable nor
  absent, so that no other closer can win the compare-and-set.
* `Safe` is the conjunction of all of them. The proof has three parts: every action of a closer, a halt,
  Agent 6 or the exchange is first reduced to an effect (`CloserEffect`, `HaltEffect`, `RowEffect`) that says
  which row or exposure it may change under which condition; then each conjunct is shown to survive each
  effect; the type invariant is carried along.
* The refinement maps each effect to a step of `CloseContract` or a stutter.
* `TimeoutIsPendingHolds` has no hypothesis: its invariant adds `Recording`, what Agent 6 works on at each of its
  awaits, and the proof shows of every step of a closer that it keeps the message of each row no close has
  reached, or strands it (`KeepsMessages`).

`DurableBus_proofs`: `TypeCorrect`, `NothingLostHolds`, `DeadLetterIsExhaustedHolds`,
`KeepsDeliveryContractHolds`.

* `NothingLost` is not inductive: an acknowledgement takes an entry out of the live ones, and whether the
  message survives depends on what the consumer did before. `Covered` says it of every entry instead of every
  message: an entry is live, or it is `Accounted`, that is, its message is settled or a *later* entry
  of the message is live. The order matters: an acknowledged entry may have been the witness of an earlier one,
  and then hands its own witness on (`AccountedStays`), which works because the witnesses lie ahead. `InHand`
  says what a consumer knows of its entry at each place of the loop: it is accounted for before it is acknowledged.
* `DeadLetterIsExhausted` needs `EntriesStarted`: an entry that carries attempt n was put there after the
  handler of its message had been started n times. It is what makes the counter in the envelope trustworthy
  although copies run in parallel.
* `RowsDone` (a row says PROCESSED only of a message whose handler has returned) justifies the
  acknowledgement of skipped messages.
* `Keeps(e)` is what every step leaves of the channel, with e the entry it may acknowledge; `Effect(c)` adds
  what it does to the consumer. Each action is reduced to it in a lemma of its own, and the invariant is shown
  once, from the effect. In the refinement a step changes the standing of one message at most (`Affects`).

`OrderEntry_proofs`, for all faults: `TypeCorrect`, `OpenedHasPositionHolds`, `WithinLimitsHolds`,
`LateEntriesBoundedHolds`, `RepeatsAreExplainedHolds`, `EntryIsDecidedHolds`.

* `OpenedHasPosition` rests on `Recorded`: a worker at RecordOrder or Decide has its row, and the number of
  the entry in hand is one that the exchange has executed.
* `WithinLimits` and `LateEntriesBounded` count. `Bounded` reserves a share of each bound for every worker that
  has passed the check and has not yet written what the check counts (`PastOpen`, `PastSymbol`,
  `PastDaily`, `PastLock`): passing a check fits the bound because the check has just seen room (`Fits`), writing
  gives up the share (`Pays`), everything else only gives shares back (`Shrinks`). So the excess over a limit is the
  number of processes, whatever the number of signals and whatever fails.
* `RepeatsAreExplained` counts too (`Explained`). Inside with a signal are the worker that holds its lock and
  those whose lock was closed (`Orphans`, no more than `bared`). While a signal has no decision, its entries are
  no more than the executions that have sent an order and are at work (`Senders`) and the `forgotten` ones. Who passes
  the look for duplicates finds no decision, so the senders, the other workers on their way to the order
  (`Enterers`) and itself are all inside, and the bound has room for its order (`Crowd`).
* Each action is first reduced to an effect (`Effect`, `AccidentStep`); the invariants are shown from the effects.

`RiskGuards_proofs`: `TypeCorrect`, `SafeCorrect`, `EmergencyLockStandsHolds`, `EmergencyOutranksProfitHolds`.

* `EmergencyLockStands` relates two tables that are never written together. `Safe` says in addition what a run between
  the two statements of `activate` and before `MarkRisk` carries: the lock it is about to rely on stands already, or
  the day is `weakened`; and that no lock or row of a day that has not begun exists, so that midnight cannot
  falsify it. The proof covers any number of overlapping runs of both agents, which the run does not have.
* `EmergencyOutranksProfit` follows from the COALESCE and the CASE of `markProfitLocked` once every row is known to be
  written in one of the two ways.

`EventOutbox_proofs`: `TypeCorrect`, `SafeCorrect`, `AddedOnceHolds`, `PublishedIsInStreamHolds`, `ShownIsListedHolds`.

* The entries of an event and the workers between SET NX and XADD are counted together: `Paid` says that they are at
  most the lives its key has had, the present one included. `AddedOnce` follows, however many dispatchers hold the row;
  so does `PublishedIsInStream` (`Led`: an event whose key was set is in the stream, with such a worker, or `stranded`).
* For the page `Safe` says that its stream, and every request still heard, were served as its user or a guest, and that
  their rows are listed for that one; what the hub sends is filtered the same way.
* `TypeCorrect` needs two counts: a row fails once more for each dispatcher that holds it, so `Counted` bounds the
  attempts *plus* the number of dispatchers with the row in hand, batch or record, which are `Apart` in one
  dispatcher; a claim takes only rows below the limit. `Interred` bounds the dead letters plus the dispatchers that may
  still write one.

`BracketOrder_proofs`: `PhasesHold`, `TypeCorrect`, `RiskIsHeldHolds`, `PlacedIsProtectedHolds`, `NakedIsExplainedHolds`.

* The size: `SizeIsBounded`, `SizeHoldsRisk`, `RoundedDistance` and `OrderHoldsRisk` are lemmas on the operators for every trading rule, from
  `Division` (the floor, times the divisor, does not exceed the dividend) and monotonicity of multiplication
  (`Grows`). `Levels` (the stop is on its side of the price) gives the distance that is divided by.
* `Phases` is what each place of the calls relies on: before the entry the exchange is flat, at the take profit the
  stop rests, from the confirmation on both do, unless the halt cancelled them (`Guarded`); an executor that is
  told of an error, or is done, has no unprotected position without an explanation (`Sound`); a row exists
  only after an answer that said so (`Opened`).
* `RemainderFacts`: a reducing order leaves nothing, or less with the same protection.
* A step is one of six kinds (quiet, open, done, error, end, outside), each with a lemma.

The same module extends `MarketPipeline` (whose `MarketInit`, `MarketNext`, `MarketSpec` have names of their own for
that reason) and proves `FreshIsExplainedHolds`, `WorkIsAccountedForHolds`, from no assumption at all.

* `FeedHonest`: a feed state whose age counts from a price is exactly as old as that price, and a vector taken
  from it says so. Each operator on the feed keeps it, in a lemma of its own.
* `Signalled`: at each step of agent 2 the row, the event, the second delivery that the next write relies on are
  there (`Ahead`). `Kept`: every idea seen has its place (`Seen`), the first idea of a row is told, lost
  or at hand (`Heralded`), what is told made a row (`Firsts`); an ingestor at rest holds nothing, one that stores has
  put all its sources together (`Tidy`), and a process that is down has no ingestor at work; `IngestorKept` says once what
  a step of one ingestor must keep.

`LiveSafety_proofs`: `TypeCorrect`, `HealthyIsHeardHolds`.

* `HealthyIsHeard` speaks of the row; the writes nobody awaits may still be executed in any order. `Honest` says of the
  row and of every write in flight that a HEALTHY status is not younger than what was heard of its key: time ages
  both alike, and a connection that is heard of makes only the history younger.

`ConsoleSession_proofs`: `SafeCorrect`, `AuditIsLinearHolds`, `CertifiedIsEarnedHolds`, `ToldIsTrueHolds`,
`RetriesFitTheLimitHolds`, `LockedOutIsExplainedHolds`.

* The first two rest on the order of the awaits: an event is linked right after the head was locked, a plain one inserted
  right after the newest was read, LIVE is set right after the checks were read. `RoutesAssumption` says so of the table `Routes`, and TLC evaluates it on the table; the
  proof carries it over to what is left of each request (`Follows`, preserved by taking the tail).
* `Queued`: while the chain is not forked, at most one request is before its insert, and it has read the newest event.
  `Trail`: who is about to insert a plain event has read the newest one, or was overtaken (`late`). `Ready`: whoever is
  about to set LIVE has read checks that still hold, or one failed under it.
* That a repeated call is sent with a route of the table needs `Client`: an answer that is heard belongs to
  the call its slot waits for, no two answers are heard by one slot, and a closed tab hears none.
* The steps of the client only start requests or stop hearing them; those of the server move one request (`Moved`)
  and may age what all show (`Aged`). The invariant is shown from these effects.
* Every call of the operator has a number (`Called`), which its attempts share: what a request does can be traced to
  the call. `Decided`: an approval is decided by a call that was made, each request on the server carries the
  verdict of its own call, and what a tab was told is what that call did, unless a reply was lost. A failure after the
  last statement (`Failed`) ends the request like any other error, and leaves its route in `slip`.
* `Counted`: a bucket that one call filled has as many hits as there are attempts of the call that passed the limiter,
  each once (`Holds`), and these are at most three. The theorem has `ThreeAttempts` as hypothesis, the
  client's constant; with more attempts a call alone could use up the smallest limit.
* `Pairs`: no two replies carry the same token pair unless they are one call's, a reply that carries one carries the
  current one (`Distinct`), and the jar is current or the reply of a refresh that renews it is under way (`Newest`),
  unless a refresh lost its reply, or the database's answer, or overlapped another (`QuietPairs` has the failure).
* The assumptions on `Routes` also say which routes are limited, that they have a policy, that decisions are
  written once (`Ordered`); TLC evaluates them on the table in the run `console`.

## 6. What is only model-checked

Every invariant and both refinements the runs check are proved; what is left to TLC is

* Liveness (`HaltEnds`, `Delivered`, `Concluded`, `DrawdownHalts`, `Settles`,
  `GateReopens`, `AlarmsAreRaised`, `UnprotectedIsReported`, `ConsoleCatchesUp`, `FeedRecovers`): temporal
  properties under fairness are out of reach of the proof system.
* That the hypothesis of the conditional theorem can be met: `ThreeAttempts` (the plans of the run `console`), a named
  definition of the proof module.

## 7. Seen while modelling

Each is a behaviour of the code that the models have, and that a property names as its exception; the first
is a run.

* Migration 003's CHECK on `active_positions.status` admits no FORCE_CLOSE_REQUESTED, CLOSE_SUBMITTED or
  CLOSE_FAILED_RETRYING, and no later migration changes it. Every step of the close protocol raises; the
  timeout event is already recorded, so the position is not looked at again (run `timeouts`, the project's
  finding). The safety run takes the widened schema, where the races can happen; the proofs hold for any.
* A close order is for the row's volume and its fill is not confirmed: the row is closed over a remainder.
* `loadCredentials` (executor 150) throws after `requestClose` and outside the try block: the row stays
  CLOSE_SUBMITTED, which a later kill switch takes for a close under way.
* The idempotency key of a publication is set before XADD (`redisBus` 193): a publication repeated
  after a failed XADD returns without an entry, and the outbox marks its row PUBLISHED (`stranded`). It lives for a
  day, after which the event may enter its stream again (`lapsed`). `event_outbox_dead_letters` has no unique column,
  so `ON CONFLICT DO NOTHING` (`outboxRepository` 62) never applies.
* The live stream and a repeated request use the cookies of the moment: after a sign-in in another tab a page
  that still names the first user shows the second one's events.
* The loser of the advisory lock writes a decision for the signal (executor 219); the winner then takes it for
  the proof that the signal was handled.
* `forceClosePositionById` (154-175): a failure of `orders.record` after the row was closed runs
  `markCloseFailed`, which has no status guard, and the closed row is open again (`CloseContract`
  allows the reopening for this reason).
* A close whose answer is lost is retried as a reduce-only order with nothing to reduce: the row
  never closes. The same refusal, on a position the exchange closed by itself, ends every pass of the halt.
* `TimeHorizonGuardAgent` (26, 34): the event is committed before the message is published; a crash
  in between loses the close.
* A halt confirms zero exposure from the rows, while an entry may be filled and not yet recorded.
* A crash, a failing insert of the decision together with a failing incident, or the lock's connection
  closing during an execution, let a redelivered signal be entered once more (`forgotten`, `bared`).
* No code writes CLOSED_BY_TP or CLOSED_BY_SL: a position the exchange closed keeps an open row.
* Agent 4: a run that fails after marking the row leaves the guard disarmed for the day; an operator's manual
  lock that ends earlier is written over the emergency's (`disarmed`, `weakened`).
* The audit of a successful placement is part of the call (`auditedExecutionClient` 85-91): when its
  insert fails the executor is told that the order failed. Bybit's confirmation takes the first execution's
  quantity for the whole fill (`bybitExecutionClient` 276), Binance's what was ordered where the answer names none (165).
* The quantity is calculated with the signal's stop, which is then rounded to the tick (`positionSizing` 79): the order
  may lose more than the share. The rollback's reducing order is not confirmed (`binanceExecutionClient` 189): filled
  in part, it leaves a position without protection (`partly`).
* Binance's protective orders carry no quantity (`binanceExecutionClient` 291), which reconciliation and the supervisor
  compare with the position's. `protectionOrderSupervisor` imports `endOfUtcDayIso`, which `riskTime.ts` does not
  export: a compiler and a strict loader of modules refuse the program, and where a missing import is undefined (a
  bundler, the test runner) every lock of the supervisor raises, so that the position it reports is neither locked
  nor closed. The model takes the second. A disabled account is no longer supervised.
* `RiskEventRepository.append` (20-26) reads the newest row of `risk_events` without a lock and inserts behind it: two
  plain events may name one predecessor. The audit scopes chain through `audit_hash_state` in the same
  table, so that a plain event and one of a scope may name the same row even without an overlap: the table as a whole is
  no single chain, although the documents speak of hash-chained risk events.
* POST `/api/live-readiness/wizard/step` accepts PASSED without a password (`institutional` 223). If the risk
  states and the positions both fail to load, the console has no account and shows the readiness of none (`useConsoleData` 97).
* Two overlapping refreshes, or one whose answer is lost and that is sent again, lock a browser out of a live
  session. An attempt that timed out may have had its effect although the console says that nothing was executed
  (`api.ts` 393). Signing out without an access cookie revokes nothing.
* `updateWizardStep` writes back a list it read before; the switch to LIVE acts on checks read before; the first
  events of an audit scope find no head to lock. Approvals have an expiry that no code checks.
* `mergeState` of the market feeds renews the time of the state for errors and socket events; a Bybit ticker delta
  without a price replaces the last price by nothing, and the average of the closes is used.
* `registerSeen` is committed before the idea is stored; an accepted idea whose key (source and trigger) has a row
  only updates it, its review too, and is never announced (`strategyRepository` 28, `strategyAgent` 37); a vector handled again makes a second signal with a new
  random key; an error of the first ingestion ends the process.
* Migration 004, line 30, drops an index that backs the UNIQUE constraint of 003, line 45; migration 006 refers
  to a table `users` where 001 creates `app_users`. PostgreSQL refuses both on a fresh database.

## 8. What is not modelled

Components that are not modelled in full are listed in `PROJECT.json` with what is left out. Inside the
modelled ones:

* PositionLifecycle: `StartKillSwitch` takes the account lookup, the credentials, `cancelAllOrders`
  and the listing as one step; the list limit of 200; a second delivery of a timeout message that is
  still being handled (DurableBus has it); the warnings of Agent 6.
* DurableBus: entries that do not parse (`publish` only adds envelopes that do), the 24 h life of the
  idempotency key, the age of an entry (any pending one may be claimed). A lost answer of XREADGROUP is a
  crash with its batch.
* OrderEntry: PAPER mode is the case without exchange faults; refusals for reasons of the data
  are one choice, always possible; an unprotected placement that is returned (310) does not occur with the
  present clients, which throw; nested grants of a session lock are not counted; positions are not closed
  here; copies of a message with the same attempt count as one; the incident, the insert of a
  decision and its publication fail as queries do.
* RiskGuards: the risk events and the reconciliation of the profit, which nothing reads back; the profit of a
  Bybit account comes from one source.
* EventOutbox: the length of the backoff (a row that failed becomes due at any later moment), the trimming of
  the page to its newest events, the heartbeat of the stream; of a browser's tabs one shows its page here, the others
  change the cookies.
* BracketOrder: signatures, rate limits and parsing; the symbol rules are constants; nothing else is open on
  the account, so the free balance is the equity.
* LiveSafety: the close behind the lock of the supervisor, which nothing reaches; one account and one pair; reconciliation compares each row with the whole net position, which is the
  same with one row; the details of a mismatch.
* ConsoleSession: validation of bodies, hashing, the expiry of the refresh token after 30 days, other clients of the
  limiter's address, the count of the limit on all routes (its refusal is a failure like another), the plain events the
  guards and other workers append to the chain. Rows nothing else depends on are written by one action, `Writes`.
* MarketPipeline: prices, indicators, scores and embeddings; the token bucket, the adapter status rows; attempts and
  delays of the reconnect; one pair; one source stands for the kinds of OSINT sources.
* The API key vault and the permission check of a new key are pure functions of their input and of outside
  services; metrics are counters nothing reads; the demo API is static data; the pages render what the hooks
  hold; migrations run one after the other at start-up.
