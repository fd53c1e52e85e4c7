--------------------------- MODULE MarketPipeline ---------------------------
(***************************************************************************)
(* From the exchange's market data to a trade signal, in one process: the  *)
(* feed of one pair (a socket, REST refreshes, the state they share), the  *)
(* cycles of agent 1 that turn a snapshot into a market vector, the        *)
(* ingestion of trading ideas into rules, and agent 2, which answers a     *)
(* vector with a signal.  Prices and scores are not modelled, only where a *)
(* price comes from and how old it is.  What the feed only reports to      *)
(* operators (connected, attempts, the last error) is left out.            *)
(***************************************************************************)
EXTENDS Integers, Sequences, FiniteSets

CONSTANTS
    Cycles,      \* runs of agent 1 for the pair that may overlap
    Ingestors,   \* runs of the ingestion that may overlap
    MaxAge,      \* ticks after which a state is stale (more than 30 s)
    MaxRetries,  \* LLM_MAX_RETRIES
    MaxTries,    \* deliveries of a vector before it is a dead letter
    Review,      \* Review[x]: what the quality filter says of idea x
    Keys,        \* Keys[x]: the keys (source, trigger) a rule made of idea x may have, the trigger is the model's or the rules'
    Scenes       \* bound: [venue, sources, rounds, cycles, vectors, weather, faults]: the exchange, the ideas of each
                 \* source (the first is the seed list), how many ingestions and cycles start, how many vectors
                 \* agent 2 is given, whether the feed is disturbed, how many steps fail or stop the process

VARIABLES
    scene,     \* the scene, with the rounds, cycles and faults left
    proc,      \* "down", "boot" (the first ingestion), "up", "stopping"
    reachable, \* the exchange answers
    feed,      \* [socket, orphan, timer, refresh, price, closes, gaps, age], history [heard, why]: how long ago a price was heard, what the age counts from
    pc,        \* where each cycle and the REST refresh of the feed is
    vec,       \* the vector each cycle holds, and the attempts of its question to the model
    stream,    \* vectors published: [state, tries, rows, events, sent], history [again]
    hand,      \* what agent 2 works on: [v, step]
    ingest,    \* [step, at, todo, mine, got, x] of each ingestor
    ideas,     \* [seen, rows, told]: osint_dedupe, strategy_rules ([first, rule] of a key: the idea whose id the row has,
               \* and the one it holds now), ideas announced
    fate       \* history: [stored, lost]: ideas written to a row, ideas an ingestion held when a step of it failed or
               \* the process stopped

marketVars == <<scene, proc, reachable, feed, pc, vec, stream, hand, ingest, ideas, fate>>

Rest   == "rest"
Parts  == IF scene.venue = "BYBIT" THEN {"ticker", "orderbook", "klines"}
          ELSE {"ticker", "orderbook", "fundingRate", "openInterest", "klines"}
\* What a socket message may be.  A Bybit ticker delta names only what changed.
Kinds  == {"ticker", "depth", "kline", "liquidation", "garbage"} \cup (IF scene.venue = "BYBIT" THEN {"delta"} ELSE {})
First  == CHOOSE i \in Ingestors : TRUE
Ideas  == DOMAIN Review

ASSUME MarketAssumption ==
    /\ Cycles # {} /\ Ingestors # {} /\ MaxAge \in Nat \ {0} /\ MaxRetries \in Nat /\ MaxTries \in Nat \ {0}
    /\ \A x \in Ideas : Review[x] \in {"ACCEPTED", "QUARANTINED", "REJECTED"} /\ Keys[x] # {}
    /\ \A s \in Scenes : Len(s.sources) > 0 /\ \A n \in DOMAIN s.sources : s.sources[n] \subseteq Ideas

\* The state of a pair nobody asked for yet, and the rest of a process that just started.
EmptyFeed == [socket |-> "none", orphan |-> FALSE, timer |-> FALSE, refresh |-> FALSE, price |-> "none", closes |-> FALSE,
              gaps |-> TRUE, age |-> 0, heard |-> MaxAge, why |-> "created"]
NoVector  == [stale |-> FALSE, source |-> "none", price |-> "none", old |-> FALSE, why |-> "none", asked |-> 0]
AtRest    == [step |-> "idle", at |-> 0, todo |-> {}, mine |-> {}, got |-> {}, x |-> CHOOSE x \in Ideas : TRUE]
NoWork    == [v |-> 0, step |-> "idle"]
Volatile  == /\ feed' = EmptyFeed
             /\ pc' = [p \in Cycles \cup {Rest} |-> "idle"]
             /\ vec' = [c \in Cycles |-> NoVector]
             /\ hand' = NoWork

-----------------------------------------------------------------------------
\* The feed.  Every merge into the state that names no time of its own makes the state look fresh.
MergeState(f, why) == [f EXCEPT !.age = 0, !.why = why]
Priced(f)          == [f EXCEPT !.age = 0, !.price = "last", !.gaps = FALSE, !.heard = 0, !.why = "price"]
ApplyTicker(f)     == Priced(f)
ApplyDelta(f)      == [MergeState(f, "other") EXCEPT !.price = "none", !.gaps = FALSE]
ApplyDepth(f)      == [MergeState(f, "other") EXCEPT !.gaps = FALSE]
ApplyLiquidation(f) == [MergeState(f, "other") EXCEPT !.gaps = FALSE]
PushClose(f)       == [f EXCEPT !.closes = TRUE]   \* one close is padded to the forty the indicators need
ApplyKline(f)      == PushClose(Priced(f))

HandleSocketMessage(f, kind) ==
    CASE kind = "ticker" -> ApplyTicker(f)
      [] kind = "delta" -> ApplyDelta(f)
      [] kind = "depth" -> ApplyDepth(f)
      [] kind = "kline" -> ApplyKline(f)
      [] kind = "liquidation" -> ApplyLiquidation(f)
      [] kind = "garbage" -> MergeState(f, "error")

EnsureStreaming(f) ==
    IF f.socket # "none" THEN f
    ELSE [MergeState(f, "socket") EXCEPT !.socket = "connecting", !.refresh = TRUE]

\* What the parts of a REST refresh that arrived change.  The last merge keeps the time of the state.
\* Mutant: it does not.
RefreshedNow(f, got) ==
    LET g == IF "ticker" \in got THEN ApplyTicker(f) ELSE IF got # {} THEN MergeState(f, "other") ELSE f IN
    [g EXCEPT !.closes = @ \/ "klines" \in got, !.gaps = got # Parts, !.age = 0]
Refreshed(f, got) ==
    LET g == IF "ticker" \in got THEN ApplyTicker(f) ELSE IF got # {} THEN MergeState(f, "other") ELSE f IN
    [g EXCEPT !.closes = @ \/ "klines" \in got, !.gaps = got # Parts]

\* A snapshot needs a price: the last one, or else the EMA of the closes.
Ready(f) == f.price = "last" \/ f.closes
Snapshot(f) ==
    LET stale == f.age = MaxAge IN
    [stale |-> stale, source |-> IF stale THEN "STALE" ELSE IF f.gaps THEN "MIXED" ELSE "WEBSOCKET",
     price |-> IF f.price = "last" THEN "last" ELSE "ema", old |-> f.heard = MaxAge, why |-> f.why, asked |-> 0]

FeedOnly == UNCHANGED <<proc, vec, stream, hand, ingest, ideas, fate>>
Alive    == proc \in {"boot", "up", "stopping"}
Disturb  == scene.weather /\ scene.faults > 0
Spend    == scene' = [scene EXCEPT !.faults = @ - 1]
Fault    == scene.faults > 0 /\ Spend

SocketOpens ==
    /\ Alive /\ feed.socket = "connecting" /\ reachable
    /\ feed' = [MergeState(feed, "socket") EXCEPT !.socket = "open"]
    /\ FeedOnly /\ UNCHANGED <<scene, reachable, pc>>

\* "error" comes before "close"; the map keeps the socket until "close".
SocketErrors ==
    /\ Alive
    /\ \/ feed.socket = "connecting" /\ ~reachable /\ UNCHANGED scene
       \/ feed.socket = "open" /\ Disturb /\ Spend
    /\ feed' = [MergeState(feed, "error") EXCEPT !.socket = "broken"]
    /\ FeedOnly /\ UNCHANGED <<reachable, pc>>

\* Mutant: the map keeps the closed socket, and nothing opens another one.
KeptSocket(f) == [MergeState(f, "socket") EXCEPT !.timer = TRUE]
ClosedSocket(f) == [MergeState(f, "socket") EXCEPT !.socket = "none", !.timer = TRUE]
SocketCloses ==
    /\ Alive
    /\ \/ feed.socket = "broken" /\ UNCHANGED scene
       \/ feed.socket = "open" /\ Disturb /\ Spend
    /\ feed' = ClosedSocket(feed)
    /\ FeedOnly /\ UNCHANGED <<reachable, pc>>

Reconnects ==
    /\ Alive /\ feed.timer
    /\ feed' = EnsureStreaming([feed EXCEPT !.timer = FALSE])
    /\ FeedOnly /\ UNCHANGED <<scene, reachable, pc>>

Hears(kind) ==
    /\ Alive /\ scene.weather /\ feed.socket = "open" /\ reachable
    /\ feed' = HandleSocketMessage(feed, kind)
    /\ FeedOnly /\ UNCHANGED <<scene, reachable, pc>>

RefreshTicks ==
    /\ Alive /\ scene.weather /\ feed.refresh /\ pc[Rest] = "idle"
    /\ pc' = [pc EXCEPT ![Rest] = "refreshing"]
    /\ FeedOnly /\ UNCHANGED <<scene, reachable, feed>>

\* The parts that may arrive: all or none of them, or any when the feed is disturbed.
Arrivals == IF ~reachable THEN {{}} ELSE IF scene.weather THEN SUBSET Parts ELSE {Parts}

RestSettles(got) ==
    /\ pc[Rest] = "refreshing"
    /\ feed' = Refreshed(feed, got)
    /\ pc' = [pc EXCEPT ![Rest] = "idle"]
    /\ FeedOnly /\ UNCHANGED <<scene, reachable>>

Weather ==
    /\ Disturb /\ Spend
    /\ reachable' = ~reachable
    /\ FeedOnly /\ UNCHANGED <<feed, pc>>

TimePasses ==
    /\ scene.weather /\ (feed.age < MaxAge \/ feed.heard < MaxAge)
    /\ feed' = [feed EXCEPT !.age = IF @ < MaxAge THEN @ + 1 ELSE @, !.heard = IF @ < MaxAge THEN @ + 1 ELSE @]
    /\ FeedOnly /\ UNCHANGED <<scene, reachable, pc>>

\* close(): the timers first, then the sockets; the "close" events come later and find the map empty.
ClosesFeed ==
    /\ proc = "up" /\ Disturb /\ Spend
    /\ proc' = "stopping"
    /\ feed' = [feed EXCEPT !.orphan = @ \/ feed.socket \in {"connecting", "open"}, !.socket = "none",
                            !.timer = FALSE, !.refresh = FALSE]
    /\ UNCHANGED <<reachable, pc, vec, stream, hand, ingest, ideas, fate>>
OrphanCloses ==
    /\ Alive /\ feed.orphan
    /\ feed' = ClosedSocket([feed EXCEPT !.orphan = FALSE])
    /\ FeedOnly /\ UNCHANGED <<scene, reachable, pc>>

-----------------------------------------------------------------------------
\* A cycle of agent 1: a snapshot after a refresh, the question to the model, the event, the message.
CycleOnly == UNCHANGED <<proc, reachable, hand, ingest, ideas, fate>>
Goes(c, step) == pc' = [pc EXCEPT ![c] = step]

StartsCycle(c) ==
    /\ proc = "up" /\ pc[c] = "idle" /\ scene.cycles > 0
    /\ scene' = [scene EXCEPT !.cycles = @ - 1]
    /\ feed' = EnsureStreaming(feed)
    /\ Goes(c, "refreshing")
    /\ CycleOnly /\ UNCHANGED <<vec, stream>>

TakesSnapshot(c, got) ==
    /\ pc[c] = "refreshing"
    /\ feed' = Refreshed(feed, got)
    /\ \/ /\ Ready(feed')
          /\ vec' = [vec EXCEPT ![c] = Snapshot(feed')] /\ Goes(c, "asking")
       \/ ~Ready(feed') /\ Goes(c, "idle") /\ UNCHANGED vec
    /\ CycleOnly /\ UNCHANGED <<scene, stream>>

\* The model's answer; one that does not come or does not parse is replaced by the rules.
RequestFails(c) ==
    /\ pc[c] = "asking" /\ vec[c].asked <= MaxRetries
    /\ vec' = [vec EXCEPT ![c].asked = @ + 1]
    /\ CycleOnly /\ UNCHANGED <<scene, feed, pc, stream>>
BuildsVector(c) ==
    /\ pc[c] = "asking"
    /\ Goes(c, "logging")
    /\ CycleOnly /\ UNCHANGED <<scene, feed, vec, stream>>

Ends(c) == Goes(c, "idle") /\ vec' = [vec EXCEPT ![c] = NoVector]
LogsVector(c) ==
    /\ pc[c] = "logging"
    /\ \/ Goes(c, "publishing") /\ UNCHANGED <<scene, vec>>
       \/ Fault /\ Ends(c)
    /\ CycleOnly /\ UNCHANGED <<feed, stream>>

Published == [state |-> "waiting", tries |-> 0, rows |-> 0, events |-> 0, sent |-> 0, again |-> 0]
PublishesVector(c) ==
    /\ pc[c] = "publishing" /\ Ends(c)
    /\ \/ /\ stream' = IF Len(stream) < scene.vectors THEN Append(stream, Published) ELSE stream
          /\ UNCHANGED scene
       \/ Fault /\ UNCHANGED stream
    /\ CycleOnly /\ UNCHANGED feed

-----------------------------------------------------------------------------
\* Agent 2 answers a vector: search, the signal's row, its event, its message.  The bus delivers until the
\* handler returns or the tries are spent.
StrategyOnly == UNCHANGED <<proc, reachable, feed, pc, vec, ingest, ideas, fate>>
ReviewStatus(x) == Review[x]   \* the text's review, whether the model or the rules made the rule
Accepted     == {k \in DOMAIN ideas.rows : ReviewStatus(ideas.rows[k].rule) = "ACCEPTED"}

TakesVector(v) ==
    /\ Alive /\ hand = NoWork /\ stream[v].state = "waiting"
    /\ hand' = [v |-> v, step |-> "search"]
    /\ stream' = [stream EXCEPT ![v].again = IF stream[v].sent > 0 THEN @ + 1 ELSE @]
    /\ StrategyOnly /\ UNCHANGED scene

\* A match is an accepted rule that scores at least 0.28.
SearchesRules ==
    /\ hand.step = "search"
    /\ \/ Accepted # {} /\ hand' = [hand EXCEPT !.step = "insert"]
       \/ hand' = [hand EXCEPT !.step = "tell"]
    /\ StrategyOnly /\ UNCHANGED <<scene, stream>>
PublishesLog ==
    /\ hand.step = "tell"
    /\ hand' = [hand EXCEPT !.step = "ack"]
    /\ StrategyOnly /\ UNCHANGED <<scene, stream>>
InsertsSignal ==
    /\ hand.step = "insert"
    /\ stream' = [stream EXCEPT ![hand.v].rows = @ + 1]
    /\ hand' = [hand EXCEPT !.step = "log"]
    /\ StrategyOnly /\ UNCHANGED scene
LogsSignal ==
    /\ hand.step = "log"
    /\ stream' = [stream EXCEPT ![hand.v].events = @ + 1]
    /\ hand' = [hand EXCEPT !.step = "publish"]
    /\ StrategyOnly /\ UNCHANGED scene
PublishesSignal ==
    /\ hand.step = "publish"
    /\ stream' = [stream EXCEPT ![hand.v].sent = @ + 1]
    /\ hand' = [hand EXCEPT !.step = "ack"]
    /\ StrategyOnly /\ UNCHANGED scene
Acknowledges ==
    /\ hand.step = "ack"
    /\ stream' = [stream EXCEPT ![hand.v].state = "done"]
    /\ hand' = NoWork
    /\ StrategyOnly /\ UNCHANGED scene
\* Any step may throw; after the signal is in its stream the pub/sub publish and the acknowledgement still may.
HandlerFails ==
    /\ hand # NoWork /\ Fault
    /\ stream' = [stream EXCEPT ![hand.v].tries = @ + 1,
                                ![hand.v].state = IF stream[hand.v].tries + 1 < MaxTries THEN "waiting" ELSE "dead"]
    /\ hand' = NoWork
    /\ StrategyOnly

-----------------------------------------------------------------------------
\* The ingestion: each source's ideas are registered as seen one by one, then all of them are normalised,
\* stored and announced.
IngestOnly == UNCHANGED <<reachable, feed, pc, vec, stream, hand>>
ToAnnounce(i) == IF ingest[i].step = "announce" THEN {ingest[i].x} ELSE {}
InHands(i)   == ingest[i].mine \cup ingest[i].got
Loses(some)  == fate' = [fate EXCEPT !.lost = @ \cup some]
Aborts(i) ==   \* at boot the error ends the process
    /\ ingest' = [ingest EXCEPT ![i] = AtRest]
    /\ proc' = IF proc = "boot" THEN "down" ELSE proc
    /\ Loses(InHands(i) \cup ToAnnounce(i))

StartsIngest(i) ==
    /\ proc = "up" /\ i # First /\ ingest[i].step = "idle" /\ scene.rounds > 0
    /\ scene' = [scene EXCEPT !.rounds = @ - 1]
    /\ ingest' = [ingest EXCEPT ![i] = [AtRest EXCEPT !.step = "register", !.at = 1, !.todo = scene.sources[1]]]
    /\ IngestOnly /\ UNCHANGED <<proc, ideas, fate>>

RegistersSeen(i, x) ==
    /\ ingest[i].step = "register" /\ x \in ingest[i].todo
    /\ ingest' = [ingest EXCEPT ![i].todo = @ \ {x}, ![i].mine = IF x \in ideas.seen THEN @ ELSE @ \cup {x}]
    /\ ideas' = [ideas EXCEPT !.seen = @ \cup {x}]
    /\ IngestOnly /\ UNCHANGED <<scene, proc, fate>>

\* The next source is fetched, or it is not available and a log says so.
\* Mutant: what the earlier sources gave is forgotten.
CollectsLast(i) == ingest[i].mine
Collects(i) == ingest[i].got \cup ingest[i].mine
NextSource(i, items) ==
    LET n == ingest[i].at + 1 IN
    ingest' = [ingest EXCEPT ![i].got = Collects(i), ![i].mine = {}, ![i].at = n, ![i].todo = items,
                             ![i].step = IF n > Len(scene.sources) THEN "store" ELSE "register"]
Fetched(i) == IF ingest[i].at < Len(scene.sources) THEN {scene.sources[ingest[i].at + 1], {}} ELSE {{}}

SourceEnds(i, items) ==
    /\ ingest[i].step = "register" /\ ingest[i].todo = {}
    /\ NextSource(i, items)
    /\ IngestOnly /\ UNCHANGED <<scene, proc, ideas, fate>>

\* An error while a source's ideas are registered, the lost answer to the last one included: those already
\* registered are dropped with it.  The seeds' registration is outside the try.
RegisterFails(i, items) ==
    /\ ingest[i].step = "register" /\ ingest[i].todo \cup ingest[i].mine # {} /\ Fault
    /\ IF ingest[i].at = 1 THEN Aborts(i)
       ELSE /\ Loses(ingest[i].mine) /\ UNCHANGED proc
            /\ LET n == ingest[i].at + 1 IN
               ingest' = [ingest EXCEPT ![i].mine = {}, ![i].at = n, ![i].todo = items,
                                        ![i].step = IF n > Len(scene.sources) THEN "store" ELSE "register"]
    /\ IngestOnly /\ UNCHANGED ideas

\* Normalised by the model or by the rules, then stored; a row that was there keeps its id, takes everything else from
\* the new rule, its review too, and is not announced.
Written(k, x) ==
    LET row == [first |-> IF k \in DOMAIN ideas.rows THEN ideas.rows[k].first ELSE x, rule |-> x] IN
    [j \in DOMAIN ideas.rows \cup {k} |-> IF j = k THEN row ELSE ideas.rows[j]]
Upserts(i, x) ==
    /\ ingest[i].step = "store" /\ x \in ingest[i].got
    /\ \E k \in Keys[x] :
          /\ ideas' = [ideas EXCEPT !.rows = Written(k, x)]
          /\ ingest' = [ingest EXCEPT ![i].got = @ \ {x}, ![i].x = x,
                                      ![i].step = IF k \in DOMAIN ideas.rows THEN "store" ELSE "announce"]
    /\ fate' = [fate EXCEPT !.stored = @ \cup {x}]
    /\ IngestOnly /\ UNCHANGED <<scene, proc>>
Announces(i) ==
    /\ ingest[i].step = "announce"
    /\ ingest' = [ingest EXCEPT ![i].step = "store"]
    /\ ideas' = [ideas EXCEPT !.told = IF ReviewStatus(ingest[i].x) = "ACCEPTED" THEN @ \cup {ingest[i].x} ELSE @]
    /\ IngestOnly /\ UNCHANGED <<scene, proc, fate>>
IngestFails(i) ==   \* a statement, or the log about a source
    /\ ingest[i].step \in {"store", "announce"} /\ Fault
    /\ Aborts(i)
    /\ IngestOnly /\ UNCHANGED ideas
IngestEnds(i) ==
    /\ ingest[i].step = "store" /\ ingest[i].got = {}
    /\ ingest' = [ingest EXCEPT ![i] = AtRest]
    /\ proc' = IF proc = "boot" THEN "up" ELSE proc
    /\ IngestOnly /\ UNCHANGED <<scene, ideas, fate>>

-----------------------------------------------------------------------------
\* The process starts with an ingestion and may stop anywhere; the tables and the streams stay.
Boots ==
    /\ proc = "down" /\ proc' = "boot"
    /\ ingest' = [i \in Ingestors |-> IF i = First THEN [AtRest EXCEPT !.step = "register", !.at = 1, !.todo = scene.sources[1]]
                                      ELSE AtRest]
    /\ Volatile
    /\ UNCHANGED <<scene, reachable, stream, ideas, fate>>
Stops ==
    /\ Alive /\ Fault /\ proc' = "down"
    /\ Loses(UNION {InHands(i) \cup ToAnnounce(i) : i \in Ingestors})
    /\ Volatile /\ ingest' = [i \in Ingestors |-> AtRest]
    /\ UNCHANGED <<reachable, stream, ideas>>

MarketInit ==
    /\ scene \in Scenes /\ proc = "down" /\ reachable = TRUE
    /\ feed = EmptyFeed /\ pc = [p \in Cycles \cup {Rest} |-> "idle"] /\ vec = [c \in Cycles |-> NoVector]
    /\ stream = <<>> /\ hand = NoWork
    /\ ingest = [i \in Ingestors |-> AtRest]
    /\ ideas = [seen |-> {}, rows |-> << >>, told |-> {}] /\ fate = [stored |-> {}, lost |-> {}]

MarketNext ==
    \/ SocketOpens \/ SocketErrors \/ SocketCloses \/ Reconnects \/ OrphanCloses \/ RefreshTicks
    \/ \E kind \in Kinds : Hears(kind)
    \/ \E got \in Arrivals : RestSettles(got)
    \/ \E c \in Cycles : \/ StartsCycle(c) \/ RequestFails(c) \/ BuildsVector(c) \/ LogsVector(c) \/ PublishesVector(c)
                         \/ \E got \in Arrivals : TakesSnapshot(c, got)
    \/ \E v \in DOMAIN stream : TakesVector(v)
    \/ SearchesRules \/ PublishesLog \/ InsertsSignal \/ LogsSignal \/ PublishesSignal \/ Acknowledges \/ HandlerFails
    \/ \E i \in Ingestors : \/ StartsIngest(i) \/ Announces(i) \/ IngestFails(i) \/ IngestEnds(i)
                            \/ \E x \in Ideas : RegistersSeen(i, x) \/ Upserts(i, x)
                            \/ \E items \in Fetched(i) : SourceEnds(i, items) \/ RegisterFails(i, items)
    \/ Weather \/ TimePasses \/ ClosesFeed \/ Boots \/ Stops

\* The socket library answers a connection attempt and closes what failed, and the timers fire.
Fairness == /\ WF_marketVars(SocketOpens) /\ WF_marketVars(Reconnects)
            /\ WF_marketVars(feed.socket = "connecting" /\ SocketErrors)
            /\ WF_marketVars(feed.socket = "broken" /\ SocketCloses)
MarketSpec == MarketInit /\ [][MarketNext]_marketVars /\ Fairness

-----------------------------------------------------------------------------
\* A vector that does not call itself stale although no price was heard for the stale time owes its time to
\* something else: other data, an error, or a socket that opened, closed or was replaced.  A refresh that
\* brought nothing is no such thing.
FreshIsExplained == \A c \in Cycles : (~vec[c].stale /\ vec[c].old /\ vec[c].source # "none") => vec[c].why # "price"

\* An idea that is registered as seen, and so never taken again, is stored or in the hands of an ingestion, but
\* for those an ingestion held when a step of it failed or the process stopped; so is the announcement of a new row
\* whose idea was accepted.  An idea that only updates a row is never announced, accepted or not (strategyAgent 26-45,
\* strategyRepository 28).  Every signal in the stream has its row and its event, and a vector has a second one only if
\* it was handled again after the first.
WorkIsAccountedFor ==
    /\ ideas.seen \subseteq fate.stored \cup fate.lost \cup UNION {InHands(i) : i \in Ingestors}
    /\ \A k \in DOMAIN ideas.rows :
          LET x == ideas.rows[k].first IN
          ReviewStatus(x) = "ACCEPTED" => x \in ideas.told \cup fate.lost \cup UNION {ToAnnounce(i) : i \in Ingestors}
    /\ ideas.told \subseteq {ideas.rows[k].first : k \in DOMAIN ideas.rows}
    /\ \A v \in DOMAIN stream : /\ stream[v].sent <= stream[v].events /\ stream[v].events <= stream[v].rows
                                /\ stream[v].sent <= 1 + stream[v].again

\* Once the exchange stays reachable and the process stays up, the socket of a pair somebody asked for is open
\* again and stays open, however often it broke.
FeedRecovers == <>[](reachable /\ proc = "up" /\ feed.refresh) => <>[](feed.socket = "open")
=============================================================================
