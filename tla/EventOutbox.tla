----------------------------- MODULE EventOutbox -----------------------------
(***************************************************************************)
(* How an event leaves the process that made it: the event log, the        *)
(* transactional outbox and its dispatchers, the publication on the bus    *)
(* (durable stream, then Pub/Sub), the live stream of the web console and  *)
(* the page that shows it, through sign-ins and sign-outs in its own tab   *)
(* and in others of the browser, which share its cookies.                  *)
(* Every process runs one dispatcher and one hub; a row that is claimed    *)
(* stays PENDING, so two dispatchers may publish it at the same time.      *)
(* What consumers do with the stream is in DurableBus.                     *)
(***************************************************************************)
EXTENDS Integers, FiniteSets

CONSTANTS
    Events,        \* envelopes, each with its own idempotency key
    Outboxed,      \* those of the executor, sent through the outbox; the others go to the bus directly
    Durable,       \* those of a durable channel
    Users,
    Owner,         \* the user_id of each event, or Everyone
    Everyone,
    Publishers,    \* agents that make events
    Dispatchers,   \* one per process
    Clients,       \* browsers, each with one page of the console
    HomeOf,        \* the process each is connected to
    MaxAttempts,   \* 8
    Faults,        \* kinds of fault that may happen
    Bounds         \* bound: [faults, visits, events], how many of each a behaviour may contain; a visit is a
                   \* sign-in or a sign-out in another tab

\* redis: a command fails; reply: it is done but its reply is lost; query: a statement fails;
\* crash: a process stops; drop: the connection of a page; lapse: the day of a key ends.
FaultKinds == {"redis", "reply", "query", "crash", "drop", "lapse"}
ASSUME EventsAssumption == Outboxed \subseteq Events /\ Durable \subseteq Events
ASSUME OwnersAssumption == Owner \in [Events -> Users \union {Everyone}] /\ Everyone \notin Users
ASSUME ClientsAssumption == HomeOf \in [Clients -> Dispatchers]
ASSUME WorkersAssumption ==
    Publishers \intersect Dispatchers = {} /\ IsFiniteSet(Publishers) /\ IsFiniteSet(Dispatchers)
ASSUME OutboxBoundsAssumption ==
    MaxAttempts \in Nat \ {0} /\ Faults \subseteq FaultKinds /\ Bounds \subseteq [faults : Nat, visits : Nat, events : Nat]

VARIABLES
    made,       \* events an agent has begun to publish
    log,        \* agent_events
    outbox,     \* event_outbox: a row per event, or none
    buried,     \* event_outbox_dead_letters: how many of each row
    reserved,   \* idempotency keys set in Redis
    lapsed,     \* history: how often the key of an event expired
    stream,     \* how often each event was added to its stream
    stranded,   \* history: reserved by a publication that failed before its XADD was done
    worker,     \* what each publisher and dispatcher is doing
    cookie,     \* the user each browser's cookies are of
    page,       \* what each page holds
    asked,      \* the requests for recent events under way, those of earlier sign-ins among them
    budget      \* faults, sign-ins and events still allowed

vars == <<made, log, outbox, buried, reserved, lapsed, stream, stranded, worker, cookie, page, asked, budget>>

Workers  == Publishers \union Dispatchers
None     == [none |-> TRUE]
Statuses == {"PENDING", "PUBLISHED", "FAILED", "DEAD_LETTER"}
Settled  == {"PUBLISHED", "DEAD_LETTER"}
MostAttempts == MaxAttempts + Cardinality(Dispatchers) - 1
Row      == [status : Statuses, attempts : 0..MostAttempts, due : BOOLEAN]
Places   == {"Logged", "Reserve", "XAdd", "Broadcast", "MarkPublished", "MarkFailed", "Bury"}
Idle     == [at |-> "Idle", batch |-> {}]
Worker   == [at : {"Idle", "Next"}, batch : SUBSET Events]
            \union [at : Places, batch : SUBSET Events, event : Events]
Visitor  == Users \union {Everyone}                     \* Everyone: nobody is signed in
\* The user of the page and the one its live stream was opened as; history: others it was served as.
Page     == [user : Visitor, as : Visitor, guests : SUBSET Users, shown : SUBSET Events]
SignedOut == [user |-> Everyone, as |-> Everyone, guests |-> {}, shown |-> {}]
Request  == [user : Users, alive : BOOLEAN, read : BOOLEAN, rows : SUBSET Events]

\* An entry of an event for every life of its key, at most.
AddedOnce == \A e \in Durable : stream[e] <= lapsed[e] + 1
\* A row at its last attempt may be in the hands of every dispatcher: each writes a dead letter, once.
BuriedOnceEach == \A e \in Outboxed : buried[e] <= Cardinality(Dispatchers)

\* With it: the two bounds, and no row is tried more often than the dispatchers that may hold it at
\* once allow.
TypeOK ==
    /\ made \in SUBSET Events /\ log \in SUBSET made
    /\ outbox \in [Outboxed -> Row \union {None}] /\ buried \in [Outboxed -> Nat] /\ BuriedOnceEach
    /\ reserved \in SUBSET Durable /\ stranded \in SUBSET Durable
    /\ stream \in [Durable -> Nat] /\ lapsed \in [Durable -> Nat] /\ AddedOnce
    /\ worker \in [Workers -> Worker]
    /\ cookie \in [Clients -> Visitor] /\ page \in [Clients -> Page] /\ asked \in [Clients -> SUBSET Request]
    /\ budget \in [faults : Nat, visits : Nat, events : Nat]

Init ==
    /\ made = {} /\ log = {}
    /\ outbox = [e \in Outboxed |-> None] /\ buried = [e \in Outboxed |-> 0]
    /\ reserved = {} /\ stranded = {}
    /\ stream = [e \in Durable |-> 0] /\ lapsed = [e \in Durable |-> 0]
    /\ worker = [w \in Workers |-> Idle]
    /\ cookie = [c \in Clients |-> Everyone] /\ page = [c \in Clients |-> SignedOut] /\ asked = [c \in Clients |-> {}]
    /\ budget \in Bounds

redis    == <<reserved, lapsed, stream, stranded>>
database == <<log, outbox, buried>>
console  == <<cookie, page, asked>>

Goto(w, place, e) == worker' = [worker EXCEPT ![w] = [at |-> place, batch |-> @.batch, event |-> e]]
\* The next record of the batch; a publisher is done.
Proceeds(w) ==
    worker' = [worker EXCEPT ![w] = IF w \in Publishers THEN Idle ELSE [at |-> "Next", batch |-> @.batch]]
At(w, place) == worker[w].at = place
Spend(kind) == kind \in Faults /\ budget.faults > 0 /\ budget' = [budget EXCEPT !.faults = @ - 1]

(***************************************************************************)
(* Agents: the log first, then the outbox or the bus.                      *)
(***************************************************************************)
\* Mutant: the insertion is not waited for.
InsertLater(p, e) == made' = made \union {e} /\ Goto(p, "Logged", e) /\ UNCHANGED log
InsertEvent(p, e) == made' = made \union {e} /\ log' = log \union {e} /\ Goto(p, "Logged", e)

PublishEvent(p) ==
    /\ At(p, "Idle") /\ budget.events > 0
    /\ budget' = [budget EXCEPT !.events = @ - 1]
    /\ \E e \in Events \ made : InsertEvent(p, e)
    /\ UNCHANGED <<outbox, buried, redis, console>>

FirstStep(e) == IF e \in Durable THEN "Reserve" ELSE "Broadcast"

Enqueue(p) ==
    /\ At(p, "Logged") /\ worker[p].event \in Outboxed
    /\ LET e == worker[p].event IN
       outbox' = [outbox EXCEPT ![e] = IF @ = None THEN [status |-> "PENDING", attempts |-> 0, due |-> TRUE] ELSE @]
    /\ Proceeds(p)
    /\ UNCHANGED <<made, log, buried, redis, console, budget>>

PublishDirectly(p) ==
    /\ At(p, "Logged") /\ worker[p].event \notin Outboxed
    /\ Goto(p, FirstStep(worker[p].event), worker[p].event)
    /\ UNCHANGED <<made, database, redis, console, budget>>

(***************************************************************************)
(* The dispatcher: one tick at a time in a process.                        *)
(***************************************************************************)
\* Mutant: only rows nobody has worked at yet are claimed.
ClaimableNew == {e \in Outboxed : outbox[e] # None /\ outbox[e].status = "PENDING" /\ outbox[e].attempts = 0}
Claimable ==
    {e \in Outboxed : /\ outbox[e] # None /\ outbox[e].status \in {"PENDING", "FAILED"}
                      /\ outbox[e].due /\ outbox[e].attempts < MaxAttempts}

\* A row locked by a claim that runs at the same moment is skipped.
ClaimBatch(d, batch) ==
    /\ At(d, "Idle") /\ d \in Dispatchers
    /\ batch # {} /\ batch \subseteq Claimable
    /\ outbox' = [e \in Outboxed |-> IF e \in batch THEN [outbox[e] EXCEPT !.status = "PENDING"] ELSE outbox[e]]
    /\ worker' = [worker EXCEPT ![d] = [at |-> "Next", batch |-> batch]]
    /\ UNCHANGED <<made, log, buried, redis, console, budget>>

TakeRecord(d) ==
    /\ At(d, "Next")
    /\ \/ \E e \in worker[d].batch :
             worker' = [worker EXCEPT ![d] = [at |-> FirstStep(e), batch |-> @.batch \ {e}, event |-> e]]
       \/ worker[d].batch = {} /\ worker' = [worker EXCEPT ![d] = Idle]
    /\ UNCHANGED <<made, database, redis, console, budget>>

MarkPublished(d) ==
    /\ At(d, "MarkPublished")
    /\ outbox' = [outbox EXCEPT ![worker[d].event].status = "PUBLISHED"]
    /\ Proceeds(d)
    /\ UNCHANGED <<made, log, buried, redis, console, budget>>

Failed(row) ==
    [row EXCEPT !.status = IF row.attempts + 1 >= MaxAttempts THEN "DEAD_LETTER" ELSE "FAILED",
                !.attempts = @ + 1, !.due = FALSE]

MarkFailed(d) ==
    /\ At(d, "MarkFailed")
    /\ LET e == worker[d].event IN
       /\ outbox' = [outbox EXCEPT ![e] = Failed(@)]
       /\ Goto(d, "Bury", e)
    /\ UNCHANGED <<made, log, buried, redis, console, budget>>

\* The table of dead letters has no unique column but its own id: nothing conflicts.
Bury(d) ==
    /\ At(d, "Bury")
    /\ LET e == worker[d].event IN
       buried' = IF outbox[e].status = "DEAD_LETTER" THEN [buried EXCEPT ![e] = @ + 1] ELSE buried
    /\ Proceeds(d)
    /\ UNCHANGED <<made, log, outbox, redis, console, budget>>

\* next_attempt_at passes.
BecomesDue(e) ==
    /\ outbox[e] # None /\ ~outbox[e].due
    /\ outbox' = [outbox EXCEPT ![e].due = TRUE]
    /\ UNCHANGED <<made, log, buried, redis, worker, console, budget>>

(***************************************************************************)
(* RedisMessageBus.publish.  A key that is taken skips the stream and not  *)
(* the broadcast; it is taken for 24 hours.                                *)
(***************************************************************************)
\* Mutant: the answer of SET NX is not looked at.
ReserveUnchecked(w) ==
    /\ At(w, "Reserve")
    /\ reserved' = reserved \union {worker[w].event}
    /\ Goto(w, "XAdd", worker[w].event)
    /\ UNCHANGED <<made, database, lapsed, stream, stranded, console, budget>>
Reserve(w) ==
    /\ At(w, "Reserve")
    /\ LET e == worker[w].event IN
       IF e \in reserved THEN Goto(w, "Broadcast", e) /\ UNCHANGED reserved
       ELSE reserved' = reserved \union {e} /\ Goto(w, "XAdd", e)
    /\ UNCHANGED <<made, database, lapsed, stream, stranded, console, budget>>

AddEntry(e) == stream' = [stream EXCEPT ![e] = @ + 1]
XAdd(w) ==
    /\ At(w, "XAdd")
    /\ AddEntry(worker[w].event) /\ Goto(w, "Broadcast", worker[w].event)
    /\ UNCHANGED <<made, database, reserved, lapsed, stranded, console, budget>>

\* EX 86400: a row that is published late, or again, finds no key.
KeyExpires(e) ==
    /\ e \in reserved /\ Spend("lapse")
    /\ reserved' = reserved \ {e} /\ lapsed' = [lapsed EXCEPT ![e] = @ + 1]
    /\ UNCHANGED <<made, database, stream, stranded, worker, console>>

\* The filter of the live route, and listRecent: of the log, what is global or the user's own.
VisibleTo(e, u) == Owner[e] \in {u, Everyone}
Listed(u) == {e \in log : Owner[e] \in {u, Everyone}}

\* appendEvent puts an event on the page unless it is there.
Appends(pg, e) == [pg EXCEPT !.shown = @ \union {e}]
\* Pub/Sub reaches every process that is up; its hub writes to the connections the event is for.
Hear(e) ==
    /\ page' = [c \in Clients |-> IF page[c].as # Everyone /\ VisibleTo(e, page[c].as) THEN Appends(page[c], e) ELSE page[c]]
    /\ UNCHANGED <<cookie, asked>>
Broadcast(w) ==
    /\ At(w, "Broadcast")
    /\ Hear(worker[w].event)
    /\ IF w \in Dispatchers THEN Goto(w, "MarkPublished", worker[w].event) ELSE Proceeds(w)
    /\ UNCHANGED <<made, database, redis, budget>>

(***************************************************************************)
(* The page.  A sign-in asks for the recent events and opens the live      *)
(* stream, which reconnects by itself and asks for nothing then.  It is    *)
(* opened with the cookies the browser has at that moment, which another   *)
(* tab may have changed; the page keeps its user.                          *)
(***************************************************************************)
system == <<made, database, redis, worker>>

SignsIn(c, u) ==
    /\ page[c] = SignedOut /\ budget.visits > 0
    /\ budget' = [budget EXCEPT !.visits = @ - 1]
    /\ cookie' = [cookie EXCEPT ![c] = u]
    /\ page' = [page EXCEPT ![c].user = u]
    /\ asked' = [asked EXCEPT ![c] = @ \union {[user |-> u, alive |-> TRUE, read |-> FALSE, rows |-> {}]}]
    /\ UNCHANGED system

\* A sign-in or a sign-out in another tab.
OtherTab(c, u) ==
    /\ u # cookie[c] /\ budget.visits > 0
    /\ budget' = [budget EXCEPT !.visits = @ - 1]
    /\ cookie' = [cookie EXCEPT ![c] = u]
    /\ UNCHANGED <<system, page, asked>>

\* The effect is cleaned up: the page is emptied, the requests it waits for belong to nobody.  The
\* answer of the logout is not looked at: when it failed, the cookies stay.
SignsOut(c) ==
    /\ page[c].user # Everyone
    /\ \E u \in {Everyone, cookie[c]} : cookie' = [cookie EXCEPT ![c] = u]
    /\ page' = [page EXCEPT ![c] = SignedOut]
    /\ asked' = [asked EXCEPT ![c] = {[q EXCEPT !.alive = FALSE] : q \in @}]
    /\ UNCHANGED <<system, budget>>

Welcomes(pg, u)  == [pg EXCEPT !.guests = @ \union ({u} \ {pg.user})]
StreamsAs(pg, u) == [Welcomes(pg, u) EXCEPT !.as = u]
Connect(c) ==
    /\ page[c].user # Everyone /\ page[c].as = Everyone /\ cookie[c] # Everyone
    /\ page' = [page EXCEPT ![c] = StreamsAs(@, cookie[c])]
    /\ UNCHANGED <<system, cookie, asked, budget>>
Disconnect(c) ==
    /\ page[c].as # Everyone /\ Spend("drop")
    /\ page' = [page EXCEPT ![c].as = Everyone]
    /\ UNCHANGED <<system, cookie, asked>>

\* A request that is sent again after an error of the server carries the cookies of that moment.
ReadsRecent(c, q) ==
    /\ ~q.read
    /\ \E u \in {q.user, cookie[c]} \intersect Users :
          /\ asked' = [asked EXCEPT ![c] = (@ \ {q}) \union {[user |-> u, alive |-> q.alive, read |-> TRUE, rows |-> Listed(u)]}]
          /\ page' = IF q.alive THEN [page EXCEPT ![c] = Welcomes(@, u)] ELSE page
    /\ UNCHANGED <<system, cookie, budget>>

\* Mutant: whether the page is still the one that asked is not looked at.
ReplacesAlways(pg, q) == [pg EXCEPT !.shown = q.rows]
\* The rows take the place of what the live stream has brought meanwhile.
Replaces(pg, q) == IF q.alive THEN [pg EXCEPT !.shown = q.rows] ELSE pg
RecentArrives(c, q) ==
    /\ \/ q.read /\ page' = [page EXCEPT ![c] = Replaces(@, q)]
       \/ UNCHANGED page   \* the request fails
    /\ asked' = [asked EXCEPT ![c] = @ \ {q}]
    /\ UNCHANGED <<system, cookie, budget>>

(***************************************************************************)
(* Faults.  An error of publish or markPublished leads to markFailed, an   *)
(* error of markFailed ends the batch, an error of an agent its event.     *)
(***************************************************************************)
\* Mutant: an error of publish is logged and the record marked all the same.
FailsSilently(w) == IF w \in Dispatchers THEN Goto(w, "MarkPublished", worker[w].event) ELSE Proceeds(w)
Fails(w) == IF w \in Dispatchers THEN Goto(w, "MarkFailed", worker[w].event) ELSE Proceeds(w)

RedisFails(w) ==
    /\ worker[w].at \in {"Reserve", "XAdd", "Broadcast"} /\ Spend("redis")
    /\ stranded' = IF At(w, "XAdd") THEN stranded \union {worker[w].event} ELSE stranded
    /\ Fails(w)
    /\ UNCHANGED <<made, database, reserved, lapsed, stream, console>>

ReplyLost(w) ==
    /\ worker[w].at \in {"Reserve", "XAdd", "Broadcast"} /\ Spend("reply")
    /\ LET e == worker[w].event IN
       \/ At(w, "Reserve") /\ reserved' = reserved \union {e} /\ UNCHANGED <<lapsed, stream, console>>
          /\ stranded' = IF e \in reserved THEN stranded ELSE stranded \union {e}
       \/ At(w, "XAdd") /\ AddEntry(e) /\ UNCHANGED <<reserved, lapsed, stranded, console>>
       \/ At(w, "Broadcast") /\ Hear(e) /\ UNCHANGED redis
    /\ Fails(w)
    /\ UNCHANGED <<made, database>>

QueryFails(w) ==
    /\ worker[w].at \in {"Logged", "MarkPublished", "MarkFailed", "Bury"} /\ Spend("query")
    /\ IF At(w, "MarkPublished") THEN Fails(w) ELSE worker' = [worker EXCEPT ![w] = Idle]
    /\ UNCHANGED <<made, database, redis, console>>

Crash(w) ==
    /\ worker[w] # Idle /\ Spend("crash")
    /\ worker' = [worker EXCEPT ![w] = Idle]
    /\ stranded' = IF At(w, "XAdd") THEN stranded \union {worker[w].event} ELSE stranded
    /\ page' = [c \in Clients |-> IF HomeOf[c] = w THEN [page[c] EXCEPT !.as = Everyone] ELSE page[c]]
    /\ UNCHANGED <<made, database, reserved, lapsed, stream, cookie, asked>>

Proceed(w) ==
    \/ Enqueue(w) \/ PublishDirectly(w)
    \/ TakeRecord(w) \/ MarkPublished(w) \/ MarkFailed(w) \/ Bury(w)
    \/ Reserve(w) \/ XAdd(w) \/ Broadcast(w)
Fault(w) == RedisFails(w) \/ ReplyLost(w) \/ QueryFails(w) \/ Crash(w)

Next ==
    \/ \E p \in Publishers : PublishEvent(p)
    \/ \E w \in Workers : Proceed(w) \/ Fault(w)
    \/ \E d \in Dispatchers : \E batch \in SUBSET Outboxed : ClaimBatch(d, batch)
    \/ \E e \in Outboxed : BecomesDue(e)
    \/ \E e \in Durable : KeyExpires(e)
    \/ \E c \in Clients : \/ \E u \in Users : SignsIn(c, u)
                          \/ \E u \in Visitor : OtherTab(c, u)
                          \/ SignsOut(c) \/ Connect(c) \/ Disconnect(c)
                          \/ \E q \in asked[c] : ReadsRecent(c, q) \/ RecentArrives(c, q)

Spec == Init /\ [][Next]_vars
Claims(e) == \E d \in Dispatchers : \E batch \in SUBSET Outboxed : e \in batch /\ ClaimBatch(d, batch)
\* The event loop runs on, time passes, and the tick claims a row again and again: a claim that
\* skips it does so because another claim has it.
FairSpec ==
    /\ Spec
    /\ \A w \in Workers : WF_vars(Proceed(w))
    /\ \A e \in Outboxed : WF_vars(BecomesDue(e)) /\ SF_vars(Claims(e))

(***************************************************************************)
(* Properties.                                                             *)
(***************************************************************************)
\* A row says PUBLISHED only when its event is in the stream or about to be added, whichever of
\* several dispatchers wrote it and whatever failed in between, with one exception: a publication
\* that fails between setting the key and adding the entry makes every later one return early,
\* without an entry, and its row is marked all the same.
PublishedIsInStream ==
    \A e \in Outboxed \intersect Durable :
        (outbox[e] # None /\ outbox[e].status = "PUBLISHED") =>
            \/ stream[e] > 0 \/ e \in stranded
            \/ \E w \in Workers : At(w, "XAdd") /\ worker[w].event = e

\* A page shows its user no event that the event log would not list for the same user, and nobody's page
\* shows anything: the filter of the live route and that of the log agree, the log is written first, and
\* what was asked for an earlier user, or comes after the sign-out, is dropped.  One exception: a stream that
\* was opened, or a request sent again, while the cookies were another tab's brings that user's events.
ShownIsListed == \A c \in Clients :
    IF page[c].user = Everyone THEN page[c].shown = {}
    ELSE page[c].shown \subseteq UNION {Listed(u) : u \in {page[c].user} \union page[c].guests}

\* Two dispatchers that hold the same row, errors at any command and stopped processes included,
\* every row of the outbox ends as PUBLISHED or DEAD_LETTER and stays so.
Settles == \A e \in Outboxed : <>[](outbox[e] = None \/ outbox[e].status \in Settled)
=============================================================================
