--------------------------- MODULE EventOutbox_proofs --------------------------
(***************************************************************************)
(* Theorems about EventOutbox, for any events, processes and browsers: an  *)
(* event is added to its stream once for every life of its key, a row that *)
(* says PUBLISHED tells the truth or is stranded, a row has no more dead   *)
(* letters than there are dispatchers, and a page shows its user nothing   *)
(* that the log would not list for those its stream was opened as.         *)
(***************************************************************************)
EXTENDS EventOutbox, FiniteSetTheorems, TLAPS

\* A row before the number of its attempts is bounded, which takes the count below.
Tried == [status : Statuses, attempts : Nat, due : BOOLEAN]
Rows  == {e \in Outboxed : outbox[e] # None}

Typed ==
    /\ outbox \in [Outboxed -> Tried \union {None}]
    /\ worker \in [Workers -> Worker]
    /\ cookie \in [Clients -> Visitor] /\ page \in [Clients -> Page] /\ asked \in [Clients -> SUBSET Request]
    /\ log \in SUBSET Events /\ reserved \in SUBSET Durable /\ stranded \in SUBSET Durable
    /\ stream \in [Durable -> Nat] /\ lapsed \in [Durable -> Nat] /\ buried \in [Outboxed -> Nat]

\* The key of the event is set, or was until it expired.
Taken(e) == e \in reserved \/ lapsed[e] > 0

\* What a worker may have in its hands.
Fits(w, x) ==
    /\ w \in Publishers => x.at \in {"Idle", "Logged", "Reserve", "XAdd", "Broadcast"}
    /\ w \in Dispatchers => x.at # "Logged" /\ x.batch \subseteq Rows /\ (x.at \in Places => x.event \in Rows)
    /\ x.at \in Places => x.event \in log
    /\ x.at \in {"Reserve", "XAdd"} => x.event \in Durable
    /\ x.at \in {"XAdd", "Broadcast", "MarkPublished"} /\ x.event \in Durable => Taken(x.event)

Held == Rows \subseteq log /\ \A w \in Workers : Fits(w, worker[w])

LEMMA TriedFacts ==
    /\ \A r \in Tried : r # None
    /\ \A r \in Tried : \A s \in Statuses, b \in BOOLEAN :
          /\ [r EXCEPT !.status = s] \in Tried /\ [r EXCEPT !.due = b] \in Tried
    /\ \A r \in Tried : [r EXCEPT !.due = TRUE] \in Tried /\ Failed(r) \in Tried
<1>1. \A r \in Tried : r # None
  BY DEF Tried, None
<1>2. \A r \in Tried : \A s \in Statuses, b \in BOOLEAN : [r EXCEPT !.status = s] \in Tried /\ [r EXCEPT !.due = b] \in Tried
  BY DEF Tried
<1>3. \A r \in Tried : [r EXCEPT !.due = TRUE] \in Tried
  BY DEF Tried
<1>4. \A r \in Tried : Failed(r) \in Tried
  <2> SUFFICES ASSUME NEW r \in Tried PROVE Failed(r) \in Tried
    OBVIOUS
  <2>1. PICK s \in Statuses : Failed(r) = [r EXCEPT !.status = s, !.attempts = @ + 1, !.due = FALSE]
    BY DEF Failed, Statuses
  <2>2. Failed(r) = [status |-> s, attempts |-> r.attempts + 1, due |-> FALSE]
    BY <2>1 DEF Tried
  <2> QED
    BY <2>2 DEF Tried
<1> QED
  BY <1>1, <1>2, <1>3, <1>4

LEMMA InitTyped == Init => Typed /\ Held
<1>1. Idle \in Worker /\ SignedOut \in Page
  BY DEF Idle, Worker, SignedOut, Page, Visitor
<1>2. Init => Typed
  BY <1>1 DEF Init, Typed, Visitor
<1>3. Init => Held
  <2>1. Idle.at = "Idle" /\ Idle.batch = {}
    BY DEF Idle
  <2> QED
    BY <2>1 DEF Init, Held, Fits, Rows, Places
<1> QED
  BY <1>2, <1>3

\* The places of a worker, by record set.
LEMMA WorkerFacts ==
    ASSUME Typed, NEW w \in Workers
    PROVE  /\ worker[w] \in Worker /\ worker[w].batch \in SUBSET Events
           /\ worker[w].at \in Places => worker[w].event \in Events
           /\ \A x \in Worker : [worker EXCEPT ![w] = x] \in [Workers -> Worker]
           /\ \A place \in Places, e \in Events : [at |-> place, batch |-> worker[w].batch, event |-> e] \in Worker
           /\ [at |-> "Next", batch |-> worker[w].batch] \in Worker /\ Idle \in Worker
<1>1. worker[w] \in Worker /\ worker \in [Workers -> Worker]
  BY DEF Typed
<1>2. worker[w].at \in Places => worker[w] \in [at : Places, batch : SUBSET Events, event : Events]
  BY <1>1 DEF Worker, Places
<1>3. worker[w].batch \in SUBSET Events
  BY <1>1 DEF Worker
<1> QED
  BY <1>1, <1>2, <1>3 DEF Worker, Idle

(***************************************************************************)
(* Types.                                                                  *)
(***************************************************************************)
LEMMA GotoTyped ==
    ASSUME Typed, NEW w \in Workers, NEW place \in Places, NEW e \in Events, Goto(w, place, e)
    PROVE  worker' \in [Workers -> Worker]
BY WorkerFacts DEF Goto

LEMMA ProceedsTyped ==
    ASSUME Typed, NEW w \in Workers, Proceeds(w)
    PROVE  worker' \in [Workers -> Worker]
BY WorkerFacts DEF Proceeds

LEMMA FailsTyped ==
    ASSUME Typed, NEW w \in Workers, worker[w].at \in Places, Fails(w)
    PROVE  worker' \in [Workers -> Worker]
BY WorkerFacts, GotoTyped, ProceedsTyped DEF Fails, Places

LEMMA AddTyped ==
    ASSUME Typed, NEW e \in Durable, AddEntry(e)
    PROVE  stream' \in [Durable -> Nat] /\ stream'[e] = stream[e] + 1 /\ \A f \in Durable \ {e} : stream'[f] = stream[f]
BY DEF Typed, AddEntry

LEMMA HearTyped ==
    ASSUME Typed, NEW e \in Events, Hear(e)
    PROVE  page' \in [Clients -> Page] /\ asked' = asked /\ cookie' = cookie
<1>1. \A pg \in Page : Appends(pg, e) \in Page
  BY DEF Page, Appends
<1> QED
  BY <1>1 DEF Hear, Typed

\* What a worker has in its hands when it stands at a place.
LEMMA HandFacts ==
    ASSUME Typed, Held, NEW w \in Workers, worker[w].at \in Places
    PROVE  /\ worker[w].event \in Events /\ worker[w].event \in log
           /\ worker[w].at \in {"Reserve", "XAdd"} => worker[w].event \in Durable
           /\ worker[w].at \in {"MarkPublished", "MarkFailed", "Bury"} =>
                  w \in Dispatchers /\ worker[w].event \in Outboxed /\ outbox[worker[w].event] \in Tried
BY WorkerFacts DEF Held, Fits, Rows, Typed, Workers

LEMMA WelcomeFacts ==
    ASSUME NEW pg \in Page, NEW u \in Users
    PROVE  /\ Welcomes(pg, u) \in Page /\ Welcomes(pg, u).user = pg.user /\ Welcomes(pg, u).shown = pg.shown
           /\ Welcomes(pg, u).as = pg.as /\ Welcomes(pg, u).guests = pg.guests \union ({u} \ {pg.user})
BY DEF Page, Welcomes

LEMMA OpenedFacts ==
    ASSUME NEW pg \in Page, NEW u \in Users
    PROVE  /\ StreamsAs(pg, u) \in Page /\ StreamsAs(pg, u).user = pg.user /\ StreamsAs(pg, u).shown = pg.shown
           /\ StreamsAs(pg, u).as = u /\ StreamsAs(pg, u).guests = pg.guests \union ({u} \ {pg.user})
<1>1. PICK q \in Page : q = Welcomes(pg, u)
  BY WelcomeFacts
<1>2. StreamsAs(pg, u) = [q EXCEPT !.as = u] /\ u \in Visitor
  BY <1>1 DEF StreamsAs, Visitor
<1> QED
  BY <1>1, <1>2, WelcomeFacts DEF Page

LEMMA TypedStep == Typed /\ Held /\ [Next]_vars => Typed'
<1> SUFFICES ASSUME Typed, Held, [Next]_vars PROVE Typed'
  OBVIOUS
<1> USE DEF redis, database, console, system
<1>1. ASSUME NEW p \in Publishers, PublishEvent(p)
      PROVE  Typed'
  <2>1. PICK e \in Events \ made : InsertEvent(p, e)
    BY <1>1 DEF PublishEvent
  <2>2. worker' \in [Workers -> Worker] /\ log' \in SUBSET Events
    BY <2>1, GotoTyped DEF InsertEvent, Workers, Places, Typed
  <2> QED
    BY <1>1, <2>2 DEF PublishEvent, Typed
<1>2. ASSUME NEW p \in Workers, Enqueue(p)
      PROVE  Typed'
  <2>1. [status |-> "PENDING", attempts |-> 0, due |-> TRUE] \in Tried
    BY DEF Tried, Statuses
  <2>2. outbox' \in [Outboxed -> Tried \union {None}]
    BY <1>2, <2>1 DEF Enqueue, Typed
  <2> QED
    BY <1>2, <2>2, ProceedsTyped DEF Enqueue, Typed
<1>3. ASSUME NEW p \in Workers, PublishDirectly(p)
      PROVE  Typed'
  BY <1>3, HandFacts, GotoTyped DEF PublishDirectly, At, FirstStep, Places, Typed
<1>4. ASSUME NEW d \in Dispatchers, NEW batch \in SUBSET Outboxed, ClaimBatch(d, batch)
      PROVE  Typed'
  <2>1. [at |-> "Next", batch |-> batch] \in Worker /\ d \in Workers
    BY EventsAssumption DEF Worker, Workers
  <2>2. \A e \in batch : outbox[e] \in Tried
    BY <1>4 DEF ClaimBatch, Claimable, Typed
  <2>3. outbox' \in [Outboxed -> Tried \union {None}]
    BY <1>4, <2>2, TriedFacts DEF ClaimBatch, Typed, Statuses
  <2> QED
    BY <1>4, <2>1, <2>3 DEF ClaimBatch, Typed
<1>5. ASSUME NEW d \in Workers, TakeRecord(d)
      PROVE  Typed'
  <2>1. \A e \in worker[d].batch : [at |-> FirstStep(e), batch |-> worker[d].batch \ {e}, event |-> e] \in Worker
    BY WorkerFacts DEF Worker, FirstStep, Places
  <2>2. worker' \in [Workers -> Worker]
    BY <1>5, <2>1, WorkerFacts DEF TakeRecord
  <2> QED
    BY <1>5, <2>2 DEF TakeRecord, Typed
<1>6. ASSUME NEW d \in Workers, MarkPublished(d)
      PROVE  Typed'
  <2>1. outbox' \in [Outboxed -> Tried \union {None}]
    BY <1>6, HandFacts, TriedFacts DEF MarkPublished, At, Places, Typed, Statuses
  <2> QED
    BY <1>6, <2>1, ProceedsTyped DEF MarkPublished, Typed
<1>7. ASSUME NEW d \in Workers, MarkFailed(d)
      PROVE  Typed'
  <2>1. outbox' \in [Outboxed -> Tried \union {None}]
    BY <1>7, HandFacts, TriedFacts DEF MarkFailed, At, Places, Typed, Statuses
  <2>2. worker' \in [Workers -> Worker]
    BY <1>7, HandFacts, GotoTyped DEF MarkFailed, At, Places
  <2> QED
    BY <1>7, <2>1, <2>2 DEF MarkFailed, Typed
<1>8. ASSUME NEW d \in Workers, Bury(d)
      PROVE  Typed'
  <2>1. worker[d].event \in Outboxed
    BY <1>8, HandFacts DEF Bury, At, Places
  <2>2. buried' \in [Outboxed -> Nat]
    BY <1>8, <2>1 DEF Bury, Typed
  <2> QED
    BY <1>8, <2>2, ProceedsTyped DEF Bury, Typed
<1>9. ASSUME NEW e \in Outboxed, BecomesDue(e)
      PROVE  Typed'
  <2>1. outbox' \in [Outboxed -> Tried \union {None}]
    BY <1>9, TriedFacts DEF BecomesDue, Typed
  <2> QED
    BY <1>9, <2>1 DEF BecomesDue, Typed
<1>10. ASSUME NEW w \in Workers, Reserve(w)
       PROVE  Typed'
  <2>1. worker[w].event \in Durable /\ worker[w].event \in Events
    BY <1>10, HandFacts DEF Reserve, At, Places
  <2>2. worker' \in [Workers -> Worker]
    BY <1>10, <2>1, GotoTyped DEF Reserve, Places
  <2> QED
    BY <1>10, <2>1, <2>2 DEF Reserve, Typed
<1>11. ASSUME NEW w \in Workers, XAdd(w)
       PROVE  Typed'
  <2>1. worker[w].event \in Durable /\ worker[w].event \in Events
    BY <1>11, HandFacts DEF XAdd, At, Places
  <2>2. worker' \in [Workers -> Worker] /\ stream' \in [Durable -> Nat]
    BY <1>11, <2>1, GotoTyped, AddTyped DEF XAdd, Places
  <2> QED
    BY <1>11, <2>2 DEF XAdd, Typed
<1>12. ASSUME NEW w \in Workers, Broadcast(w)
       PROVE  Typed'
  <2>1. worker[w].event \in Events
    BY <1>12, HandFacts DEF Broadcast, At, Places
  <2>2. worker' \in [Workers -> Worker]
    BY <1>12, <2>1, GotoTyped, ProceedsTyped DEF Broadcast, Places
  <2> QED
    BY <1>12, <2>1, <2>2, HearTyped DEF Broadcast, Typed
<1>13. ASSUME NEW c \in Clients, NEW u \in Users, SignsIn(c, u)
       PROVE  Typed'
  <2>1. [user |-> u, alive |-> TRUE, read |-> FALSE, rows |-> {}] \in Request /\ u \in Visitor
    BY DEF Request, Visitor
  <2>2. page' \in [Clients -> Page]
    <3>1. page \in [Clients -> Page] /\ page' = [page EXCEPT ![c] = [page[c] EXCEPT !.user = u]]
      BY <1>13 DEF SignsIn, Typed
    <3>2. [page[c] EXCEPT !.user = u] \in Page
      BY <2>1, <3>1 DEF Page
    <3> QED
      BY <3>1, <3>2
  <2>3. asked' \in [Clients -> SUBSET Request] /\ cookie' \in [Clients -> Visitor]
    BY <1>13, <2>1 DEF SignsIn, Typed
  <2> QED
    BY <1>13, <2>2, <2>3 DEF SignsIn, Typed
<1>14. ASSUME NEW c \in Clients, SignsOut(c)
       PROVE  Typed'
  <2>1. SignedOut \in Page /\ \A q \in Request : [q EXCEPT !.alive = FALSE] \in Request
    BY DEF SignedOut, Page, Request, Visitor
  <2>2. page' \in [Clients -> Page]
    BY <1>14, <2>1 DEF SignsOut, Typed
  <2>3. asked' \in [Clients -> SUBSET Request]
    BY <1>14, <2>1 DEF SignsOut, Typed
  <2>4. cookie' \in [Clients -> Visitor]
    BY <1>14 DEF SignsOut, Typed, Visitor
  <2> QED
    BY <1>14, <2>2, <2>3, <2>4 DEF SignsOut, Typed
<1>15. ASSUME NEW c \in Clients, Connect(c) \/ Disconnect(c)
       PROVE  Typed'
  <2>1. page[c] \in Page /\ cookie[c] \in Visitor /\ Everyone \in Visitor
    BY DEF Typed, Visitor
  <2>2. CASE Connect(c)
    <3>1. StreamsAs(page[c], cookie[c]) \in Page
      BY <2>1, <2>2, OpenedFacts DEF Connect, Visitor
    <3> QED
      BY <2>2, <3>1 DEF Connect, Typed
  <2>3. CASE Disconnect(c)
    <3>1. [page[c] EXCEPT !.as = Everyone] \in Page
      BY <2>1 DEF Page
    <3> QED
      BY <2>3, <3>1 DEF Disconnect, Typed
  <2> QED
    BY <1>15, <2>2, <2>3
<1>16. ASSUME NEW c \in Clients, NEW q \in asked[c], ReadsRecent(c, q) \/ RecentArrives(c, q)
       PROVE  Typed'
  <2>1. q \in Request
    BY DEF Typed
  <2>2. \A u \in Users : Listed(u) \in SUBSET Events
    BY DEF Listed, Typed
  <2>3. \A u \in Users : [user |-> u, alive |-> q.alive, read |-> TRUE, rows |-> Listed(u)] \in Request
    BY <2>1, <2>2 DEF Request
  <2>6. \A pg \in Page : Replaces(pg, q) \in Page
    BY <2>1 DEF Request, Page, Replaces
  <2>7. page[c] \in Page /\ \A u \in Users : Welcomes(page[c], u) \in Page
    BY WelcomeFacts DEF Typed
  <2>4. page' \in [Clients -> Page]
    BY <1>16, <2>6, <2>7 DEF ReadsRecent, RecentArrives, Typed
  <2>5. asked' \in [Clients -> SUBSET Request]
    BY <1>16, <2>3 DEF ReadsRecent, RecentArrives, Typed
  <2> QED
    BY <1>16, <2>4, <2>5 DEF ReadsRecent, RecentArrives, Typed
<1>17. ASSUME NEW w \in Workers, RedisFails(w)
       PROVE  Typed'
  <2>1. worker' \in [Workers -> Worker]
    BY <1>17, FailsTyped DEF RedisFails, Places
  <2>2. stranded' \in SUBSET Durable
    BY <1>17, HandFacts DEF RedisFails, At, Places, Typed
  <2> QED
    BY <1>17, <2>1, <2>2 DEF RedisFails, Typed
<1>18. ASSUME NEW w \in Workers, ReplyLost(w)
       PROVE  Typed'
  <2>1. worker' \in [Workers -> Worker]
    BY <1>18, FailsTyped DEF ReplyLost, Places
  <2>2. worker[w].event \in Events /\ (worker[w].at \in {"Reserve", "XAdd"} => worker[w].event \in Durable)
    BY <1>18, HandFacts DEF ReplyLost, Places
  <2>3. CASE At(w, "Reserve")
    BY <1>18, <2>1, <2>2, <2>3 DEF ReplyLost, At, Typed
  <2>4. CASE At(w, "XAdd")
    BY <1>18, <2>1, <2>2, <2>4, AddTyped DEF ReplyLost, At, Typed
  <2>5. CASE At(w, "Broadcast")
    BY <1>18, <2>1, <2>2, <2>5, HearTyped DEF ReplyLost, At, Typed
  <2> QED
    BY <1>18, <2>3, <2>4, <2>5 DEF ReplyLost, At
<1>19. ASSUME NEW w \in Workers, QueryFails(w)
       PROVE  Typed'
  <2>1. worker' \in [Workers -> Worker]
    BY <1>19, FailsTyped, WorkerFacts DEF QueryFails, At, Places
  <2> QED
    BY <1>19, <2>1 DEF QueryFails, Typed
<1>20. ASSUME NEW w \in Workers, Crash(w)
       PROVE  Typed'
  <2>1. worker' \in [Workers -> Worker]
    BY <1>20, WorkerFacts DEF Crash
  <2>2. stranded' \in SUBSET Durable
    BY <1>20, HandFacts DEF Crash, At, Places, Typed
  <2>3. page' \in [Clients -> Page]
    BY <1>20 DEF Crash, Typed, Page, Visitor
  <2> QED
    BY <1>20, <2>1, <2>2, <2>3 DEF Crash, Typed
<1>21. CASE UNCHANGED vars
  BY <1>21 DEF vars, Typed
<1>22. ASSUME NEW e \in Durable, KeyExpires(e)
       PROVE  Typed'
  BY <1>22 DEF KeyExpires, Typed
<1>23. ASSUME NEW c \in Clients, NEW u \in Visitor, OtherTab(c, u)
       PROVE  Typed'
  BY <1>23 DEF OtherTab, Typed
<1> QED
  BY <1>1, <1>2, <1>3, <1>4, <1>5, <1>6, <1>7, <1>8, <1>9, <1>10, <1>11, <1>12, <1>13, <1>14, <1>15, <1>16, <1>17,
     <1>18, <1>19, <1>20, <1>21, <1>22, <1>23 DEF Next, Proceed, Fault

(***************************************************************************)
(* What workers hold.                                                      *)
(***************************************************************************)
\* Rows, log entries and keys are never taken away.
LEMMA Grows ==
    ASSUME Typed, Held, [Next]_vars
    PROVE  Rows \subseteq Rows' /\ log \subseteq log' /\ \A e \in Durable : Taken(e) => Taken(e)'
<1> USE DEF redis, database, console, system
<1>1. log \subseteq log'
  BY DEF Next, Proceed, Fault, PublishEvent, InsertEvent, Enqueue, PublishDirectly, TakeRecord, MarkPublished, MarkFailed, Bury,
         Reserve, XAdd, Broadcast, RedisFails, ReplyLost, QueryFails, Crash, ClaimBatch, BecomesDue, KeyExpires, SignsIn, OtherTab, SignsOut, Connect,
         Disconnect, ReadsRecent, RecentArrives, vars
<1>2. \A e \in Durable : Taken(e) => Taken(e)'
  <2>1. CASE reserved \subseteq reserved' /\ UNCHANGED lapsed
    BY <2>1 DEF Taken
  <2>2. ASSUME NEW e \in Durable, KeyExpires(e)
        PROVE  \A f \in Durable : Taken(f) => Taken(f)'
    <3>1. lapsed'[e] = lapsed[e] + 1 /\ lapsed[e] \in Nat /\ \A f \in Durable \ {e} : lapsed'[f] = lapsed[f]
      BY <2>2 DEF KeyExpires, Typed
    <3> QED
      BY <2>2, <3>1 DEF KeyExpires, Taken
  <2> QED
    BY <2>1, <2>2
       DEF Next, Proceed, Fault, PublishEvent, Enqueue, PublishDirectly, TakeRecord, MarkPublished, MarkFailed, Bury,
         Reserve, XAdd, Broadcast, RedisFails, ReplyLost, QueryFails, Crash, ClaimBatch, BecomesDue, KeyExpires, SignsIn, OtherTab, SignsOut,
         Connect, Disconnect, ReadsRecent, RecentArrives, vars
<1>3. ASSUME NEW e \in Outboxed, outbox[e] # None
      PROVE  outbox'[e] # None
  <2>1. outbox[e] \in Tried /\ (outbox'[e] \in Tried => outbox'[e] # None)
    BY <1>3, TriedFacts DEF Typed
  <2>2. ASSUME NEW d \in Workers, MarkPublished(d)
        PROVE  outbox'[e] # None
    BY <2>1, <2>2, TriedFacts, HandFacts DEF MarkPublished, At, Places, Typed, Statuses
  <2>3. ASSUME NEW d \in Workers, MarkFailed(d)
        PROVE  outbox'[e] # None
    BY <2>1, <2>3, TriedFacts, HandFacts DEF MarkFailed, At, Places, Typed
  <2>4. ASSUME NEW d \in Dispatchers, NEW batch \in SUBSET Outboxed, ClaimBatch(d, batch)
        PROVE  outbox'[e] # None
    BY <1>3, <2>1, <2>4, TriedFacts DEF ClaimBatch, Statuses
  <2>5. ASSUME NEW f \in Outboxed, BecomesDue(f)
        PROVE  outbox'[e] # None
    BY <2>1, <2>5, TriedFacts DEF BecomesDue, Typed
  <2>6. ASSUME NEW p \in Workers, Enqueue(p)
        PROVE  outbox'[e] # None
    BY <1>3, <2>6 DEF Enqueue, Typed
  <2>7. CASE UNCHANGED outbox
    BY <1>3, <2>7
  <2> QED
    BY <2>2, <2>3, <2>4, <2>5, <2>6, <2>7
       DEF Next, Proceed, Fault, PublishEvent, PublishDirectly, TakeRecord, Bury, Reserve, XAdd, Broadcast, RedisFails, ReplyLost,
           QueryFails, Crash, KeyExpires, SignsIn, OtherTab, SignsOut, Connect, Disconnect, ReadsRecent, RecentArrives, vars
<1> QED
  BY <1>1, <1>2, <1>3 DEF Rows

\* A worker that keeps what it has keeps fitting; the others are looked at one by one.
LEMMA FitsStays ==
    ASSUME Typed, Held, [Next]_vars, NEW w \in Workers, worker'[w] = worker[w]
    PROVE  Fits(w, worker[w])'
BY Grows DEF Held, Fits

LEMMA GotoHand ==
    ASSUME Typed, NEW w \in Workers, NEW place, NEW e, Goto(w, place, e)
    PROVE  /\ worker'[w] = [at |-> place, batch |-> worker[w].batch, event |-> e]
           /\ \A v \in Workers \ {w} : worker'[v] = worker[v]
BY DEF Goto, Typed

LEMMA ProceedsHand ==
    ASSUME Typed, NEW w \in Workers, Proceeds(w)
    PROVE  /\ worker'[w] = IF w \in Publishers THEN Idle ELSE [at |-> "Next", batch |-> worker[w].batch]
           /\ \A v \in Workers \ {w} : worker'[v] = worker[v]
BY DEF Proceeds, Typed

\* What fits whatever happened.
LEMMA RestFits ==
    ASSUME Typed, Held, [Next]_vars, NEW w \in Workers
    PROVE  /\ w \in Dispatchers /\ worker'[w] = [at |-> "Next", batch |-> worker[w].batch] => Fits(w, worker[w])'
           /\ worker'[w] = Idle => Fits(w, worker[w])'
<1>1. worker'[w] = Idle => Fits(w, worker[w])'
  BY DEF Fits, Idle, Places
<1>2. ASSUME w \in Dispatchers, worker'[w] = [at |-> "Next", batch |-> worker[w].batch]
      PROVE  Fits(w, worker[w])'
  <2>1. w \notin Publishers /\ worker[w].batch \subseteq Rows'
    BY <1>2, Grows, WorkersAssumption DEF Held, Fits
  <2> QED
    BY <1>2, <2>1 DEF Fits, Places
<1> QED
  BY <1>1, <1>2

LEMMA HeldStep == Typed /\ Held /\ [Next]_vars => Held'
<1> SUFFICES ASSUME Typed, Held, [Next]_vars PROVE Held'
  OBVIOUS
<1> USE DEF redis, database, console, system
<1>1. (Rows \subseteq log)'
  <2>1. ASSUME NEW e \in Outboxed, outbox[e] = None, outbox'[e] # None
        PROVE  \E p \in Workers : Enqueue(p) /\ worker[p].event = e
    <3>1. CASE UNCHANGED outbox
      BY <2>1, <3>1
    <3>2. ASSUME NEW p \in Workers, MarkPublished(p) \/ MarkFailed(p)
          PROVE  FALSE
      BY <2>1, <3>2, HandFacts, TriedFacts DEF MarkPublished, MarkFailed, At, Places, Typed
    <3>3. ASSUME NEW d \in Dispatchers, NEW batch \in SUBSET Outboxed, ClaimBatch(d, batch)
          PROVE  FALSE
      BY <2>1, <3>3 DEF ClaimBatch, Claimable
    <3>4. ASSUME NEW f \in Outboxed, BecomesDue(f)
          PROVE  FALSE
      BY <2>1, <3>4 DEF BecomesDue, Typed
    <3>5. ASSUME NEW p \in Workers, Enqueue(p)
          PROVE  worker[p].event = e
      BY <2>1, <3>5 DEF Enqueue, Typed
    <3> QED
      BY <3>1, <3>2, <3>3, <3>4, <3>5
         DEF Next, Proceed, Fault, PublishEvent, PublishDirectly, TakeRecord, Bury, Reserve, XAdd, Broadcast, RedisFails, ReplyLost,
             QueryFails, Crash, KeyExpires, SignsIn, OtherTab, SignsOut, Connect, Disconnect, ReadsRecent, RecentArrives, vars
  <2>2. ASSUME NEW e \in Outboxed, outbox'[e] # None
        PROVE  e \in log
    <3>1. CASE outbox[e] # None
      BY <3>1 DEF Held, Rows
    <3>2. CASE outbox[e] = None
      BY <2>1, <2>2, <3>2, HandFacts DEF Enqueue, At, Places
    <3> QED
      BY <3>1, <3>2
  <2> QED
    BY <2>2, Grows DEF Rows
<1>2. ASSUME NEW w \in Workers, NEW v \in Workers, v # w, Proceed(w) \/ Fault(w) \/ PublishEvent(w)
             \/ \E batch \in SUBSET Outboxed : ClaimBatch(w, batch)
      PROVE  worker'[v] = worker[v]
  <2>1. \E x : worker' = [worker EXCEPT ![w] = x]
    BY <1>2 DEF Proceed, Fault, PublishEvent, InsertEvent, Enqueue, PublishDirectly, TakeRecord, MarkPublished, MarkFailed, Bury,
         Reserve, XAdd, Broadcast, RedisFails, ReplyLost, QueryFails, Crash, ClaimBatch, Goto, Proceeds, Fails
  <2> QED
    BY <1>2, <2>1 DEF Typed
<1>3. ASSUME NEW w \in Workers, Proceed(w) \/ Fault(w)
      PROVE  Fits(w, worker[w])'
  <2>0. ASSUME Proceeds(w)
        PROVE  Fits(w, worker[w])'
    BY <2>0, ProceedsHand, RestFits DEF Workers
  <2>1. CASE PublishDirectly(w)
    <3>1. worker[w].event \in log /\ w \notin Dispatchers
      BY <2>1, HandFacts DEF PublishDirectly, At, Places, Held, Fits
    <3>2. worker'[w] = [at |-> FirstStep(worker[w].event), batch |-> worker[w].batch, event |-> worker[w].event]
      BY <2>1 DEF PublishDirectly, Goto, Typed
    <3>3. worker'[w].at = "Reserve" => worker[w].event \in Durable
      BY <3>2 DEF FirstStep
    <3>4. worker[w].event \in Durable => worker'[w].at = "Reserve"
      BY <3>2 DEF FirstStep
    <3> QED
      BY <3>1, <3>2, <3>3, <3>4, Grows DEF Fits, FirstStep
  <2>2. CASE Enqueue(w) \/ MarkPublished(w) \/ Bury(w)
    BY <2>0, <2>2 DEF Enqueue, MarkPublished, Bury
  <2>3. CASE TakeRecord(w)
    <3>1. CASE worker' = [worker EXCEPT ![w] = Idle]
      BY <3>1, RestFits DEF Typed
    <3>2. ASSUME NEW e \in worker[w].batch,
                 worker' = [worker EXCEPT ![w] = [at |-> FirstStep(e), batch |-> worker[w].batch \ {e}, event |-> e]]
          PROVE  Fits(w, worker[w])'
      <4>1. worker'[w] = [at |-> FirstStep(e), batch |-> worker[w].batch \ {e}, event |-> e]
        BY <3>2 DEF Typed
      <4>2. w \in Dispatchers /\ w \notin Publishers
        BY <2>3, WorkersAssumption DEF TakeRecord, At, Held, Fits, Workers
      <4>3. worker[w].batch \subseteq Rows /\ e \in Rows /\ e \in log
        BY <4>2 DEF Held, Fits
      <4>4. worker[w].batch \subseteq Rows' /\ e \in Rows' /\ e \in log'
        BY <4>3, Grows
      <4>5. FirstStep(e) # "Logged" /\ (FirstStep(e) = "Reserve" => e \in Durable) /\ FirstStep(e) \in {"Reserve", "Broadcast"}
            /\ (e \in Durable => FirstStep(e) = "Reserve")
        BY DEF FirstStep
      <4> QED
        BY <4>1, <4>2, <4>4, <4>5 DEF Fits
    <3> QED
      BY <2>3, <3>1, <3>2 DEF TakeRecord
  <2>4. CASE MarkFailed(w)
    <3>1. worker'[w] = [at |-> "Bury", batch |-> worker[w].batch, event |-> worker[w].event]
      BY <2>4, GotoHand DEF MarkFailed
    <3>2. w \in Dispatchers /\ w \notin Publishers /\ worker[w].event \in log /\ worker[w].event \in Rows
          /\ worker[w].batch \subseteq Rows
      BY <2>4, HandFacts, WorkersAssumption DEF MarkFailed, At, Places, Held, Fits
    <3> QED
      BY <3>1, <3>2, Grows DEF Fits
  <2>5. CASE Reserve(w)
    <3>1. worker[w].event \in log /\ worker[w].event \in Durable /\ Fits(w, worker[w]) /\ worker[w].at = "Reserve"
      BY <2>5, HandFacts DEF Reserve, At, Places, Held
    <3>2. PICK place \in {"Broadcast", "XAdd"} :
             worker'[w] = [at |-> place, batch |-> worker[w].batch, event |-> worker[w].event]
      BY <2>5, GotoHand DEF Reserve
    <3>3. Taken(worker[w].event)'
      BY <2>5, <3>2 DEF Reserve, Taken
    <3> QED
      BY <3>1, <3>2, <3>3, Grows DEF Fits, Places
  <2>6. CASE XAdd(w)
    <3>1. worker[w].event \in log /\ worker[w].event \in Durable /\ Fits(w, worker[w]) /\ worker[w].at = "XAdd"
      BY <2>6, HandFacts DEF XAdd, At, Places, Held
    <3>2. worker'[w] = [at |-> "Broadcast", batch |-> worker[w].batch, event |-> worker[w].event]
      BY <2>6, GotoHand DEF XAdd
    <3> QED
      BY <3>1, <3>2, Grows DEF Fits, Places
  <2>7. CASE Broadcast(w) /\ w \in Dispatchers
    <3>1. worker[w].event \in log /\ Fits(w, worker[w]) /\ worker[w].at = "Broadcast" /\ w \notin Publishers
      BY <2>7, HandFacts, WorkersAssumption DEF Broadcast, At, Places, Held
    <3>2. worker'[w] = [at |-> "MarkPublished", batch |-> worker[w].batch, event |-> worker[w].event]
      BY <2>7, GotoHand DEF Broadcast
    <3> QED
      BY <3>1, <3>2, Grows DEF Fits, Places
  <2>8. CASE Broadcast(w) /\ w \notin Dispatchers
    BY <2>0, <2>8 DEF Broadcast
  <2>9. ASSUME Fails(w), worker[w].at \in Places
        PROVE  Fits(w, worker[w])'
    <3>1. CASE w \notin Dispatchers
      BY <2>0, <2>9, <3>1 DEF Fails
    <3>2. CASE w \in Dispatchers
      <4>1. Fits(w, worker[w]) /\ w \notin Publishers
        BY <3>2, WorkersAssumption DEF Held
      <4>2. worker'[w] = [at |-> "MarkFailed", batch |-> worker[w].batch, event |-> worker[w].event]
        BY <2>9, <3>2, GotoHand DEF Fails
      <4> QED
        BY <2>9, <3>2, <4>1, <4>2, Grows DEF Fits
    <3> QED
      BY <3>1, <3>2
  <2>10. CASE RedisFails(w) \/ ReplyLost(w)
    BY <2>9, <2>10 DEF RedisFails, ReplyLost, Places
  <2>11. CASE QueryFails(w) \/ Crash(w)
    <3>1. CASE worker' = [worker EXCEPT ![w] = Idle]
      BY <3>1, RestFits DEF Typed
    <3> QED
      BY <2>9, <2>11, <3>1 DEF QueryFails, Crash, At, Places
  <2> QED
    BY <1>3, <2>1, <2>2, <2>3, <2>4, <2>5, <2>6, <2>7, <2>8, <2>10, <2>11 DEF Proceed, Fault
<1>4. ASSUME NEW p \in Publishers, PublishEvent(p)
      PROVE  Fits(p, worker[p])'
  <2>1. PICK e \in Events \ made : InsertEvent(p, e)
    BY <1>4 DEF PublishEvent
  <2>2. worker'[p] = [at |-> "Logged", batch |-> worker[p].batch, event |-> e] /\ e \in log' /\ p \notin Dispatchers
    BY <2>1, GotoHand, WorkersAssumption DEF InsertEvent, Workers
  <2> QED
    BY <2>2 DEF Fits
<1>5. ASSUME NEW d \in Dispatchers, NEW batch \in SUBSET Outboxed, ClaimBatch(d, batch)
      PROVE  Fits(d, worker[d])'
  <2>1. worker'[d] = [at |-> "Next", batch |-> batch]
    BY <1>5 DEF ClaimBatch, Typed, Workers
  <2>2. batch \subseteq Rows' /\ d \notin Publishers
    BY <1>5, Grows, WorkersAssumption DEF ClaimBatch, Claimable, Rows
  <2> QED
    BY <2>1, <2>2 DEF Fits, Places
<1>6. ASSUME NEW v \in Workers
      PROVE  Fits(v, worker[v])'
  <2>1. CASE worker'[v] = worker[v]
    BY <2>1, FitsStays
  <2>2. ASSUME worker'[v] # worker[v]
        PROVE  Proceed(v) \/ Fault(v) \/ (v \in Publishers /\ PublishEvent(v))
               \/ (v \in Dispatchers /\ \E batch \in SUBSET Outboxed : ClaimBatch(v, batch))
    BY <1>2, <2>2 DEF Next, BecomesDue, KeyExpires, SignsIn, OtherTab, SignsOut, Connect, Disconnect, ReadsRecent, RecentArrives, vars, Workers
  <2> QED
    BY <1>3, <1>4, <1>5, <2>1, <2>2
<1> QED
  BY <1>1, <1>6 DEF Held

(***************************************************************************)
(* The stream.                                                             *)
(***************************************************************************)
Adding(w, e) == worker[w].at = "XAdd" /\ worker[w].event = e
Adders(e)    == {w \in Workers : Adding(w, e)}
Live(e)      == IF e \in reserved THEN 1 ELSE 0

\* A key that was set leads to an entry, or to a worker that is about to add one, or it is stranded;
\* every entry, and every worker about to add one, took a key that lives or has expired.
Led  == \A e \in Durable : Taken(e) => stream[e] > 0 \/ e \in stranded \/ \E w \in Workers : Adding(w, e)
Paid == \A e \in Durable : stream[e] + Cardinality(Adders(e)) <= lapsed[e] + Live(e)
Kept == Led /\ Paid
MarkedIsReserved ==
    \A e \in Outboxed \intersect Durable : outbox[e] # None /\ outbox[e].status = "PUBLISHED" => Taken(e)

LEMMA AddersFinite ==
    \A S \in SUBSET Workers : IsFiniteSet(S) /\ Cardinality(S) \in Nat
<1>1. IsFiniteSet(Workers)
  BY FS_Union, WorkersAssumption DEF Workers
<1> QED
  BY <1>1, FS_Subset, FS_CardinalityType

LEMMA InitKept == Init => Kept /\ MarkedIsReserved
<1> SUFFICES ASSUME Init PROVE Kept /\ MarkedIsReserved
  OBVIOUS
<1>1. \A w \in Workers, e \in Durable : ~Adding(w, e)
  BY DEF Init, Adding, Idle
<1>2. \A e \in Durable : Adders(e) = {}
  BY <1>1 DEF Adders
<1>3. \A e \in Durable : Cardinality(Adders(e)) = 0
  BY <1>2, FS_EmptySet
<1>4. \A e \in Durable : ~Taken(e) /\ stream[e] = 0 /\ lapsed[e] = 0 /\ Live(e) = 0
  BY DEF Init, Taken, Live
<1>5. Led /\ Paid
  BY <1>3, <1>4 DEF Led, Paid
<1> QED
  BY <1>5 DEF Init, Kept, MarkedIsReserved

\* What can happen to the keys and entries in one step.
Same(w) == (worker'[w].at = "XAdd" \/ worker[w].at = "XAdd") => worker'[w] = worker[w]
Keeps   == UNCHANGED <<reserved, lapsed, stream, stranded>> /\ \A w \in Workers : Same(w)
\* The key is set, and its entry is left to the worker, or to nobody.
Takes(w, e) ==
    /\ worker[w].at = "Reserve" /\ e \in Durable \ reserved /\ reserved' = reserved \union {e} /\ UNCHANGED <<lapsed, stream>>
    /\ \/ Adding(w, e)' /\ UNCHANGED stranded
       \/ worker'[w].at # "XAdd" /\ stranded' = stranded \union {e}
    /\ \A v \in Workers \ {w} : worker'[v] = worker[v]
\* The entry is added, or never will be.
Leaves(w, e) ==
    /\ Adding(w, e) /\ worker'[w].at # "XAdd" /\ UNCHANGED <<reserved, lapsed>>
    /\ \/ AddEntry(e) /\ UNCHANGED stranded
       \/ UNCHANGED stream /\ stranded' = stranded \union {e}
    /\ \A v \in Workers \ {w} : worker'[v] = worker[v]

LEMMA HandMoves ==
    ASSUME Typed, NEW w \in Workers
    PROVE  /\ \A place, e : Goto(w, place, e) => /\ worker'[w].at = place /\ worker'[w].event = e
                                               /\ \A v \in Workers \ {w} : worker'[v] = worker[v]
           /\ Proceeds(w) \/ Fails(w) \/ worker' = [worker EXCEPT ![w] = Idle] =>
                  worker'[w].at # "XAdd" /\ \A v \in Workers \ {w} : worker'[v] = worker[v]
<1>1. ASSUME NEW place, NEW e, Goto(w, place, e)
      PROVE  /\ worker'[w].at = place /\ worker'[w].event = e
             /\ \A v \in Workers \ {w} : worker'[v] = worker[v]
  <2>1. worker'[w] = [at |-> place, batch |-> worker[w].batch, event |-> e] /\ \A v \in Workers \ {w} : worker'[v] = worker[v]
    BY <1>1 DEF Goto, Typed
  <2> QED
    BY <2>1
<1>2. ASSUME Proceeds(w)
      PROVE  worker'[w].at # "XAdd" /\ \A v \in Workers \ {w} : worker'[v] = worker[v]
  <2>1. \A v \in Workers \ {w} : worker'[v] = worker[v]
    BY <1>2, ProceedsHand
  <2>2. worker'[w] = Idle \/ worker'[w] = [at |-> "Next", batch |-> worker[w].batch]
    BY <1>2, ProceedsHand
  <2> QED
    BY <2>1, <2>2 DEF Idle
<1>3. ASSUME Fails(w)
      PROVE  worker'[w].at # "XAdd" /\ \A v \in Workers \ {w} : worker'[v] = worker[v]
  BY <1>1, <1>2, <1>3 DEF Fails
<1>4. ASSUME worker' = [worker EXCEPT ![w] = Idle]
      PROVE  worker'[w].at # "XAdd" /\ \A v \in Workers \ {w} : worker'[v] = worker[v]
  BY <1>4 DEF Typed, Idle
<1> QED
  BY <1>1, <1>2, <1>3, <1>4

LEMMA StreamStep ==
    ASSUME Typed, Held, [Next]_vars
    PROVE  \/ Keeps
           \/ \E w \in Workers, e \in Durable : Takes(w, e) \/ Leaves(w, e)
           \/ \E e \in Durable : KeyExpires(e)
<1> USE DEF redis, database, console, system
<1>1. ASSUME NEW w \in Workers, UNCHANGED <<reserved, lapsed, stream, stranded>>, worker[w].at # "XAdd", worker'[w].at # "XAdd",
             \A v \in Workers \ {w} : worker'[v] = worker[v]
      PROVE  Keeps
  BY <1>1 DEF Keeps, Same
<1>2. ASSUME NEW p \in Publishers, PublishEvent(p)
      PROVE  Keeps
  BY <1>1, <1>2, HandMoves DEF PublishEvent, InsertEvent, At, Workers
<1>3. ASSUME NEW w \in Workers, Enqueue(w) \/ MarkPublished(w) \/ Bury(w) \/ Broadcast(w) \/ MarkFailed(w) \/ PublishDirectly(w)
      PROVE  Keeps
  <2>1. worker[w].at # "XAdd" /\ UNCHANGED <<reserved, lapsed, stream, stranded>>
    BY <1>3 DEF Enqueue, MarkPublished, Bury, Broadcast, MarkFailed, PublishDirectly, At
  <2>2. worker'[w].at # "XAdd" /\ \A v \in Workers \ {w} : worker'[v] = worker[v]
    BY <1>3, HandMoves DEF Enqueue, MarkPublished, Bury, Broadcast, MarkFailed, PublishDirectly, FirstStep
  <2> QED
    BY <1>1, <2>1, <2>2
<1>4. ASSUME NEW w \in Workers, TakeRecord(w)
      PROVE  Keeps
  <2>1. worker[w].at # "XAdd" /\ UNCHANGED <<reserved, lapsed, stream, stranded>>
    BY <1>4 DEF TakeRecord, At
  <2>2. CASE worker' = [worker EXCEPT ![w] = Idle]
    BY <1>1, <2>1, <2>2, HandMoves
  <2>3. ASSUME NEW e, worker' = [worker EXCEPT ![w] = [at |-> FirstStep(e), batch |-> worker[w].batch \ {e}, event |-> e]]
        PROVE  Keeps
    <3>1. worker'[w].at # "XAdd" /\ \A v \in Workers \ {w} : worker'[v] = worker[v]
      BY <2>3 DEF Typed, FirstStep
    <3> QED
      BY <1>1, <2>1, <3>1
  <2> QED
    BY <1>4, <2>2, <2>3 DEF TakeRecord
<1>5. ASSUME NEW d \in Dispatchers, NEW batch \in SUBSET Outboxed, ClaimBatch(d, batch)
      PROVE  Keeps
  <2>1. worker'[d].at # "XAdd" /\ \A v \in Workers \ {d} : worker'[v] = worker[v]
    BY <1>5 DEF ClaimBatch, Typed, Workers
  <2> QED
    BY <1>1, <1>5, <2>1 DEF ClaimBatch, At, Workers
<1>6. ASSUME NEW w \in Workers, Reserve(w)
      PROVE  Keeps \/ \E e \in Durable : Takes(w, e)
  <2>1. worker[w].at = "Reserve" /\ worker[w].event \in Durable
    BY <1>6, HandFacts DEF Reserve, At, Places
  <2>2. CASE worker[w].event \in reserved
    BY <1>1, <1>6, <2>1, <2>2, HandMoves DEF Reserve
  <2>3. CASE worker[w].event \notin reserved
    BY <1>6, <2>1, <2>3, HandMoves DEF Reserve, Takes, Adding
  <2> QED
    BY <2>2, <2>3
<1>7. ASSUME NEW w \in Workers, XAdd(w)
      PROVE  \E e \in Durable : Leaves(w, e)
  <2>1. worker[w].at = "XAdd" /\ worker[w].event \in Durable
    BY <1>7, HandFacts DEF XAdd, At, Places
  <2> QED
    BY <1>7, <2>1, HandMoves DEF XAdd, Leaves, Adding
<1>8. ASSUME NEW w \in Workers, RedisFails(w)
      PROVE  Keeps \/ \E e \in Durable : Leaves(w, e)
  <2>1. worker'[w].at # "XAdd" /\ \A v \in Workers \ {w} : worker'[v] = worker[v]
    BY <1>8, HandMoves DEF RedisFails
  <2>2. CASE At(w, "XAdd")
    BY <1>8, <2>1, <2>2, HandFacts DEF RedisFails, Leaves, Adding, At, Places
  <2>3. CASE ~At(w, "XAdd")
    BY <1>1, <1>8, <2>1, <2>3 DEF RedisFails, At
  <2> QED
    BY <2>2, <2>3
<1>9. ASSUME NEW w \in Workers, Crash(w)
      PROVE  Keeps \/ \E e \in Durable : Leaves(w, e)
  <2>1. worker'[w].at # "XAdd" /\ \A v \in Workers \ {w} : worker'[v] = worker[v]
    BY <1>9, HandMoves DEF Crash
  <2>2. CASE At(w, "XAdd")
    BY <1>9, <2>1, <2>2, HandFacts DEF Crash, Leaves, Adding, At, Places
  <2>3. CASE ~At(w, "XAdd")
    BY <1>1, <1>9, <2>1, <2>3 DEF Crash, At
  <2> QED
    BY <2>2, <2>3
<1>10. ASSUME NEW w \in Workers, QueryFails(w)
       PROVE  Keeps
  <2>1. worker'[w].at # "XAdd" /\ \A v \in Workers \ {w} : worker'[v] = worker[v]
    BY <1>10, HandMoves DEF QueryFails
  <2> QED
    BY <1>1, <1>10, <2>1 DEF QueryFails
<1>11. ASSUME NEW w \in Workers, ReplyLost(w)
       PROVE  Keeps \/ \E e \in Durable : Takes(w, e) \/ Leaves(w, e)
  <2>1. worker'[w].at # "XAdd" /\ \A v \in Workers \ {w} : worker'[v] = worker[v]
    BY <1>11, HandMoves DEF ReplyLost
  <2>2. worker[w].at \in {"Reserve", "XAdd"} => worker[w].event \in Durable
    BY <1>11, HandFacts DEF ReplyLost, Places
  <2>3. CASE At(w, "XAdd")
    BY <1>11, <2>1, <2>2, <2>3 DEF ReplyLost, Leaves, Adding, At
  <2>4. CASE At(w, "Broadcast")
    BY <1>1, <1>11, <2>1, <2>4 DEF ReplyLost, At
  <2>5. CASE At(w, "Reserve") /\ worker[w].event \in reserved
    <3>1. UNCHANGED <<reserved, lapsed, stream, stranded>>
      BY <1>11, <2>5 DEF ReplyLost, At
    <3> QED
      BY <1>1, <2>1, <2>5, <3>1 DEF At
  <2>6. CASE At(w, "Reserve") /\ worker[w].event \notin reserved
    BY <1>11, <2>1, <2>2, <2>6 DEF ReplyLost, Takes, At
  <2> QED
    BY <1>11, <2>3, <2>4, <2>5, <2>6 DEF ReplyLost, At
<1>12. ASSUME UNCHANGED <<reserved, lapsed, stream, stranded, worker>>
       PROVE  Keeps
  BY <1>12 DEF Keeps, Same
<1>13. ASSUME NEW e \in Outboxed, BecomesDue(e)
       PROVE  Keeps
  BY <1>12, <1>13 DEF BecomesDue
<1>14. ASSUME NEW c \in Clients,
              \/ \E u \in Users : SignsIn(c, u)
              \/ \E u \in Visitor : OtherTab(c, u)
              \/ SignsOut(c) \/ Connect(c) \/ Disconnect(c) \/ \E q \in asked[c] : ReadsRecent(c, q) \/ RecentArrives(c, q)
       PROVE  Keeps
  BY <1>12, <1>14 DEF SignsIn, OtherTab, SignsOut, Connect, Disconnect, ReadsRecent, RecentArrives
<1>15. CASE UNCHANGED vars
  BY <1>12, <1>15 DEF vars
<1> QED
  BY <1>2, <1>3, <1>4, <1>5, <1>6, <1>7, <1>8, <1>9, <1>10, <1>11, <1>13, <1>14, <1>15 DEF Next, Proceed, Fault

LEMMA LedStep == Typed /\ Held /\ Led /\ [Next]_vars => Led'
<1> SUFFICES ASSUME Typed, Held, Led, [Next]_vars PROVE Led'
  OBVIOUS
<1>1. CASE Keeps
  BY <1>1 DEF Keeps, Same, Led, Adding, Taken
<1>2. ASSUME NEW w \in Workers, NEW e \in Durable, Takes(w, e)
      PROVE  Led'
  <2>1. \A v \in Workers, f \in Durable : Adding(v, f) => Adding(v, f)'
    BY <1>2 DEF Takes, Adding
  <2>2. \A f \in Durable \ {e} : Taken(f)' <=> Taken(f)
    BY <1>2 DEF Takes, Taken
  <2>3. Adding(w, e)' \/ e \in stranded'
    BY <1>2 DEF Takes
  <2> QED
    BY <1>2, <2>1, <2>2, <2>3 DEF Takes, Led
<1>3. ASSUME NEW w \in Workers, NEW e \in Durable, Leaves(w, e)
      PROVE  Led'
  <2>1. \A v \in Workers, f \in Durable \ {e} : Adding(v, f) => Adding(v, f)'
    BY <1>3 DEF Leaves, Adding
  <2>2. \A f \in Durable \ {e} : stream'[f] = stream[f]
    BY <1>3, AddTyped DEF Leaves
  <2>3. stream'[e] > 0 \/ e \in stranded'
    BY <1>3, AddTyped DEF Leaves, Typed
  <2>4. stranded \subseteq stranded' /\ \A f \in Durable : Taken(f)' <=> Taken(f)
    BY <1>3 DEF Leaves, Taken
  <2> QED
    BY <2>1, <2>2, <2>3, <2>4 DEF Led
<1>4. ASSUME NEW e \in Durable, KeyExpires(e)
      PROVE  Led'
  <2>1. Taken(e) /\ \A f \in Durable \ {e} : Taken(f)' <=> Taken(f)
    BY <1>4 DEF KeyExpires, Taken, Typed
  <2> QED
    BY <1>4, <2>1 DEF KeyExpires, Led, Adding
<1> QED
  BY <1>1, <1>2, <1>3, <1>4, StreamStep

LEMMA PaidStep == Typed /\ Held /\ Paid /\ [Next]_vars => Paid'
<1> SUFFICES ASSUME Typed, Held, Paid, [Next]_vars PROVE Paid'
  OBVIOUS
<1>0. ASSUME NEW f \in Durable, Adders(f)' = Adders(f), stream'[f] = stream[f], lapsed'[f] + Live(f)' = lapsed[f] + Live(f)
      PROVE  stream'[f] + Cardinality(Adders(f)') <= lapsed'[f] + Live(f)'
  BY <1>0 DEF Paid
<1>1. CASE Keeps
  <2>1. \A f \in Durable : Adders(f)' = Adders(f)
    BY <1>1 DEF Keeps, Same, Adders, Adding
  <2> QED
    BY <1>0, <1>1, <2>1 DEF Keeps, Paid, Live
<1>2. ASSUME NEW w \in Workers, NEW e \in Durable, Takes(w, e)
      PROVE  Paid'
  <2>1. \A f \in Durable \ {e} : Adders(f)' = Adders(f) /\ Live(f)' = Live(f)
    BY <1>2 DEF Takes, Adders, Adding, Live
  <2>2. Adders(e)' = Adders(e) \/ Adders(e)' = Adders(e) \union {w}
    BY <1>2 DEF Takes, Adders, Adding
  <2>3. Adders(e) \in SUBSET Workers
    BY DEF Adders
  <2>4. PICK n \in Nat : n = Cardinality(Adders(e))
    BY <2>3, AddersFinite
  <2>5. Cardinality(Adders(e) \union {w}) \in {n, n + 1}
    BY <2>3, <2>4, AddersFinite, FS_AddElement
  <2>6. stream[e] \in Nat /\ lapsed[e] \in Nat /\ Live(e) = 0 /\ Live(e)' = 1 /\ stream' = stream /\ lapsed' = lapsed
    BY <1>2 DEF Takes, Typed, Live
  <2>7. stream[e] + n <= lapsed[e]
    BY <2>4, <2>6 DEF Paid
  <2>8. stream'[e] + Cardinality(Adders(e)') <= lapsed'[e] + Live(e)'
    <3>1. PICK m \in {n, n + 1} : m = Cardinality(Adders(e)')
      BY <2>2, <2>4, <2>5
    <3>2. stream[e] + m <= lapsed[e] + 1
      BY <2>6, <2>7, <3>1
    <3> QED
      BY <2>6, <3>1, <3>2
  <2>9. ASSUME NEW f \in Durable \ {e}
        PROVE  stream'[f] + Cardinality(Adders(f)') <= lapsed'[f] + Live(f)'
    BY <1>0, <2>1, <2>6
  <2> QED
    BY <2>8, <2>9 DEF Paid
<1>3. ASSUME NEW w \in Workers, NEW e \in Durable, Leaves(w, e)
      PROVE  Paid'
  <2>1. \A f \in Durable \ {e} : Adders(f)' = Adders(f) /\ stream'[f] = stream[f]
    BY <1>3, AddTyped DEF Leaves, Adders, Adding
  <2>2. Adders(e)' = Adders(e) \ {w} /\ w \in Adders(e)
    BY <1>3 DEF Leaves, Adders, Adding
  <2>3. Adders(e) \in SUBSET Workers
    BY DEF Adders
  <2>4. PICK n \in Nat : n = Cardinality(Adders(e))
    BY <2>3, AddersFinite
  <2>5. Cardinality(Adders(e) \ {w}) = n - 1
    BY <2>2, <2>3, <2>4, AddersFinite, FS_RemoveElement
  <2>6. \A f \in Durable : lapsed'[f] + Live(f)' = lapsed[f] + Live(f)
    BY <1>3 DEF Leaves, Live
  <2>7. stream'[e] \in {stream[e], stream[e] + 1} /\ stream[e] \in Nat /\ lapsed[e] \in Nat /\ Live(e) \in Nat
    BY <1>3, AddTyped DEF Leaves, Typed, Live
  <2>8. stream[e] + n <= lapsed[e] + Live(e)
    BY <2>4 DEF Paid
  <2>9. stream'[e] + Cardinality(Adders(e)') <= lapsed'[e] + Live(e)'
    BY <2>2, <2>4, <2>5, <2>6, <2>7, <2>8
  <2>10. ASSUME NEW f \in Durable \ {e}
         PROVE  stream'[f] + Cardinality(Adders(f)') <= lapsed'[f] + Live(f)'
    BY <1>0, <2>1, <2>6
  <2> QED
    BY <2>9, <2>10 DEF Paid
<1>4. ASSUME NEW e \in Durable, KeyExpires(e)
      PROVE  Paid'
  <2>1. \A f \in Durable : Adders(f)' = Adders(f) /\ stream'[f] = stream[f]
    BY <1>4 DEF KeyExpires, Adders, Adding
  <2>2. \A f \in Durable \ {e} : lapsed'[f] = lapsed[f] /\ Live(f)' = Live(f)
    BY <1>4 DEF KeyExpires, Live, Typed
  <2>3. lapsed'[e] = lapsed[e] + 1 /\ Live(e) = 1 /\ Live(e)' = 0 /\ lapsed[e] \in Nat
    BY <1>4 DEF KeyExpires, Live, Typed
  <2>4. ASSUME NEW f \in Durable
        PROVE  stream'[f] + Cardinality(Adders(f)') <= lapsed'[f] + Live(f)'
    <3>1. lapsed'[f] + Live(f)' = lapsed[f] + Live(f)
      BY <2>2, <2>3
    <3> QED
      BY <1>0, <2>1, <3>1
  <2> QED
    BY <2>4 DEF Paid
<1> QED
  BY <1>1, <1>2, <1>3, <1>4, StreamStep

LEMMA KeptStep == Typed /\ Held /\ Kept /\ [Next]_vars => Kept'
BY LedStep, PaidStep DEF Kept

LEMMA MarkedStep == Typed /\ Held /\ MarkedIsReserved /\ [Next]_vars => MarkedIsReserved'
<1> SUFFICES ASSUME Typed, Held, MarkedIsReserved, [Next]_vars, NEW e \in Outboxed \intersect Durable,
                    outbox'[e] # None, outbox'[e].status = "PUBLISHED"
             PROVE  Taken(e)'
  BY DEF MarkedIsReserved
<1> USE DEF redis, database, console, system
<1>1. CASE outbox'[e] = outbox[e]
  BY <1>1, Grows DEF MarkedIsReserved
<1>2. ASSUME NEW d \in Workers, MarkPublished(d), outbox'[e] # outbox[e]
      PROVE  Taken(e)'
  <2>1. worker[d].event = e
    BY <1>2 DEF MarkPublished, Typed
  <2> QED
    BY <1>2, <2>1, Grows DEF MarkPublished, At, Held, Fits
<1>3. ASSUME NEW d \in Workers, MarkFailed(d), outbox'[e] # outbox[e]
      PROVE  FALSE
  <2>1. outbox'[e] = Failed(outbox[e]) /\ outbox[e] \in Tried
    BY <1>3, HandFacts DEF MarkFailed, At, Places, Typed
  <2> QED
    BY <2>1 DEF Failed, Tried
<1>4. ASSUME NEW d \in Dispatchers, NEW batch \in SUBSET Outboxed, ClaimBatch(d, batch), outbox'[e] # outbox[e]
      PROVE  FALSE
  <2>1. outbox'[e] = [outbox[e] EXCEPT !.status = "PENDING"] /\ outbox[e] \in Tried
    BY <1>4 DEF ClaimBatch, Claimable, Typed
  <2> QED
    BY <2>1 DEF Tried
<1>5. ASSUME NEW f \in Outboxed, BecomesDue(f), outbox'[e] # outbox[e]
      PROVE  Taken(e)'
  <2>1. outbox'[e] = [outbox[e] EXCEPT !.due = TRUE] /\ outbox[e] \in Tried /\ outbox[e] # None
    BY <1>5 DEF BecomesDue, Typed
  <2>2. outbox[e].status = "PUBLISHED"
    BY <2>1 DEF Tried
  <2> QED
    BY <2>1, <2>2, Grows DEF MarkedIsReserved
<1>6. ASSUME NEW p \in Workers, Enqueue(p), outbox'[e] # outbox[e]
      PROVE  FALSE
  BY <1>6 DEF Enqueue, Typed
<1> QED
  BY <1>1, <1>2, <1>3, <1>4, <1>5, <1>6
     DEF Next, Proceed, Fault, PublishEvent, PublishDirectly, TakeRecord, Bury, Reserve, XAdd, Broadcast, RedisFails, ReplyLost,
         QueryFails, Crash, KeyExpires, SignsIn, OtherTab, SignsOut, Connect, Disconnect, ReadsRecent, RecentArrives, vars

(***************************************************************************)
(* How often a row is tried.  A claim looks at attempts, but a dispatcher  *)
(* that holds the row already may still fail after it: every dispatcher    *)
(* that holds a row stands for one more attempt it may come to.            *)
(***************************************************************************)
Trying == {"Reserve", "XAdd", "Broadcast", "MarkPublished", "MarkFailed"}
InHand(d, e) == e \in worker[d].batch \/ (worker[d].at \in Trying /\ worker[d].event = e)
Holders(e)   == {d \in Dispatchers : InHand(d, e)}

\* The record a dispatcher works at is no longer in its batch.
Apart == \A d \in Dispatchers : worker[d].at \in Places => worker[d].event \notin worker[d].batch
Counted ==
    \A e \in Outboxed : outbox[e] # None => outbox[e].attempts + Cardinality(Holders(e)) <= MostAttempts

LEMMA HoldersFinite ==
    \A S \in SUBSET Dispatchers : /\ IsFiniteSet(S) /\ Cardinality(S) \in Nat
                                  /\ Cardinality(S) <= Cardinality(Dispatchers)
BY FS_Subset, FS_CardinalityType, WorkersAssumption

\* The dispatcher d takes nothing into its hands that it did not have there.
TakesNoMore(d) ==
    /\ \A e \in Outboxed : InHand(d, e)' => InHand(d, e)
    /\ worker'[d].at \in Places => worker'[d].event \notin worker'[d].batch

LEMMA NextTakesNoMore ==
    ASSUME Typed, NEW d \in Workers, worker'[d] = [at |-> "Next", batch |-> worker[d].batch] \/ worker'[d] = Idle
    PROVE  TakesNoMore(d)
<1>1. worker'[d].at \notin Places /\ worker'[d].at \notin Trying /\ worker'[d].batch \subseteq worker[d].batch
  BY DEF Idle, Places, Trying
<1> QED
  BY <1>1 DEF TakesNoMore, InHand

LEMMA GoesTakesNoMore ==
    ASSUME Typed, Apart, NEW d \in Dispatchers, worker[d].at \in Trying, NEW place \in Places,
           Goto(d, place, worker[d].event)
    PROVE  TakesNoMore(d)
<1>1. worker'[d] = [at |-> place, batch |-> worker[d].batch, event |-> worker[d].event]
  BY GotoHand DEF Workers
<1>2. worker[d].event \notin worker[d].batch
  BY DEF Apart, Trying, Places
<1> QED
  BY <1>1, <1>2 DEF TakesNoMore, InHand

LEMMA WorkTakesNoMore ==
    ASSUME Typed, Held, Apart, NEW d \in Dispatchers, Proceed(d) \/ Fault(d)
    PROVE  TakesNoMore(d)
<1> USE DEF redis, database, console, system
<1>0. d \in Workers /\ d \notin Publishers /\ worker[d].at # "Logged"
  BY WorkersAssumption DEF Workers, Held, Fits
<1>1. ASSUME Proceeds(d) \/ worker' = [worker EXCEPT ![d] = Idle]
      PROVE  TakesNoMore(d)
  BY <1>0, <1>1, ProceedsHand, NextTakesNoMore DEF Typed
<1>2. ASSUME Fails(d), worker[d].at \in Trying
      PROVE  TakesNoMore(d)
  BY <1>0, <1>2, GoesTakesNoMore DEF Fails, Places
<1>3. CASE TakeRecord(d)
  <2>1. ASSUME NEW e \in worker[d].batch,
               worker' = [worker EXCEPT ![d] = [at |-> FirstStep(e), batch |-> worker[d].batch \ {e}, event |-> e]]
        PROVE  TakesNoMore(d)
    <3>1. worker'[d] = [at |-> FirstStep(e), batch |-> worker[d].batch \ {e}, event |-> e]
      BY <1>0, <2>1 DEF Typed
    <3> QED
      BY <3>1 DEF TakesNoMore, InHand
  <2> QED
    BY <1>1, <1>3, <2>1 DEF TakeRecord
<1>4. CASE Enqueue(d) \/ PublishDirectly(d)
  BY <1>0, <1>4 DEF Enqueue, PublishDirectly, At
<1>5. CASE MarkPublished(d) \/ Bury(d)
  BY <1>1, <1>5 DEF MarkPublished, Bury
<1>6. CASE MarkFailed(d) \/ Reserve(d) \/ XAdd(d) \/ Broadcast(d)
  BY <1>1, <1>6, GoesTakesNoMore DEF MarkFailed, Reserve, XAdd, Broadcast, At, Trying, Places
<1>7. CASE RedisFails(d) \/ ReplyLost(d)
  BY <1>2, <1>7 DEF RedisFails, ReplyLost, Trying
<1>8. CASE QueryFails(d) \/ Crash(d)
  BY <1>1, <1>2, <1>8 DEF QueryFails, Crash, At, Trying
<1> QED
  BY <1>3, <1>4, <1>5, <1>6, <1>7, <1>8 DEF Proceed, Fault

\* Every dispatcher lets go, works on, or claims rows that may still be tried.
LEMMA HandsStep ==
    ASSUME Typed, Held, Apart, [Next]_vars, NEW d \in Dispatchers
    PROVE  \/ TakesNoMore(d)
           \/ /\ worker'[d].at \notin Places
              /\ \A e \in Outboxed : InHand(d, e)' =>
                     outbox[e] # None /\ outbox[e].attempts < MaxAttempts /\ outbox'[e].attempts = outbox[e].attempts
<1>0. d \in Workers /\ d \notin Publishers
  BY WorkersAssumption DEF Workers
<1>1. CASE worker'[d] = worker[d]
  BY <1>1 DEF TakesNoMore, InHand, Apart
<1>2. CASE Proceed(d) \/ Fault(d)
  BY <1>2, WorkTakesNoMore
<1>3. ASSUME NEW batch \in SUBSET Outboxed, ClaimBatch(d, batch)
      PROVE  /\ worker'[d].at \notin Places
             /\ \A e \in Outboxed : InHand(d, e)' =>
                   outbox[e] # None /\ outbox[e].attempts < MaxAttempts /\ outbox'[e].attempts = outbox[e].attempts
  <2>1. worker'[d] = [at |-> "Next", batch |-> batch]
    BY <1>0, <1>3 DEF ClaimBatch, Typed
  <2>2. worker'[d].at \notin Places /\ \A e \in Outboxed : InHand(d, e)' => e \in batch
    BY <2>1 DEF InHand, Places, Trying
  <2>3. \A e \in batch : outbox[e] # None /\ outbox[e].attempts < MaxAttempts
    BY <1>3 DEF ClaimBatch, Claimable
  <2>4. \A e \in batch : outbox'[e] = [outbox[e] EXCEPT !.status = "PENDING"] /\ outbox[e] \in Tried
    BY <1>3, <2>3 DEF ClaimBatch, Typed
  <2>5. \A e \in batch : outbox'[e].attempts = outbox[e].attempts
    BY <2>4 DEF Tried
  <2> QED
    BY <2>2, <2>3, <2>5
<1>4. ASSUME NEW w \in Workers, w # d, Proceed(w) \/ Fault(w) \/ PublishEvent(w)
             \/ \E batch \in SUBSET Outboxed : ClaimBatch(w, batch)
      PROVE  worker'[d] = worker[d]
  <2>1. \E x : worker' = [worker EXCEPT ![w] = x]
    BY <1>4 DEF Proceed, Fault, PublishEvent, InsertEvent, Enqueue, PublishDirectly, TakeRecord, MarkPublished, MarkFailed, Bury,
         Reserve, XAdd, Broadcast, RedisFails, ReplyLost, QueryFails, Crash, ClaimBatch, Goto, Proceeds, Fails
  <2> QED
    BY <1>0, <1>4, <2>1 DEF Typed
<1> QED
  BY <1>0, <1>1, <1>2, <1>3, <1>4
     DEF Next, BecomesDue, KeyExpires, SignsIn, OtherTab, SignsOut, Connect, Disconnect, ReadsRecent, RecentArrives, vars, Workers, system

LEMMA ApartStep == ASSUME Typed, Held, Apart, [Next]_vars PROVE Apart'
BY HandsStep, Zenon DEF Apart, TakesNoMore

\* attempts is counted by MarkFailed only, and the dispatcher that counts lets go of the row.
LEMMA TriesStep ==
    ASSUME Typed, Held, Apart, [Next]_vars, NEW e \in Outboxed, outbox'[e] # None
    PROVE  \/ outbox[e] # None /\ outbox'[e].attempts = outbox[e].attempts
           \/ outbox'[e].attempts = 0
           \/ /\ outbox[e] # None /\ outbox'[e].attempts = outbox[e].attempts + 1
              /\ \E d \in Holders(e) : ~InHand(d, e)' /\ \A v \in Workers \ {d} : worker'[v] = worker[v]
<1> USE DEF redis, database, console, system
<1>1. CASE outbox'[e] = outbox[e]
  BY <1>1
<1>2. ASSUME NEW d \in Workers, MarkPublished(d) \/ MarkFailed(d), outbox'[e] # outbox[e]
      PROVE  /\ worker[d].event = e /\ outbox[e] \in Tried /\ d \in Dispatchers
             /\ worker[d].at \in {"MarkPublished", "MarkFailed"}
  BY <1>2, HandFacts DEF MarkPublished, MarkFailed, At, Places, Typed
<1>3. ASSUME NEW d \in Workers, MarkPublished(d), outbox'[e] # outbox[e]
      PROVE  outbox[e] # None /\ outbox'[e].attempts = outbox[e].attempts
  <2>1. outbox'[e] = [outbox[e] EXCEPT !.status = "PUBLISHED"] /\ outbox[e] \in Tried
    BY <1>2, <1>3 DEF MarkPublished, Typed
  <2> QED
    BY <2>1, TriedFacts DEF Tried
<1>4. ASSUME NEW d \in Workers, MarkFailed(d), outbox'[e] # outbox[e]
      PROVE  /\ outbox[e] # None /\ outbox'[e].attempts = outbox[e].attempts + 1
             /\ d \in Holders(e) /\ ~InHand(d, e)' /\ \A v \in Workers \ {d} : worker'[v] = worker[v]
  <2>1. outbox'[e] = Failed(outbox[e]) /\ outbox[e] \in Tried
    BY <1>2, <1>4 DEF MarkFailed, Typed
  <2>2. outbox'[e].attempts = outbox[e].attempts + 1
    BY <2>1 DEF Failed, Tried
  <2>3. /\ worker'[d] = [at |-> "Bury", batch |-> worker[d].batch, event |-> e]
        /\ \A v \in Workers \ {d} : worker'[v] = worker[v]
    BY <1>2, <1>4, GotoHand DEF MarkFailed
  <2>4. worker[d].at = "MarkFailed" /\ e \notin worker[d].batch /\ d \in Dispatchers
    BY <1>2, <1>4 DEF MarkFailed, At, Apart, Places
  <2> QED
    BY <1>2, <1>4, <2>1, <2>2, <2>3, <2>4, TriedFacts DEF Holders, InHand, Trying
<1>5. ASSUME NEW d \in Dispatchers, NEW batch \in SUBSET Outboxed, ClaimBatch(d, batch), outbox'[e] # outbox[e]
      PROVE  outbox[e] # None /\ outbox'[e].attempts = outbox[e].attempts
  <2>1. outbox'[e] = [outbox[e] EXCEPT !.status = "PENDING"] /\ outbox[e] # None /\ outbox[e] \in Tried
    BY <1>5 DEF ClaimBatch, Claimable, Typed
  <2> QED
    BY <2>1 DEF Tried
<1>6. ASSUME NEW f \in Outboxed, BecomesDue(f), outbox'[e] # outbox[e]
      PROVE  outbox[e] # None /\ outbox'[e].attempts = outbox[e].attempts
  <2>1. outbox'[e] = [outbox[e] EXCEPT !.due = TRUE] /\ outbox[e] # None /\ outbox[e] \in Tried
    BY <1>6 DEF BecomesDue, Typed
  <2> QED
    BY <2>1 DEF Tried
<1>7. ASSUME NEW p \in Workers, Enqueue(p), outbox'[e] # outbox[e]
      PROVE  outbox'[e].attempts = 0
  <2>1. outbox'[e] = [status |-> "PENDING", attempts |-> 0, due |-> TRUE]
    BY <1>7 DEF Enqueue, Typed
  <2> QED
    BY <2>1
<1> QED
  BY <1>1, <1>3, <1>4, <1>5, <1>6, <1>7
     DEF Next, Proceed, Fault, PublishEvent, PublishDirectly, TakeRecord, Bury, Reserve, XAdd, Broadcast, RedisFails, ReplyLost,
         QueryFails, Crash, KeyExpires, SignsIn, OtherTab, SignsOut, Connect, Disconnect, ReadsRecent, RecentArrives, vars

LEMMA CountedStep ==
    ASSUME Typed, Held, Apart, Counted, [Next]_vars
    PROVE  Counted'
<1> SUFFICES ASSUME NEW e \in Outboxed, outbox'[e] # None
             PROVE  outbox'[e].attempts + Cardinality(Holders(e)') <= MostAttempts
  BY DEF Counted
<1>1. /\ Holders(e) \in SUBSET Dispatchers /\ Holders(e)' \in SUBSET Dispatchers
  BY DEF Holders
<1>2. PICK n \in Nat, m \in Nat, k \in Nat :
        n = Cardinality(Holders(e)) /\ m = Cardinality(Holders(e)') /\ k = Cardinality(Dispatchers) /\ m <= k
  BY <1>1, HoldersFinite
<1>3. MostAttempts = MaxAttempts + k - 1 /\ MaxAttempts \in Nat /\ MaxAttempts >= 1
  BY <1>2, OutboxBoundsAssumption DEF MostAttempts
<1>4. outbox[e] # None => outbox[e].attempts \in Nat
  BY DEF Typed, Tried
<1>5. CASE outbox'[e].attempts = 0
  BY <1>2, <1>3, <1>5
<1>6. CASE outbox[e] # None /\ outbox'[e].attempts = outbox[e].attempts
  <2>1. outbox[e].attempts + n <= MostAttempts
    BY <1>2, <1>6 DEF Counted
  <2>2. CASE Holders(e)' \subseteq Holders(e)
    <3>1. m <= n
      BY <1>1, <1>2, <2>2, HoldersFinite, FS_Subset
    <3> QED
      BY <1>2, <1>3, <1>4, <1>6, <2>1, <3>1
  <2>3. ASSUME NEW d \in Dispatchers, InHand(d, e)', ~InHand(d, e)
        PROVE  outbox[e].attempts < MaxAttempts
    BY <2>3, HandsStep DEF TakesNoMore
  <2>4. CASE outbox[e].attempts < MaxAttempts
    BY <1>2, <1>3, <1>4, <1>6, <2>4
  <2> QED
    BY <2>2, <2>3, <2>4 DEF Holders
<1>7. ASSUME outbox[e] # None, outbox'[e].attempts = outbox[e].attempts + 1,
             NEW d \in Holders(e), ~InHand(d, e)', \A v \in Workers \ {d} : worker'[v] = worker[v]
      PROVE  outbox'[e].attempts + Cardinality(Holders(e)') <= MostAttempts
  <2>1. outbox[e].attempts + n <= MostAttempts
    BY <1>2, <1>7 DEF Counted
  <2>2. Holders(e)' \subseteq Holders(e) \ {d}
    <3>1. \A v \in Dispatchers \ {d} : InHand(v, e)' => InHand(v, e)
      BY <1>7 DEF InHand, Workers
    <3> QED
      BY <1>7, <3>1 DEF Holders
  <2>3. IsFiniteSet(Holders(e) \ {d}) /\ Cardinality(Holders(e) \ {d}) = n - 1
    BY <1>1, <1>2, <1>7, HoldersFinite, FS_RemoveElement
  <2>4. m <= n - 1
    BY <1>2, <2>2, <2>3, FS_Subset
  <2> QED
    BY <1>2, <1>3, <1>4, <1>7, <2>1, <2>4
<1> QED
  BY <1>5, <1>6, <1>7, TriesStep

(***************************************************************************)
(* How often a row is buried.  While it may be claimed it has no dead      *)
(* letter; from then on every dispatcher that holds it, or has just failed *)
(* it, stands for one dead letter it may still write.                      *)
(***************************************************************************)
Burying(d, e) == worker[d].at = "Bury" /\ worker[d].event = e
Concerned(e)  == {d \in Dispatchers : InHand(d, e) \/ Burying(d, e)}
Interred ==
    \A e \in Outboxed :
        /\ outbox[e] = None => buried[e] = 0
        /\ outbox[e] # None =>
              /\ outbox[e].attempts < MaxAttempts => buried[e] = 0 /\ outbox[e].status # "DEAD_LETTER"
              /\ outbox[e].attempts >= MaxAttempts =>
                     buried[e] + Cardinality(Concerned(e)) <= Cardinality(Dispatchers)

LEMMA BuriesAfterFailing ==
    ASSUME Typed, [Next]_vars, NEW d \in Workers, worker'[d] # worker[d], worker'[d].at = "Bury"
    PROVE  MarkFailed(d)
<1> USE DEF redis, database, console, system
<1>1. ASSUME NEW place, NEW e, Goto(d, place, e)
      PROVE  place = "Bury"
  <2>1. worker'[d] = [at |-> place, batch |-> worker[d].batch, event |-> e]
    BY <1>1, GotoHand
  <2> QED
    BY <2>1
<1>2. ~Proceeds(d) /\ worker' # [worker EXCEPT ![d] = Idle]
  <2>1. worker'[d] # Idle /\ worker'[d] # [at |-> "Next", batch |-> worker[d].batch]
    BY DEF Idle
  <2>2. ~Proceeds(d)
    BY <2>1, ProceedsHand
  <2>3. worker' # [worker EXCEPT ![d] = Idle]
    BY <2>1 DEF Typed
  <2> QED
    BY <2>2, <2>3
<1>3. ~Fails(d)
  BY <1>1, <1>2 DEF Fails
<1>4. \A p \in Publishers : p = d => ~PublishEvent(p)
  BY <1>1 DEF PublishEvent, InsertEvent
<1>5. ~TakeRecord(d)
  <2>1. SUFFICES ASSUME NEW e, worker' = [worker EXCEPT ![d] = [at |-> FirstStep(e), batch |-> worker[d].batch \ {e}, event |-> e]]
                 PROVE  FALSE
    BY <1>2 DEF TakeRecord
  <2> QED
    BY <2>1 DEF FirstStep, Typed
<1>6. ~Enqueue(d) /\ ~PublishDirectly(d) /\ ~MarkPublished(d) /\ ~Bury(d) /\ ~Reserve(d) /\ ~XAdd(d) /\ ~Broadcast(d)
  BY <1>1, <1>2 DEF Enqueue, PublishDirectly, MarkPublished, Bury, Reserve, XAdd, Broadcast, FirstStep
<1>7. ~Fault(d)
  BY <1>2, <1>3 DEF Fault, RedisFails, ReplyLost, QueryFails, Crash
<1>8. \A batch : d \in Dispatchers => ~ClaimBatch(d, batch)
  BY DEF ClaimBatch, Typed
<1>9. ASSUME NEW w \in Workers, w # d, Proceed(w) \/ Fault(w) \/ PublishEvent(w)
             \/ \E batch \in SUBSET Outboxed : ClaimBatch(w, batch)
      PROVE  FALSE
  <2>1. \E x : worker' = [worker EXCEPT ![w] = x]
    BY <1>9 DEF Proceed, Fault, PublishEvent, InsertEvent, Enqueue, PublishDirectly, TakeRecord, MarkPublished, MarkFailed, Bury,
         Reserve, XAdd, Broadcast, RedisFails, ReplyLost, QueryFails, Crash, ClaimBatch, Goto, Proceeds, Fails
  <2> QED
    BY <1>9, <2>1 DEF Typed
<1> QED
  BY <1>4, <1>5, <1>6, <1>7, <1>8, <1>9
     DEF Next, Proceed, BecomesDue, KeyExpires, SignsIn, OtherTab, SignsOut, Connect, Disconnect, ReadsRecent, RecentArrives, vars,
         Workers

\* A dispatcher that is not concerned with a row comes to be by a claim only.
LEMMA ConcernedStep ==
    ASSUME Typed, Held, Apart, [Next]_vars, NEW e \in Outboxed, outbox[e] # None, outbox[e].attempts >= MaxAttempts
    PROVE  Concerned(e)' \subseteq Concerned(e)
<1> SUFFICES ASSUME NEW d \in Dispatchers, (InHand(d, e) \/ Burying(d, e))'
             PROVE  InHand(d, e) \/ Burying(d, e)
  BY DEF Concerned
<1>0. d \in Workers /\ outbox[e].attempts \in Nat /\ MaxAttempts \in Nat
  BY OutboxBoundsAssumption DEF Workers, Typed, Tried
<1>1. CASE InHand(d, e)'
  BY <1>0, <1>1, HandsStep DEF TakesNoMore
<1>2. CASE Burying(d, e)' /\ worker'[d] = worker[d]
  BY <1>2 DEF Burying
<1>3. CASE Burying(d, e)' /\ worker'[d] # worker[d]
  <2>1. MarkFailed(d)
    BY <1>0, <1>3, BuriesAfterFailing DEF Burying
  <2>2. worker'[d] = [at |-> "Bury", batch |-> worker[d].batch, event |-> worker[d].event] /\ worker[d].at = "MarkFailed"
    BY <1>0, <2>1, GotoHand DEF MarkFailed, At
  <2> QED
    BY <1>3, <2>2 DEF Burying, InHand, Trying
<1> QED
  BY <1>1, <1>2, <1>3

\* What becomes of a row: its attempts stay and it is no dead letter if it was none, it is new, or it
\* has failed once more.
LEMMA RowStep ==
    ASSUME Typed, Held, [Next]_vars, NEW e \in Outboxed, outbox'[e] # None
    PROVE  \/ /\ outbox[e] # None /\ outbox'[e].attempts = outbox[e].attempts
              /\ outbox'[e].status \in {outbox[e].status, "PENDING", "PUBLISHED"}
           \/ outbox[e] = None /\ outbox'[e].attempts = 0 /\ outbox'[e].status = "PENDING"
           \/ /\ outbox[e] # None /\ outbox'[e].attempts = outbox[e].attempts + 1
              /\ outbox'[e].status = "DEAD_LETTER" => outbox'[e].attempts >= MaxAttempts
<1> USE DEF redis, database, console, system
<1>1. CASE outbox'[e] = outbox[e]
  BY <1>1
<1>2. ASSUME NEW d \in Workers, MarkPublished(d), outbox'[e] # outbox[e]
      PROVE  /\ outbox[e] # None /\ outbox'[e].attempts = outbox[e].attempts /\ outbox'[e].status = "PUBLISHED"
  <2>1. outbox'[e] = [outbox[e] EXCEPT !.status = "PUBLISHED"] /\ outbox[e] \in Tried
    BY <1>2, HandFacts DEF MarkPublished, At, Places, Typed
  <2> QED
    BY <2>1, TriedFacts DEF Tried
<1>3. ASSUME NEW d \in Workers, MarkFailed(d), outbox'[e] # outbox[e]
      PROVE  /\ outbox[e] # None /\ outbox'[e].attempts = outbox[e].attempts + 1
             /\ outbox'[e].status = "DEAD_LETTER" => outbox'[e].attempts >= MaxAttempts
  <2>1. outbox'[e] = Failed(outbox[e]) /\ outbox[e] \in Tried
    BY <1>3, HandFacts DEF MarkFailed, At, Places, Typed
  <2>2. outbox'[e].attempts = outbox[e].attempts + 1
    BY <2>1 DEF Failed, Tried
  <2>3. outbox'[e].status = IF outbox[e].attempts + 1 >= MaxAttempts THEN "DEAD_LETTER" ELSE "FAILED"
    BY <2>1 DEF Failed, Tried
  <2> QED
    BY <2>1, <2>2, <2>3, TriedFacts
<1>4. ASSUME NEW d \in Dispatchers, NEW batch \in SUBSET Outboxed, ClaimBatch(d, batch), outbox'[e] # outbox[e]
      PROVE  outbox[e] # None /\ outbox'[e].attempts = outbox[e].attempts /\ outbox'[e].status = "PENDING"
  <2>1. outbox'[e] = [outbox[e] EXCEPT !.status = "PENDING"] /\ outbox[e] # None /\ outbox[e] \in Tried
    BY <1>4 DEF ClaimBatch, Claimable, Typed
  <2> QED
    BY <2>1 DEF Tried
<1>5. ASSUME NEW f \in Outboxed, BecomesDue(f), outbox'[e] # outbox[e]
      PROVE  outbox[e] # None /\ outbox'[e].attempts = outbox[e].attempts /\ outbox'[e].status = outbox[e].status
  <2>1. outbox'[e] = [outbox[e] EXCEPT !.due = TRUE] /\ outbox[e] # None /\ outbox[e] \in Tried
    BY <1>5 DEF BecomesDue, Typed
  <2> QED
    BY <2>1 DEF Tried
<1>6. ASSUME NEW p \in Workers, Enqueue(p), outbox'[e] # outbox[e]
      PROVE  outbox[e] = None /\ outbox'[e].attempts = 0 /\ outbox'[e].status = "PENDING"
  <2>1. outbox[e] = None /\ outbox'[e] = [status |-> "PENDING", attempts |-> 0, due |-> TRUE]
    BY <1>6 DEF Enqueue, Typed
  <2> QED
    BY <2>1
<1> QED
  BY <1>1, <1>2, <1>3, <1>4, <1>5, <1>6
     DEF Next, Proceed, Fault, PublishEvent, PublishDirectly, TakeRecord, Bury, Reserve, XAdd, Broadcast, RedisFails, ReplyLost,
         QueryFails, Crash, KeyExpires, SignsIn, OtherTab, SignsOut, Connect, Disconnect, ReadsRecent, RecentArrives, vars

\* A dead letter is written by a dispatcher that then lets go of the row.
LEMMA BuriedStep ==
    ASSUME Typed, Held, Apart, [Next]_vars, NEW e \in Outboxed, buried'[e] # buried[e]
    PROVE  /\ outbox[e] # None /\ outbox[e].status = "DEAD_LETTER" /\ outbox' = outbox /\ buried'[e] = buried[e] + 1
           /\ \E d \in Concerned(e) : d \notin Concerned(e)'
<1> USE DEF redis, database, console, system
<1>1. ASSUME NEW d \in Workers, Bury(d)
      PROVE  /\ outbox[e] # None /\ outbox[e].status = "DEAD_LETTER" /\ outbox' = outbox /\ buried'[e] = buried[e] + 1
             /\ d \in Concerned(e) /\ d \notin Concerned(e)'
  <2>1. worker[d].event \in Outboxed /\ d \in Dispatchers /\ outbox[worker[d].event] \in Tried /\ worker[d].at = "Bury"
    BY <1>1, HandFacts DEF Bury, At, Places
  <2>2. worker[d].event = e /\ outbox[e].status = "DEAD_LETTER" /\ buried'[e] = buried[e] + 1
    BY <1>1, <2>1 DEF Bury, Typed
  <2>3. worker'[d] = [at |-> "Next", batch |-> worker[d].batch] /\ e \notin worker[d].batch
    BY <1>1, <2>1, <2>2, ProceedsHand, WorkersAssumption DEF Bury, Apart, Places
  <2>4. ~InHand(d, e)' /\ ~Burying(d, e)'
    BY <2>3 DEF InHand, Burying, Trying
  <2> QED
    BY <1>1, <2>1, <2>2, <2>4, TriedFacts DEF Bury, Concerned, Burying
<1> QED
  BY <1>1
     DEF Next, Proceed, Fault, PublishEvent, PublishDirectly, TakeRecord, Enqueue, MarkPublished, MarkFailed, Reserve, XAdd,
         Broadcast, RedisFails, ReplyLost, ClaimBatch, BecomesDue,
         QueryFails, Crash, KeyExpires, SignsIn, OtherTab, SignsOut, Connect, Disconnect, ReadsRecent, RecentArrives, vars

LEMMA InterredStep ==
    ASSUME Typed, Held, Apart, Interred, [Next]_vars
    PROVE  Interred'
<1> SUFFICES ASSUME NEW e \in Outboxed
             PROVE  /\ outbox'[e] = None => buried'[e] = 0
                    /\ outbox'[e] # None =>
                          /\ outbox'[e].attempts < MaxAttempts => buried'[e] = 0 /\ outbox'[e].status # "DEAD_LETTER"
                          /\ outbox'[e].attempts >= MaxAttempts =>
                                 buried'[e] + Cardinality(Concerned(e)') <= Cardinality(Dispatchers)
  BY DEF Interred
<1>1. Concerned(e) \in SUBSET Dispatchers /\ Concerned(e)' \in SUBSET Dispatchers
  BY DEF Concerned
<1>2. PICK n \in Nat, m \in Nat, k \in Nat :
        n = Cardinality(Concerned(e)) /\ m = Cardinality(Concerned(e)') /\ k = Cardinality(Dispatchers) /\ m <= k
  BY <1>1, HoldersFinite
<1>3. /\ MaxAttempts \in Nat /\ MaxAttempts >= 1 /\ buried[e] \in Nat
      /\ outbox[e] # None => outbox[e].attempts \in Nat
  BY OutboxBoundsAssumption DEF Typed, Tried
<1>4. CASE buried'[e] # buried[e]
  <2>1. PICK d \in Concerned(e) : d \notin Concerned(e)'
    BY <1>4, BuriedStep
  <2>2. outbox[e] # None /\ outbox[e].status = "DEAD_LETTER" /\ outbox' = outbox /\ buried'[e] = buried[e] + 1
    BY <1>4, BuriedStep
  <2>3. outbox[e].attempts >= MaxAttempts /\ buried[e] + n <= k
    BY <1>2, <1>3, <2>2 DEF Interred
  <2>4. Concerned(e)' \subseteq Concerned(e) \ {d}
    BY <2>1, <2>2, <2>3, ConcernedStep
  <2>5. IsFiniteSet(Concerned(e) \ {d}) /\ Cardinality(Concerned(e) \ {d}) = n - 1
    BY <1>1, <1>2, HoldersFinite, FS_RemoveElement
  <2>6. m <= n - 1
    BY <1>2, <2>4, <2>5, FS_Subset
  <2> QED
    BY <1>2, <1>3, <2>2, <2>3, <2>6
<1>5. CASE buried'[e] = buried[e] /\ outbox'[e] = None
  <2>1. outbox[e] = None
    BY <1>5, Grows DEF Rows
  <2> QED
    BY <1>5, <2>1 DEF Interred
<1>6. CASE buried'[e] = buried[e] /\ outbox'[e] # None
  <2>1. CASE outbox[e] = None
    <3>1. outbox'[e].attempts = 0 /\ outbox'[e].status = "PENDING"
      BY <1>6, <2>1, RowStep
    <3> QED
      BY <1>3, <1>6, <2>1, <3>1 DEF Interred
  <2>2. CASE outbox[e] # None /\ outbox[e].attempts >= MaxAttempts
    <3>1. outbox'[e].attempts >= MaxAttempts
      BY <1>3, <1>6, <2>2, RowStep
    <3>2. IsFiniteSet(Concerned(e)) /\ Concerned(e)' \subseteq Concerned(e)
      BY <1>1, <2>2, HoldersFinite, ConcernedStep
    <3>3. m <= n
      BY <1>2, <3>2, FS_Subset
    <3>4. buried[e] + n <= k
      BY <1>2, <2>2 DEF Interred
    <3>5. ~(outbox'[e].attempts < MaxAttempts)
      BY <1>3, <1>6, <2>2, RowStep
    <3> QED
      BY <1>2, <1>3, <1>6, <3>3, <3>4, <3>5
  <2>3. CASE outbox[e] # None /\ ~(outbox[e].attempts >= MaxAttempts)
    <3>1. buried[e] = 0 /\ outbox[e].status # "DEAD_LETTER"
      BY <1>3, <2>3 DEF Interred
    <3>2. outbox'[e].attempts < MaxAttempts => outbox'[e].status # "DEAD_LETTER"
      BY <1>3, <1>6, <2>3, <3>1, RowStep
    <3> QED
      BY <1>2, <1>3, <1>6, <3>1, <3>2
  <2> QED
    BY <2>1, <2>2, <2>3
<1> QED
  BY <1>4, <1>5, <1>6

(***************************************************************************)
(* The page.                                                               *)
(***************************************************************************)
\* What the log would list for the user of a page and those its stream was opened as.
Shareable(pg) == UNION {Listed(u) : u \in {pg.user} \union pg.guests}
\* A page that is signed out has no stream, a stream is the user's or a guest's, and only requests
\* served as one of them may still fill the page.
PageFits(pg) ==
    IF pg.user = Everyone THEN pg.shown = {} /\ pg.as = Everyone
    ELSE pg.shown \subseteq Shareable(pg) /\ pg.as \in {Everyone, pg.user} \union pg.guests
RequestFits(c, q) ==
    /\ q.alive => page[c].user # Everyone /\ q.user \in {page[c].user} \union page[c].guests
    /\ q.read => q.rows \subseteq Listed(q.user)
ShownSafe ==
    /\ \A c \in Clients : PageFits(page[c])
    /\ \A c \in Clients : \A q \in asked[c] : RequestFits(c, q)

LEMMA InitShown == Init => ShownSafe
BY DEF Init, ShownSafe, PageFits, RequestFits, SignedOut

LEMMA ListedGrows ==
    ASSUME Typed, Held, [Next]_vars
    PROVE  \A u : Listed(u) \subseteq Listed(u)'
BY Grows DEF Listed

\* A page that changes in nothing but its connection, or that gets guests, still fits.
LEMMA PageStays ==
    ASSUME Typed, Held, [Next]_vars, NEW c \in Clients, PageFits(page[c]),
           page'[c].user = page[c].user, page'[c].shown = page[c].shown, page[c].guests \subseteq page'[c].guests,
           page'[c].as \in {Everyone, page[c].as} \union (IF page[c].user = Everyone THEN {} ELSE {page[c].user} \union page'[c].guests)
    PROVE  PageFits(page[c])'
<1>1. CASE page[c].user = Everyone
  BY <1>1 DEF PageFits
<1>2. CASE page[c].user # Everyone
  <2>1. ASSUME NEW x \in page[c].shown
        PROVE  \E u \in {page'[c].user} \union page'[c].guests : x \in Listed(u)'
    <3>1. PICK u \in {page[c].user} \union page[c].guests : x \in Listed(u)
      BY <1>2 DEF PageFits, Shareable
    <3> QED
      BY <3>1, ListedGrows
  <2>2. page'[c].shown \subseteq Shareable(page[c])'
    BY <2>1 DEF Shareable
  <2>3. page'[c].as \in {Everyone, page'[c].user} \union page'[c].guests
    BY <1>2 DEF PageFits
  <2> QED
    BY <1>2, <2>2, <2>3 DEF PageFits
<1> QED
  BY <1>1, <1>2

\* The broadcast brings an event that is in the log to the pages it is for.
LEMMA HearStep ==
    ASSUME Typed, Held, ShownSafe, [Next]_vars, NEW e \in log, Hear(e)
    PROVE  ShownSafe'
<1>1. ASSUME NEW c \in Clients
      PROVE  page'[c].user = page[c].user /\ page'[c].guests = page[c].guests /\ PageFits(page[c])'
  <2>1. page[c] \in Page
        /\ page'[c] = IF page[c].as # Everyone /\ VisibleTo(e, page[c].as) THEN Appends(page[c], e) ELSE page[c]
    BY <1>1 DEF Typed, Hear
  <2>2. PageFits(page[c])
    BY DEF ShownSafe
  <2>3. CASE page'[c] = page[c]
    BY <2>2, <2>3, PageStays
  <2>4. CASE page[c].as # Everyone /\ VisibleTo(e, page[c].as) /\ page'[c] = Appends(page[c], e)
    <3>1. /\ page'[c].user = page[c].user /\ page'[c].shown = page[c].shown \union {e}
          /\ page'[c].guests = page[c].guests /\ page'[c].as = page[c].as
      BY <2>1, <2>4 DEF Appends, Page
    <3>2. page[c].user # Everyone /\ page[c].as \in {page[c].user} \union page[c].guests /\ e \in Listed(page[c].as)
      BY <2>2, <2>4 DEF PageFits, VisibleTo, Listed
    <3>3. ASSUME NEW x \in page[c].shown \union {e}
          PROVE  \E u \in {page'[c].user} \union page'[c].guests : x \in Listed(u)'
      <4>1. PICK u \in {page[c].user} \union page[c].guests : x \in Listed(u)
        BY <2>2, <3>2, <3>3 DEF PageFits, Shareable
      <4> QED
        BY <3>1, <4>1, ListedGrows
    <3>4. page'[c].shown \subseteq Shareable(page[c])'
      BY <3>1, <3>3 DEF Shareable
    <3> QED
      BY <3>1, <3>2, <3>4 DEF PageFits
  <2> QED
    BY <2>1, <2>3, <2>4
<1>2. ASSUME NEW c \in Clients, NEW q \in asked'[c]
      PROVE  RequestFits(c, q)'
  <2>1. RequestFits(c, q) /\ page'[c].user = page[c].user /\ page'[c].guests = page[c].guests
    BY <1>1, <1>2 DEF Hear, ShownSafe
  <2> QED
    BY <2>1, ListedGrows DEF RequestFits
<1> QED
  BY <1>1, <1>2 DEF ShownSafe

\* The two ways its connection changes.
LEMMA StreamChanges ==
    ASSUME Typed, Held, ShownSafe, [Next]_vars, NEW c \in Clients, Connect(c) \/ Disconnect(c)
    PROVE  PageFits(page[c])' /\ page'[c].user = page[c].user /\ page[c].guests \subseteq page'[c].guests
<1>1. page[c] \in Page /\ PageFits(page[c]) /\ page \in [Clients -> Page]
  BY DEF Typed, ShownSafe
<1>2. CASE Connect(c)
  <2>1. cookie[c] \in Users /\ page'[c] = StreamsAs(page[c], cookie[c])
    BY <1>1, <1>2 DEF Connect, Typed, Visitor
  <2>2. /\ page'[c].user = page[c].user /\ page'[c].shown = page[c].shown /\ page'[c].as = cookie[c]
        /\ page'[c].guests = page[c].guests \union ({cookie[c]} \ {page[c].user})
    BY <1>1, <2>1, OpenedFacts
  <2>3. page'[c].as \in {page[c].user} \union page'[c].guests /\ page[c].user # Everyone
    BY <1>2, <2>2 DEF Connect
  <2>4. page'[c].as \in {Everyone, page[c].as} \union (IF page[c].user = Everyone THEN {} ELSE {page[c].user} \union page'[c].guests)
    BY <2>3
  <2>5. page[c].guests \subseteq page'[c].guests
    BY <2>2
  <2>6. PageFits(page[c])'
    BY <1>1, <2>2, <2>4, <2>5, PageStays
  <2> QED
    BY <2>2, <2>6
<1>3. CASE Disconnect(c)
  <2>1. page'[c] = [page[c] EXCEPT !.as = Everyone]
    BY <1>1, <1>3 DEF Disconnect
  <2>2. /\ page'[c].user = page[c].user /\ page'[c].shown = page[c].shown
        /\ page'[c].guests = page[c].guests /\ page'[c].as = Everyone
    BY <1>1, <2>1 DEF Page
  <2>3. PageFits(page[c])'
    BY <1>1, <2>2, PageStays
  <2> QED
    BY <2>2, <2>3
<1> QED
  BY <1>2, <1>3

LEMMA ShownStep == Typed /\ Held /\ ShownSafe /\ [Next]_vars => ShownSafe'
<1> SUFFICES ASSUME Typed, Held, ShownSafe, [Next]_vars PROVE ShownSafe'
  OBVIOUS
<1> USE DEF redis, database, console, system
<1>0. ASSUME UNCHANGED <<page, asked>>
      PROVE  ShownSafe'
  <2>1. \A c \in Clients : PageFits(page[c])'
    BY <1>0, PageStays DEF ShownSafe
  <2>2. \A c \in Clients : \A q \in asked'[c] : RequestFits(c, q)'
    BY <1>0, ListedGrows DEF ShownSafe, RequestFits
  <2> QED
    BY <2>1, <2>2 DEF ShownSafe
\* One page changes, and its requests.
<1>1. ASSUME NEW c \in Clients, \A d \in Clients \ {c} : page'[d] = page[d] /\ asked'[d] = asked[d],
             PageFits(page[c])', \A q \in asked'[c] : RequestFits(c, q)'
      PROVE  ShownSafe'
  <2>1. \A d \in Clients \ {c} : PageFits(page[d])'
    BY <1>1, PageStays DEF ShownSafe
  <2>2. \A d \in Clients \ {c} : \A q \in asked'[d] : RequestFits(d, q)'
    BY <1>1, ListedGrows DEF ShownSafe, RequestFits
  <2> QED
    BY <1>1, <2>1, <2>2 DEF ShownSafe
<1>2. ASSUME NEW w \in Workers, Broadcast(w)
      PROVE  ShownSafe'
  BY <1>2, HandFacts, HearStep DEF Broadcast, At, Places
<1>3. ASSUME NEW w \in Workers, ReplyLost(w)
      PROVE  ShownSafe'
  BY <1>0, <1>3, HandFacts, HearStep DEF ReplyLost, At, Places
<1>4. ASSUME NEW w \in Workers, Crash(w)
      PROVE  ShownSafe'
  <2>1. ASSUME NEW c \in Clients
        PROVE  page'[c].user = page[c].user /\ page'[c].guests = page[c].guests /\ PageFits(page[c])'
    <3>1. page[c] \in Page /\ PageFits(page[c]) /\ page'[c] \in {page[c], [page[c] EXCEPT !.as = Everyone]}
      BY <1>4 DEF Crash, Typed, ShownSafe
    <3>2. /\ page'[c].user = page[c].user /\ page'[c].shown = page[c].shown /\ page'[c].guests = page[c].guests
          /\ page'[c].as \in {Everyone, page[c].as}
      BY <3>1 DEF Page
    <3> QED
      BY <3>1, <3>2, PageStays
  <2>2. \A c \in Clients : \A q \in asked'[c] : RequestFits(c, q)'
    BY <1>4, <2>1, ListedGrows DEF Crash, ShownSafe, RequestFits
  <2> QED
    BY <2>1, <2>2 DEF ShownSafe
<1>5. ASSUME NEW c \in Clients, NEW u \in Users, SignsIn(c, u)
      PROVE  ShownSafe'
  <2>1. page'[c] = [SignedOut EXCEPT !.user = u] /\ page[c] = SignedOut
    BY <1>5 DEF SignsIn, Typed
  <2>2. page'[c].user = u /\ page'[c].shown = {} /\ page'[c].as = Everyone /\ u # Everyone /\ page[c].user = Everyone
    BY <2>1, OwnersAssumption DEF SignedOut
  <2>3. asked'[c] = asked[c] \union {[user |-> u, alive |-> TRUE, read |-> FALSE, rows |-> {}]}
    BY <1>5 DEF SignsIn, Typed
  <2>4. ASSUME NEW q \in asked[c]
        PROVE  RequestFits(c, q)'
    <3>1. q.user \in Users /\ RequestFits(c, q)
      BY DEF Typed, Request, ShownSafe
    <3>2. ~q.alive
      BY <2>2, <3>1 DEF RequestFits
    <3> QED
      BY <3>1, <3>2, ListedGrows DEF RequestFits
  <2>5. \A q \in asked'[c] : RequestFits(c, q)'
    BY <2>2, <2>3, <2>4 DEF RequestFits
  <2>6. PageFits(page[c])'
    BY <2>2 DEF PageFits
  <2> QED
    BY <1>1, <1>5, <2>5, <2>6 DEF SignsIn, Typed
<1>6. ASSUME NEW c \in Clients, SignsOut(c)
      PROVE  ShownSafe'
  <2>1. page'[c] = SignedOut /\ asked'[c] = {[q EXCEPT !.alive = FALSE] : q \in asked[c]}
    BY <1>6 DEF SignsOut, Typed
  <2>2. PageFits(page[c])'
    BY <2>1 DEF PageFits, SignedOut
  <2>3. ASSUME NEW q \in asked[c]
        PROVE  RequestFits(c, [q EXCEPT !.alive = FALSE])'
    <3>1. q \in Request /\ RequestFits(c, q)
      BY DEF Typed, ShownSafe
    <3>2. PICK r : r = [q EXCEPT !.alive = FALSE]
      OBVIOUS
    <3>3. ~r.alive /\ r.read = q.read /\ r.rows = q.rows /\ r.user = q.user
      BY <3>1, <3>2 DEF Request
    <3> QED
      BY <3>1, <3>2, <3>3, ListedGrows DEF RequestFits
  <2>4. \A q \in asked'[c] : RequestFits(c, q)'
    BY <2>1, <2>3
  <2>5. \A d \in Clients \ {c} : page'[d] = page[d] /\ asked'[d] = asked[d]
    BY <1>6 DEF SignsOut, Typed
  <2> QED
    BY <1>1, <2>2, <2>4, <2>5
<1>7. ASSUME NEW c \in Clients, Connect(c) \/ Disconnect(c)
      PROVE  ShownSafe'
  <2>1. PageFits(page[c])' /\ page'[c].user = page[c].user /\ page[c].guests \subseteq page'[c].guests
    BY <1>7, StreamChanges
  <2>2. \A q \in asked'[c] : RequestFits(c, q)'
    BY <1>7, <2>1, ListedGrows DEF Connect, Disconnect, ShownSafe, RequestFits
  <2>3. \A d \in Clients \ {c} : page'[d] = page[d] /\ asked'[d] = asked[d]
    BY <1>7 DEF Connect, Disconnect, Typed
  <2> QED
    BY <1>1, <2>1, <2>2, <2>3
<1>8. ASSUME NEW c \in Clients, NEW q \in asked[c], ReadsRecent(c, q)
      PROVE  ShownSafe'
  <2>1. PICK u \in {q.user, cookie[c]} \intersect Users :
           /\ asked' = [asked EXCEPT ![c] = (@ \ {q}) \union {[user |-> u, alive |-> q.alive, read |-> TRUE, rows |-> Listed(u)]}]
           /\ page' = IF q.alive THEN [page EXCEPT ![c] = Welcomes(@, u)] ELSE page
    BY <1>8 DEF ReadsRecent
  <2>2. PICK r : r = [user |-> u, alive |-> q.alive, read |-> TRUE, rows |-> Listed(u)]
    OBVIOUS
  <2>3. q \in Request /\ RequestFits(c, q) /\ page[c] \in Page /\ PageFits(page[c])
    BY DEF Typed, ShownSafe
  <2>4. /\ page'[c].user = page[c].user /\ page'[c].shown = page[c].shown /\ page'[c].as = page[c].as
        /\ page[c].guests \subseteq page'[c].guests /\ (q.alive => u \in {page[c].user} \union page'[c].guests)
    BY <2>1, <2>3, WelcomeFacts DEF Typed
  <2>5. PageFits(page[c])'
    BY <2>3, <2>4, PageStays
  <2>6. \A p \in asked[c] : RequestFits(c, p)'
    BY <2>4, ListedGrows DEF RequestFits, ShownSafe
  <2>7. r.user = u /\ r.alive = q.alive /\ r.read /\ r.rows = Listed(u)
    BY <2>2
  <2>8. RequestFits(c, r)'
    BY <2>3, <2>4, <2>7, ListedGrows DEF RequestFits
  <2>9. asked'[c] \subseteq asked[c] \union {r}
    BY <2>1, <2>2 DEF Typed
  <2>10. \A p \in asked'[c] : RequestFits(c, p)'
    BY <2>6, <2>8, <2>9
  <2>11. \A d \in Clients \ {c} : page'[d] = page[d] /\ asked'[d] = asked[d]
    BY <2>1 DEF Typed
  <2> QED
    BY <1>1, <2>5, <2>10, <2>11
<1>9. ASSUME NEW c \in Clients, NEW q \in asked[c], RecentArrives(c, q)
      PROVE  ShownSafe'
  <2>1. q \in Request /\ RequestFits(c, q) /\ page[c] \in Page /\ PageFits(page[c])
    BY DEF Typed, ShownSafe
  <2>2. page'[c].user = page[c].user /\ page'[c].guests = page[c].guests /\ PageFits(page[c])'
    <3>1. CASE page'[c] = page[c]
      BY <2>1, <3>1, PageStays
    <3>2. CASE q.read /\ q.alive /\ page'[c] = [page[c] EXCEPT !.shown = q.rows]
      <4>1. /\ page'[c].user = page[c].user /\ page'[c].shown = q.rows /\ page[c].user # Everyone
            /\ page'[c].guests = page[c].guests /\ page'[c].as = page[c].as
        BY <2>1, <3>2, OwnersAssumption DEF Page, RequestFits, Request
      <4>2. q.rows \subseteq Listed(q.user)' /\ q.user \in {page'[c].user} \union page'[c].guests
        BY <2>1, <3>2, <4>1, ListedGrows DEF RequestFits
      <4>3. page'[c].shown \subseteq Shareable(page[c])'
        BY <4>1, <4>2 DEF Shareable
      <4> QED
        BY <2>1, <4>1, <4>3 DEF PageFits
    <3> QED
      BY <1>9, <3>1, <3>2 DEF RecentArrives, Replaces, Typed
  <2>3. asked'[c] = asked[c] \ {q}
    BY <1>9 DEF RecentArrives, Typed
  <2>4. \A p \in asked'[c] : RequestFits(c, p)'
    BY <2>2, <2>3, ListedGrows DEF RequestFits, ShownSafe
  <2> QED
    BY <1>1, <1>9, <2>2, <2>4 DEF RecentArrives, Typed
<1> QED
  BY <1>0, <1>2, <1>3, <1>4, <1>5, <1>6, <1>7, <1>8, <1>9
     DEF Next, Proceed, Fault, PublishEvent, Enqueue, PublishDirectly, TakeRecord, MarkPublished, MarkFailed, Bury, Reserve, XAdd,
         RedisFails, QueryFails, ClaimBatch, BecomesDue, KeyExpires, OtherTab, vars

Safe == Typed /\ Held /\ Kept /\ MarkedIsReserved /\ ShownSafe

\* Everything above holds in every state, with the types.
THEOREM SafeCorrect == Spec => []Safe
<1>1. Init => Safe
  BY InitTyped, InitKept, InitShown DEF Safe
<1>2. Safe /\ [Next]_vars => Safe'
  BY TypedStep, HeldStep, KeptStep, MarkedStep, ShownStep DEF Safe
<1> QED
  BY <1>1, <1>2, PTL DEF Spec

LEMMA AddedWhileSafe == Safe => AddedOnce
<1> SUFFICES ASSUME Safe, NEW e \in Durable
             PROVE  stream[e] <= lapsed[e] + 1
  BY DEF AddedOnce
<1>1. stream[e] + Cardinality(Adders(e)) <= lapsed[e] + Live(e) /\ Live(e) \in {0, 1}
  BY DEF Safe, Kept, Paid, Live
<1>2. PICK n \in Nat : n = Cardinality(Adders(e))
  BY AddersFinite DEF Adders
<1>3. stream[e] \in Nat /\ lapsed[e] \in Nat
  BY DEF Safe, Typed
<1> QED
  BY <1>1, <1>2, <1>3

\* No event is added to its stream twice within a life of its key, however many dispatchers publish its
\* row, whatever is retried after a lost reply and whoever stops in between: the entries of an event are
\* at most one more than the times its key expired.
THEOREM AddedOnceHolds == Spec => []AddedOnce
BY AddedWhileSafe, SafeCorrect, PTL

\* A row that says PUBLISHED has its event in the stream or in the hands of a worker that is about
\* to add it, or a publication failed between setting the key and adding the entry.
THEOREM PublishedIsInStreamHolds == Spec => []PublishedIsInStream
<1>1. Safe => PublishedIsInStream
  BY DEF Safe, Kept, Led, MarkedIsReserved, PublishedIsInStream, Adding, At
<1> QED
  BY <1>1, SafeCorrect, PTL

\* A page shows its user only what the log lists for the same user, or for those whose cookies the browser
\* had when the stream was opened again, and nothing when nobody is signed in, whatever arrives late from
\* an earlier sign-in and however often the live stream is cut.
THEOREM ShownIsListedHolds == Spec => []ShownIsListed
<1>1. Safe => \A c \in Clients : PageFits(page[c])
  BY DEF Safe, ShownSafe
<1>2. Safe => ShownIsListed
  BY <1>1, Zenon DEF PageFits, Shareable, ShownIsListed
<1> QED
  BY <1>2, SafeCorrect, PTL

(***************************************************************************)
(* The rest of the types, and all of them together.                        *)
(***************************************************************************)
Rest ==
    /\ made \in SUBSET Events /\ log \in SUBSET made
    /\ budget \in [faults : Nat, visits : Nat, events : Nat]

LEMMA BudgetStep ==
    ASSUME Rest, [Next]_vars
    PROVE  budget' \in [faults : Nat, visits : Nat, events : Nat]
<1> USE DEF Rest
<1>1. ASSUME NEW kind, Spend(kind)
      PROVE  budget' \in [faults : Nat, visits : Nat, events : Nat]
  BY <1>1 DEF Spend
<1>2. ASSUME NEW p \in Publishers, PublishEvent(p)
      PROVE  budget' \in [faults : Nat, visits : Nat, events : Nat]
  BY <1>2 DEF PublishEvent
<1>3. ASSUME NEW c \in Clients, NEW u \in Users, SignsIn(c, u)
      PROVE  budget' \in [faults : Nat, visits : Nat, events : Nat]
  BY <1>3 DEF SignsIn
<1>4. ASSUME NEW c \in Clients, NEW u \in Visitor, OtherTab(c, u)
      PROVE  budget' \in [faults : Nat, visits : Nat, events : Nat]
  BY <1>4 DEF OtherTab
<1>5. CASE UNCHANGED budget
  BY <1>5
<1> QED
  BY <1>1, <1>2, <1>3, <1>4, <1>5
     DEF Next, Proceed, Fault, Enqueue, PublishDirectly, TakeRecord, MarkPublished, MarkFailed, Bury, Reserve, XAdd, Broadcast,
         RedisFails, ReplyLost, QueryFails, Crash, ClaimBatch, BecomesDue, KeyExpires, SignsOut, Connect, Disconnect, ReadsRecent,
         RecentArrives, vars

LEMMA RestStep ==
    ASSUME Typed, Held, Rest, [Next]_vars
    PROVE  Rest'
<1> USE DEF redis, database, console, system
<1>1. made' \in SUBSET Events /\ log' \in SUBSET made'
  <2>1. ASSUME NEW p \in Publishers, PublishEvent(p)
        PROVE  made' \in SUBSET Events /\ log' \in SUBSET made'
    BY <2>1 DEF PublishEvent, InsertEvent, Rest
  <2>2. CASE UNCHANGED <<made, log>>
    BY <2>2 DEF Rest
  <2> QED
    BY <2>1, <2>2
       DEF Next, Proceed, Fault, Enqueue, PublishDirectly, TakeRecord, MarkPublished, MarkFailed, Bury, Reserve, XAdd, Broadcast,
           RedisFails, ReplyLost, QueryFails, Crash, ClaimBatch, BecomesDue, KeyExpires, SignsIn, OtherTab, SignsOut, Connect, Disconnect, ReadsRecent,
           RecentArrives, vars
<1> QED
  BY <1>1, BudgetStep DEF Rest

Whole == Safe /\ Apart /\ Counted /\ Interred /\ Rest

LEMMA InitWhole == Init => Whole
<1> SUFFICES ASSUME Init PROVE Whole
  OBVIOUS
<1>1. Safe
  BY InitTyped, InitKept, InitShown DEF Safe
<1>2. Apart /\ Counted /\ Interred
  <2>1. Idle.at \notin Places
    BY DEF Idle, Places
  <2> QED
    BY <2>1 DEF Init, Apart, Counted, Interred, Workers
<1>3. Rest
  BY OutboxBoundsAssumption DEF Init, Rest
<1> QED
  BY <1>1, <1>2, <1>3 DEF Whole

LEMMA WholeCorrect == Spec => []Whole
<1>1. Whole /\ [Next]_vars => Whole'
  BY TypedStep, HeldStep, KeptStep, MarkedStep, ShownStep, ApartStep, CountedStep, InterredStep, RestStep DEF Whole, Safe
<1> QED
  BY InitWhole, <1>1, PTL DEF Spec

\* Every variable keeps its type: nothing is logged that was not made, a stream has at most one entry of
\* an event for every life of its key, and a row no more attempts and no more dead letters than the
\* dispatchers of all processes can come to, each of which may have claimed it before another one failed.
THEOREM TypeCorrect == Spec => []TypeOK
<1>1. Whole => TypeOK
  <2> SUFFICES ASSUME Whole PROVE TypeOK
    OBVIOUS
  <2>1. ASSUME NEW e \in Outboxed
        PROVE  outbox[e] \in Row \union {None}
    <3>1. CASE outbox[e] # None
      <4>1. Holders(e) \in SUBSET Dispatchers
        BY DEF Holders
      <4>2. outbox[e] \in Tried /\ outbox[e].attempts + Cardinality(Holders(e)) <= MostAttempts
        BY <3>1 DEF Whole, Safe, Typed, Counted
      <4>3. Cardinality(Holders(e)) \in Nat /\ Cardinality(Dispatchers) \in Nat
        BY <4>1, HoldersFinite
      <4>4. MostAttempts \in Int
        BY <4>3, OutboxBoundsAssumption DEF MostAttempts
      <4>5. outbox[e].attempts \in 0..MostAttempts
        BY <4>2, <4>3, <4>4 DEF Tried
      <4> QED
        BY <4>2, <4>5 DEF Tried, Row
    <3> QED
      BY <3>1
  <2>2. AddedOnce
    BY AddedWhileSafe DEF Whole
  <2>4. BuriedOnceEach
    <3> SUFFICES ASSUME NEW e \in Outboxed PROVE buried[e] <= Cardinality(Dispatchers)
      BY DEF BuriedOnceEach
    <3>1. Concerned(e) \in SUBSET Dispatchers
      BY DEF Concerned
    <3>2. PICK n \in Nat, k \in Nat : n = Cardinality(Concerned(e)) /\ k = Cardinality(Dispatchers)
      BY <3>1, HoldersFinite
    <3>3. buried[e] \in Nat /\ MaxAttempts \in Nat /\ (outbox[e] # None => outbox[e].attempts \in Nat)
      BY OutboxBoundsAssumption DEF Whole, Safe, Typed, Tried
    <3>4. buried[e] = 0 \/ buried[e] + n <= k
      BY <3>2, <3>3 DEF Whole, Interred
    <3> QED
      BY <3>2, <3>3, <3>4
  <2>3. outbox \in [Outboxed -> Row \union {None}]
    BY <2>1 DEF Whole, Safe, Typed
  <2> QED
    BY <2>2, <2>3, <2>4 DEF Whole, Safe, Typed, Rest, TypeOK
<1> QED
  BY <1>1, WholeCorrect, PTL
=============================================================================
