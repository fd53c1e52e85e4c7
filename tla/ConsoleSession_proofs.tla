----------------------- MODULE ConsoleSession_proofs -----------------------
(***************************************************************************)
(* Proofs about ConsoleSession, for every number of tabs, calls and        *)
(* faults: the audit chain is linear, what is certified was earned, what a *)
(* tab is told of its decision is true, the attempts of one call fit its   *)
(* limit, and rotation alone locks no browser out.                         *)
(***************************************************************************)
EXTENDS ConsoleSession, TLAPS, FiniteSetTheorems

Fields == {"tab", "slot", "n", "id", "route", "arg", "todo", "heard", "jar", "csrf", "found", "seen", "prev", "view", "code",
           "cookies"}

Verdicts == {"APPROVED", "REJECTED"}

\* A call and each request of it: what the operator calls has a number, what the page calls on its own has none.
Called(c) ==
    /\ c.id \in Nat /\ c.n \in Nat /\ c.arg.step \in Steps
    /\ c.arg.value = "LIVE" => c.route = "goLive"
    /\ c.route = "decideApproval" => c.arg.value \in Verdicts
    /\ c.id = 0 => c.route \notin Limited \cup {"decideApproval"}

\* A request on the server: what is left of its route, with the order of the awaits that matters.
Sound(h) ==
    /\ DOMAIN h = Fields
    /\ h.tab \in Tabs /\ h.slot \in Slots /\ h.heard \in BOOLEAN /\ h.prev \in Nat
    /\ Called(h) /\ h.route \in DOMAIN Routes
    /\ h.todo \in Seq(STRING) /\ Ordered(h.todo, h.route)
    /\ DOMAIN h.seen = Steps
    /\ h.todo # <<>> => h.code = 200 /\ h.cookies = Keep
AllSound(H) == \A h \in H : Sound(h)

\* The client: the call it waits for; whose answer is heard belongs to that call, in a tab that is open.
Formed(c) == DOMAIN c = {"route", "arg", "n", "id"} /\ Called(c) /\ c.route \in DOMAIN Routes \cup {"none"}
TabsFormed(tb) ==
    /\ DOMAIN tb = Tabs
    /\ \A t \in Tabs : DOMAIN tb[t] = {"stage", "user", "sid", "k", "shown"} /\ (tb[t].user => tb[t].stage # "closed")
CallsFormed(cl) ==
    /\ DOMAIN cl = Tabs /\ \A t \in Tabs : DOMAIN cl[t] = Slots /\ \A s \in Slots : Formed(cl[t][s])
    /\ \A t, u \in Tabs : \A r, s \in Slots : cl[t][r].id = cl[u][s].id /\ cl[t][r].id # 0 => t = u /\ r = s
Heard(H) == \A h, k \in H : h.heard /\ k.heard /\ h.tab = k.tab /\ h.slot = k.slot => h = k
Answers(h, c) == h.route = c.route /\ h.arg = c.arg /\ h.n = c.n /\ h.id = c.id
Awaited(H, cl, tb) == \A h \in H : h.heard => Answers(h, cl[h.tab][h.slot]) /\ tb[h.tab].stage # "closed"
\* The attempts of a call are numbered, the call holds the last number.
Attempts(H) == \A h, k \in H : h.id = k.id /\ h.id # 0 /\ h.n = k.n => h = k
Latest(H, cl) == \A h \in H : \A t \in Tabs : \A s \in Slots : cl[t][s].id = h.id /\ h.id # 0 => h.n <= cl[t][s].n

\* The chain: who stands before its insert is alone and has read the newest event.
AtLink(h) == h.todo # <<>> /\ Head(h.todo) = "link"
Queued(H, n) == \A x \in H : AtLink(x) => x.prev = n /\ \A y \in H : AtLink(y) => x = y
\* The plain events: who stands before its insert has read the newest one, or is known to be overtaken.
AtEvent(h) == h.todo # <<>> /\ Head(h.todo) = "event"
Overtaken(H, n, l) == \A x \in H : AtEvent(x) => x.prev = n \/ Attempt(x) \in l
Rows ==
    /\ DOMAIN store = {"approval", "by", "marks", "status", "checks", "mode", "audit", "events"}
    /\ DOMAIN proof = {"marks", "lost", "live", "raced", "forked", "late", "crossed", "spared"}
    /\ store.audit \in Seq(Nat) /\ store.events \in Seq(Nat) /\ store.checks \subseteq Steps
    /\ DOMAIN store.marks = Steps /\ DOMAIN proof.marks = Steps
    /\ proof.forked \in BOOLEAN /\ proof.raced \in BOOLEAN

\* The certificates: who is about to switch LIVE on has seen checks that still hold.
AtMode(h) == h.todo # <<>> /\ Head(h.todo) = "mode"
Ready(H, checks) == \A h \in H : AtMode(h) /\ h.arg.value = "LIVE" => Steps \subseteq checks

Requests == AllSound(handlers)
Client ==
    /\ TabsFormed(tab) /\ CallsFormed(call) /\ Heard(handlers) /\ Awaited(handlers, call, tab)
    /\ Attempts(handlers) /\ Latest(handlers, call)
Chain == ~proof.forked => Queued(handlers, Len(store.audit)) /\ \A n \in DOMAIN store.audit : store.audit[n] = n - 1
Trail ==
    /\ Overtaken(handlers, Len(store.events), proof.late)
    /\ \A n \in DOMAIN store.events : store.events[n] = n - 1 \/ n \in proof.crossed
Certain ==
    /\ store.status = "PASSED" => \A k \in Steps : store.marks[k] = "PASSED"
    /\ \A k \in Steps : store.marks[k] = proof.marks[k] \/ k \in proof.lost
    /\ proof.raced \/ Ready(handlers, store.checks)
    /\ store.mode = "LIVE" => proof.live

Planned ==
    /\ DOMAIN budget = {"tabs", "signed", "loads", "routes", "calls", "attempts", "faults"}
    /\ budget.routes \subseteq DOMAIN Routes /\ budget.loads \subseteq Fetches
    /\ budget.calls \in Nat /\ budget.attempts \in Nat \ {0}
\* The calls to come have smaller numbers; an answer that nobody waits for was lost.
Past(i, n) == i = 0 \/ i > n
Dated(H, cl, n) == (\A h \in H : Past(h.id, n)) /\ \A t \in Tabs : \A s \in Slots : Past(cl[t][s].id, n)
Lost(H, sl) == \A h \in H : ~h.heard => h.route \in sl
Known == Planned /\ Dated(handlers, call, budget.calls) /\ Lost(handlers, slip)

Safe == Known /\ Requests /\ Client /\ Rows /\ Chain /\ Trail /\ Certain

(***************************************************************************)
(* Sets of requests, and what a step makes of them.                        *)
(***************************************************************************)
LEMMA Rest ==
    ASSUME NEW s \in Seq(STRING), s # <<>>, NEW a, NEW b, Follows(s, a, b)
    PROVE  Tail(s) \in Seq(STRING) /\ Follows(Tail(s), a, b) /\ (Tail(s) # <<>> /\ Head(Tail(s)) = b => Head(s) = a)
<1>1. Len(s) \in Nat /\ Len(s) > 0 /\ Tail(s) \in Seq(STRING) /\ Len(Tail(s)) = Len(s) - 1
  OBVIOUS
<1>2. \A i \in 1..Len(Tail(s)) : Tail(s)[i] = s[i + 1]
  OBVIOUS
<1>3. Follows(Tail(s), a, b)
  <2> SUFFICES ASSUME NEW i \in 2..Len(Tail(s)), Tail(s)[i] = b  PROVE Tail(s)[i - 1] = a
    BY DEF Follows
  <2>1. i \in 1..Len(Tail(s)) /\ i - 1 \in 1..Len(Tail(s)) /\ i + 1 \in 2..Len(s) /\ (i + 1) - 1 = i /\ (i - 1) + 1 = i
    BY <1>1
  <2> QED
    BY <2>1, <1>2 DEF Follows
<1>4. ASSUME Tail(s) # <<>>, Head(Tail(s)) = b  PROVE Head(s) = a
  <2>1. Len(Tail(s)) > 0
    BY <1>1, <1>4
  <2>2. 2 \in 2..Len(s) /\ s[2] = b /\ 2 - 1 = 1
    BY <2>1, <1>1, <1>2, <1>4
  <2> QED
    BY <2>2 DEF Follows
<1> QED
  BY <1>1, <1>3, <1>4

LEMMA RestOrdered ==
    ASSUME NEW s \in Seq(STRING), s # <<>>, NEW r, Ordered(s, r)
    PROVE  /\ Tail(s) \in Seq(STRING) /\ Ordered(Tail(s), r)
           /\ Head(s) \in Commits => Tail(s) = <<>>
           /\ Tail(s) = <<>> /\ r = "decideApproval" => Head(s) = "decide"
           /\ Head(s) = "decide" => r = "decideApproval"
           /\ Head(s) = "rotate" => r = "refresh"
           /\ Head(s) = "limit" => r \in Limited
           /\ Tail(s) # <<>> =>
                /\ Head(Tail(s)) # "limit"
                /\ (Head(Tail(s)) = "link" => Head(s) = "lock")
                /\ (Head(Tail(s)) = "event" => Head(s) = "last")
                /\ (Head(Tail(s)) = "rotate" => Head(s) = "find")
                /\ (Head(Tail(s)) = "mode" /\ r = "goLive" => Head(s) = "ready")
<1>1. Len(s) \in Nat /\ Len(s) > 0 /\ Tail(s) \in Seq(STRING) /\ Len(Tail(s)) = Len(s) - 1 /\ Head(s) = s[1]
  OBVIOUS
<1>2. (\A i \in 1..Len(Tail(s)) : Tail(s)[i] = s[i + 1]) /\ DOMAIN s = 1..Len(s) /\ DOMAIN Tail(s) = 1..Len(Tail(s))
  OBVIOUS
<1>3. /\ Follows(Tail(s), "lock", "link") /\ Follows(Tail(s), "find", "rotate") /\ Follows(Tail(s), "last", "event")
      /\ (Tail(s) # <<>> /\ Head(Tail(s)) = "link" => Head(s) = "lock")
      /\ (Tail(s) # <<>> /\ Head(Tail(s)) = "event" => Head(s) = "last")
      /\ (Tail(s) # <<>> /\ Head(Tail(s)) = "rotate" => Head(s) = "find")
      /\ r = "goLive" => Follows(Tail(s), "ready", "mode") /\ (Tail(s) # <<>> /\ Head(Tail(s)) = "mode" => Head(s) = "ready")
  <2>1. /\ Follows(s, "lock", "link") /\ Follows(s, "find", "rotate") /\ Follows(s, "last", "event")
        /\ (r = "goLive" => Follows(s, "ready", "mode"))
    BY DEF Ordered
  <2>2. \A a, b : Follows(s, a, b) => Follows(Tail(s), a, b) /\ (Tail(s) # <<>> /\ Head(Tail(s)) = b => Head(s) = a)
    BY Rest, Zenon
  <2> QED
    BY <2>1, <2>2
<1>4. ASSUME NEW i \in 1..Len(Tail(s))
      PROVE  /\ Tail(s)[i] \in Commits => i = Len(Tail(s))
             /\ Tail(s)[i] = "decide" => r = "decideApproval"
             /\ Tail(s)[i] = "rotate" => r = "refresh"
             /\ Tail(s)[i] # "limit"
  <2>1. PICK j : j = i + 1
    OBVIOUS
  <2>2. PICK m \in Nat : m = Len(s) /\ m > 0 /\ Len(Tail(s)) = m - 1
    BY <1>1
  <2>3. j \in 1..m /\ j # 1 /\ (j = m => i = m - 1)
    BY <2>1, <2>2
  <2>4. Tail(s)[i] = s[j]
    BY <1>2, <2>1
  <2> QED
    BY <1>2, <2>2, <2>3, <2>4 DEF Ordered
<1>5. r = "decideApproval" /\ Tail(s) # <<>> => Tail(s)[Len(Tail(s))] = "decide"
  <2> SUFFICES ASSUME r = "decideApproval", Tail(s) # <<>>  PROVE Tail(s)[Len(Tail(s))] = "decide"
    OBVIOUS
  <2>1. Len(Tail(s)) \in 1..Len(Tail(s)) /\ Len(Tail(s)) + 1 = Len(s)
    BY <1>1
  <2> QED
    BY <1>2, <2>1 DEF Ordered
<1>6. Head(s) \in Commits => Tail(s) = <<>>
  <2>1. Head(s) \in Commits => 1 = Len(s)
    BY <1>1, <1>2 DEF Ordered
  <2> QED
    BY <1>1, <2>1
<1>7. Tail(s) = <<>> /\ r = "decideApproval" => Head(s) = "decide"
  <2>1. Tail(s) = <<>> => Len(s) = 1
    <3> SUFFICES ASSUME Tail(s) = <<>>  PROVE Len(s) = 1
      OBVIOUS
    <3>1. Len(<<>>) = 0
      OBVIOUS
    <3>2. Len(Tail(s)) = 0
      BY <3>1, Zenon
    <3>3. PICK m \in Nat : m = Len(s) /\ Len(Tail(s)) = m - 1
      BY <1>1
    <3> QED
      BY <3>2, <3>3
  <2> QED
    BY <1>1, <2>1 DEF Ordered
<1>8. Tail(s) # <<>> => Head(Tail(s)) # "limit"
  <2>1. Tail(s) # <<>> => 1 \in 1..Len(Tail(s)) /\ Head(Tail(s)) = Tail(s)[1]
    BY <1>1
  <2> QED
    BY <1>4, <2>1
<1>9. /\ Head(s) = "decide" => r = "decideApproval"
      /\ Head(s) = "rotate" => r = "refresh"
      /\ Head(s) = "limit" => r \in Limited
  BY <1>1, <1>2 DEF Ordered
<1>10. Ordered(Tail(s), r)
  <2>1. \A i \in DOMAIN Tail(s) :
           /\ Tail(s)[i] \in Commits => i = Len(Tail(s))
           /\ Tail(s)[i] = "decide" => r = "decideApproval"
           /\ Tail(s)[i] = "rotate" => r = "refresh"
           /\ Tail(s)[i] = "limit" => i = 1 /\ r \in Limited
    BY <1>2, <1>4
  <2> QED
    BY <2>1, <1>3, <1>5 DEF Ordered
<1> QED
  BY <1>1, <1>3, <1>6, <1>7, <1>8, <1>9, <1>10

\* y is x, but for what nobody here looks at, or for whom it answers.
Same(x, y) ==
    /\ y.tab = x.tab /\ y.slot = x.slot /\ y.route = x.route /\ y.arg = x.arg /\ y.n = x.n /\ y.id = x.id
    /\ y.todo = x.todo /\ y.prev = x.prev /\ y.code = x.code /\ y.cookies = x.cookies /\ y.jar = x.jar /\ y.found = x.found
    /\ y.seen = x.seen
Kept(x, y) == DOMAIN y = Fields /\ Same(x, y) /\ y.heard \in BOOLEAN /\ (y.heard => x.heard)

LEMMA KeptSound ==
    ASSUME NEW x, NEW y, Sound(x), Kept(x, y)
    PROVE  Sound(y)
BY DEF Sound, Called, Kept, Same

LEMMA Images ==
    ASSUME NEW H, NEW g, \A x \in H : Kept(x, g[x])
    PROVE  LET I == {g[x] : x \in H} IN
           /\ AllSound(H) => AllSound(I)
           /\ Heard(H) => Heard(I)
           /\ \A cl, tb : Awaited(H, cl, tb) => Awaited(I, cl, tb)
           /\ Attempts(H) => Attempts(I)
           /\ \A cl : Latest(H, cl) => Latest(I, cl)
           /\ \A n : Queued(H, n) => Queued(I, n)
           /\ \A c : Ready(H, c) => Ready(I, c)
           /\ \A n, l : Overtaken(H, n, l) => Overtaken(I, n, l)
<1> DEFINE I == {g[x] : x \in H}
<1>1. AllSound(H) => AllSound(I)
  BY KeptSound DEF AllSound
<1>2. Heard(H) => Heard(I)
  <2> SUFFICES ASSUME Heard(H), NEW x \in H, NEW y \in H, g[x].heard, g[y].heard, g[x].tab = g[y].tab, g[x].slot = g[y].slot
               PROVE  x = y
    BY DEF Heard
  <2>1. x.heard /\ y.heard /\ x.tab = y.tab /\ x.slot = y.slot
    BY DEF Kept, Same
  <2> QED
    BY <2>1 DEF Heard
<1>3. \A cl, tb : Awaited(H, cl, tb) => Awaited(I, cl, tb)
  BY DEF Awaited, Answers, Kept, Same
<1>6. Attempts(H) => Attempts(I)
  <2> SUFFICES ASSUME Attempts(H), NEW x \in H, NEW y \in H, g[x].id = g[y].id, g[x].id # 0, g[x].n = g[y].n
               PROVE  x = y
    BY DEF Attempts
  <2>1. x.id = y.id /\ x.id # 0 /\ x.n = y.n
    BY DEF Kept, Same
  <2> QED
    BY <2>1 DEF Attempts
<1>7. \A cl : Latest(H, cl) => Latest(I, cl)
  BY DEF Latest, Kept, Same
<1>4. \A n : Queued(H, n) => Queued(I, n)
  <2> SUFFICES ASSUME NEW n, Queued(H, n), NEW x \in H, AtLink(g[x])
               PROVE  g[x].prev = n /\ \A y \in H : AtLink(g[y]) => x = y
    BY DEF Queued
  <2>1. \A y \in H : AtLink(g[y]) => AtLink(y)
    BY DEF AtLink, Kept, Same
  <2>2. g[x].prev = x.prev
    BY DEF Kept, Same
  <2> QED
    BY <2>1, <2>2 DEF Queued
<1>5. \A c : Ready(H, c) => Ready(I, c)
  <2>1. \A x \in H : (AtMode(g[x]) => AtMode(x)) /\ g[x].arg = x.arg
    BY DEF AtMode, Kept, Same
  <2> QED
    BY <2>1 DEF Ready
<1>8. \A n, l : Overtaken(H, n, l) => Overtaken(I, n, l)
  <2>1. \A x \in H : (AtEvent(g[x]) => AtEvent(x)) /\ g[x].prev = x.prev /\ Attempt(g[x]) = Attempt(x)
    BY DEF AtEvent, Attempt, Kept, Same
  <2> QED
    BY <2>1 DEF Overtaken
<1> QED
  BY <1>1, <1>2, <1>3, <1>4, <1>5, <1>6, <1>7, <1>8

LEMMA Subsets ==
    ASSUME NEW H, NEW I \in SUBSET H
    PROVE  /\ AllSound(H) => AllSound(I)
           /\ Heard(H) => Heard(I)
           /\ \A cl, tb : Awaited(H, cl, tb) => Awaited(I, cl, tb)
           /\ Attempts(H) => Attempts(I)
           /\ \A cl : Latest(H, cl) => Latest(I, cl)
           /\ \A n : Queued(H, n) => Queued(I, n)
           /\ \A c : Ready(H, c) => Ready(I, c)
           /\ \A n, l : Overtaken(H, n, l) => Overtaken(I, n, l)
<1>1. (AllSound(H) => AllSound(I)) /\ (Heard(H) => Heard(I))
  BY DEF AllSound, Heard
<1>2. (\A cl, tb : Awaited(H, cl, tb) => Awaited(I, cl, tb)) /\ (\A c : Ready(H, c) => Ready(I, c))
  BY DEF Awaited, Ready
<1>3. \A n : Queued(H, n) => Queued(I, n)
  BY DEF Queued
<1>4. (Attempts(H) => Attempts(I)) /\ \A cl : Latest(H, cl) => Latest(I, cl)
  BY DEF Attempts, Latest
<1>5. \A n, l : Overtaken(H, n, l) => Overtaken(I, n, l)
  BY DEF Overtaken
<1> QED
  BY <1>1, <1>2, <1>3, <1>4, <1>5

(***************************************************************************)
(* The client.                                                             *)
(***************************************************************************)
Chosen(r, arg) ==
    arg.step \in Steps /\ (arg.value = "LIVE" => r = "goLive") /\ (r = "decideApproval" => arg.value \in Verdicts)
LEMMA Choices ==
    /\ \A r : r # "decideApproval" => Chosen(r, NoArg)
    /\ \A r, arg : arg \in Args(r) => Chosen(r, arg)
<1>1. NoStep \in Steps
  BY ConsoleAssumption DEF NoStep
<1>2. ASSUME NEW r, NEW arg \in Args(r)  PROVE Chosen(r, arg)
  <2>1. CASE r = "goLive"
    BY <1>1, <1>2, <2>1 DEF Args, Chosen
  <2>2. CASE r = "decideApproval"
    BY <1>1, <1>2, <2>2 DEF Args, Chosen, Verdicts
  <2>3. CASE r \in {"passStep", "passCheck"}
    BY <1>1, <1>2, <2>3 DEF Args, Chosen
  <2>4. CASE r \in {"markStep", "failCheck"}
    BY <1>1, <1>2, <2>4 DEF Args, Chosen
  <2>5. CASE r = "setMode"
    BY <1>1, <1>2, <2>5 DEF Args, Chosen
  <2>6. CASE r \notin {"goLive", "decideApproval", "passStep", "passCheck", "markStep", "failCheck", "setMode"}
    BY <1>1, <1>2, <2>6 DEF Args, NoArg, Chosen
  <2> QED
    BY <2>1, <2>2, <2>3, <2>4, <2>5, <2>6
<1> QED
  BY <1>1, <1>2 DEF Chosen, NoArg

\* What the page calls on its own.
LEMMA OnItsOwn == \A r \in Fetches \cup {"me", "refresh"} : r \in DOMAIN Routes /\ r \notin Limited \cup {"decideApproval"}
BY RoutesAssumption

LEMMA IdleFormed == Formed(Idle)
<1>1. NoArg.step \in Steps /\ NoArg.value # "LIVE"
  BY Choices DEF Chosen, NoArg
<1>2. "none" \notin Limited
  BY RoutesAssumption DEF Limited
<1> QED
  BY <1>1, <1>2 DEF Formed, Called, Idle

\* A new request stands at the head of its route.
LEMMA NewRequest ==
    ASSUME NEW t \in Tabs, NEW slot \in Slots, NEW c, Formed(c), c.route # "none"
    PROVE  LET y == Request(t, slot, c) IN
           /\ Sound(y) /\ ~AtLink(y) /\ ~AtEvent(y) /\ ~AtMode(y) /\ y.tab = t /\ y.slot = slot /\ Answers(y, c)
<1> DEFINE y == Request(t, slot, c)
<1>1. c.route \in DOMAIN Routes /\ Called(c)
  BY DEF Formed
<1>2. /\ DOMAIN y = Fields /\ y.tab = t /\ y.slot = slot /\ y.heard = TRUE /\ y.prev = 0
      /\ y.route = c.route /\ y.arg = c.arg /\ y.n = c.n /\ y.id = c.id
      /\ y.todo = Routes[c.route] /\ y.code = 200 /\ y.cookies = Keep /\ y.seen = Pending
  BY DEF Request, Fields
<1>3. ~AtLink(y) /\ ~AtEvent(y) /\ ~AtMode(y)
  BY <1>1, <1>2, RoutesAssumption DEF AtLink, AtEvent, AtMode
<1>4. y.todo \in Seq(STRING) /\ Ordered(y.todo, y.route)
  BY <1>1, <1>2, RoutesAssumption
<1>5. y.heard \in BOOLEAN /\ y.prev \in Nat
  <2>1. y.heard = TRUE
    BY <1>2
  <2>2. y.prev = 0
    BY <1>2
  <2> HIDE DEF y
  <2>3. y.heard \in BOOLEAN
    BY <2>1
  <2> QED
    BY <2>2, <2>3
<1> HIDE DEF y
<1>6. Called(y)
  BY <1>1, <1>2 DEF Called
<1>9. DOMAIN y.seen = Steps
  BY <1>2 DEF Pending
<1>7. Sound(y)
  BY <1>1, <1>2, <1>4, <1>5, <1>6, <1>9 DEF Sound
<1>8. Answers(y, c)
  BY <1>2 DEF Answers
<1> QED
  BY <1>2, <1>3, <1>7, <1>8 DEF y

\* Requests that do not answer the call of a slot, and are otherwise among those on the server.
Others(H, t, slot) ==
    /\ AllSound(H) /\ Heard(H) /\ Awaited(H, call, tab) /\ Attempts(H) /\ Latest(H, call)
    /\ \A h \in H : h.heard => ~(h.tab = t /\ h.slot = slot)
    /\ \A n : Queued(handlers, n) => Queued(H, n)
    /\ \A c : Ready(handlers, c) => Ready(H, c)
    /\ \A n, l : Overtaken(handlers, n, l) => Overtaken(H, n, l)
\* A call for a slot: it has no number, or no other has it and its attempts so far have smaller ones.
Fits(H, t, slot, c) ==
    c.id # 0 => /\ \A h \in H : h.id = c.id => h.n < c.n
                /\ \A u \in Tabs : \A s \in Slots : call[u][s].id = c.id => u = t /\ s = slot
\* What a step of the client keeps.
TabsKept == TabsFormed(tab') /\ \A t \in Tabs : tab'[t].stage = "closed" => tab[t].stage = "closed"
ClientKept ==
    /\ AllSound(handlers') /\ TabsFormed(tab') /\ CallsFormed(call') /\ Heard(handlers') /\ Awaited(handlers', call', tab')
    /\ Attempts(handlers') /\ Latest(handlers', call')
    /\ \A n : Queued(handlers, n) => Queued(handlers', n)
    /\ \A c : Ready(handlers, c) => Ready(handlers', c)
    /\ \A n, l : Overtaken(handlers, n, l) => Overtaken(handlers', n, l)

LEMMA SendKeeps ==
    ASSUME CallsFormed(call), TabsKept, NEW H, NEW t \in Tabs, NEW slot \in Slots, Others(H, t, slot),
           NEW c, Formed(c), c.route # "none", Fits(H, t, slot, c), tab'[t].stage # "closed", Send(t, slot, c, H)
    PROVE  ClientKept
<1> DEFINE y == Request(t, slot, c)
<1>1. Sound(y) /\ ~AtLink(y) /\ ~AtEvent(y) /\ ~AtMode(y) /\ y.tab = t /\ y.slot = slot /\ Answers(y, c)
  BY NewRequest
<1>2. handlers' = H \cup {y} /\ call' = [call EXCEPT ![t][slot] = c]
  BY DEF Send
<1>3. /\ CallsFormed(call') /\ call'[t][slot] = c
      /\ \A u \in Tabs, s \in Slots : ~(u = t /\ s = slot) => call'[u][s] = call[u][s]
  <2>1. call' = [call EXCEPT ![t] = [call[t] EXCEPT ![slot] = c]]
    BY <1>2
  <2> QED
    BY <2>1 DEF CallsFormed, Fits
<1> HIDE DEF y
<1>4. AllSound(handlers')
  BY <1>1, <1>2 DEF Others, AllSound
<1>5. Heard(handlers')
  BY <1>1, <1>2 DEF Others, Heard
<1>6. Awaited(handlers', call', tab')
  <2> SUFFICES ASSUME NEW h \in H, h.heard
               PROVE  Answers(h, call'[h.tab][h.slot]) /\ tab'[h.tab].stage # "closed"
    BY <1>1, <1>2, <1>3 DEF Awaited
  <2>1. h.tab \in Tabs /\ h.slot \in Slots /\ ~(h.tab = t /\ h.slot = slot)
    BY DEF Others, AllSound, Sound
  <2>2. Answers(h, call[h.tab][h.slot]) /\ tab[h.tab].stage # "closed"
    BY DEF Others, Awaited
  <2> QED
    BY <1>3, <2>1, <2>2 DEF TabsKept
<1>7. \A n : Queued(handlers, n) => Queued(handlers', n)
  BY <1>1, <1>2 DEF Others, Queued
<1>8. \A k : Ready(handlers, k) => Ready(handlers', k)
  BY <1>1, <1>2 DEF Others, Ready
<1>12. \A n, l : Overtaken(handlers, n, l) => Overtaken(handlers', n, l)
  BY <1>1, <1>2 DEF Others, Overtaken
<1>9. \A h \in H : h.n \in Nat /\ (h.id = c.id /\ c.id # 0 => h.n < c.n) /\ c.n \in Nat /\ y.n = c.n /\ y.id = c.id
  BY <1>1 DEF Others, AllSound, Sound, Called, Formed, Fits, Answers
<1>10. Attempts(handlers')
  BY <1>2, <1>9 DEF Others, Attempts
<1>11. Latest(handlers', call')
  <2> SUFFICES ASSUME NEW h \in handlers', NEW u \in Tabs, NEW s \in Slots, call'[u][s].id = h.id, h.id # 0
               PROVE  h.n <= call'[u][s].n
    BY DEF Latest
  <2>1. CASE h = y
    <3>1. call'[u][s].id = call'[t][slot].id
      BY <1>1, <1>3, <2>1 DEF Answers
    <3>2. u = t /\ s = slot
      BY <1>3, <3>1, <2>1 DEF CallsFormed
    <3> QED
      BY <1>1, <1>3, <2>1, <3>2 DEF Sound, Called, Answers
  <2>2. CASE h \in H
    <3>1. CASE u = t /\ s = slot
      BY <1>3, <1>9, <2>2, <3>1
    <3>2. CASE ~(u = t /\ s = slot)
      BY <1>3, <2>2, <3>2 DEF Others, Latest
    <3> QED
      BY <3>1, <3>2
  <2> QED
    BY <1>2, <2>1, <2>2
<1> QED
  BY <1>3, <1>4, <1>5, <1>6, <1>7, <1>8, <1>10, <1>11, <1>12 DEF ClientKept, TabsKept

LEMMA EndKeeps ==
    ASSUME CallsFormed(call), TabsKept, NEW t \in Tabs, NEW slot \in Slots, Others(handlers', t, slot),
           call' = [call EXCEPT ![t][slot] = Idle]
    PROVE  ClientKept
<1>1. Formed(Idle) /\ Idle.id = 0
  BY IdleFormed DEF Idle
<1>2. /\ CallsFormed(call') /\ call'[t][slot] = Idle
      /\ \A u \in Tabs, s \in Slots : ~(u = t /\ s = slot) => call'[u][s] = call[u][s]
  <2>1. call' = [call EXCEPT ![t] = [call[t] EXCEPT ![slot] = Idle]]
    OBVIOUS
  <2> QED
    BY <1>1, <2>1 DEF CallsFormed
<1>3. Awaited(handlers', call', tab')
  <2> SUFFICES ASSUME NEW h \in handlers', h.heard
               PROVE  Answers(h, call'[h.tab][h.slot]) /\ tab'[h.tab].stage # "closed"
    BY DEF Awaited
  <2>1. h.tab \in Tabs /\ h.slot \in Slots /\ ~(h.tab = t /\ h.slot = slot)
    BY DEF Others, AllSound, Sound
  <2>2. Answers(h, call[h.tab][h.slot]) /\ tab[h.tab].stage # "closed"
    BY DEF Others, Awaited
  <2> QED
    BY <1>2, <2>1, <2>2 DEF TabsKept
<1>4. Latest(handlers', call')
  <2> SUFFICES ASSUME NEW h \in handlers', NEW u \in Tabs, NEW s \in Slots, call'[u][s].id = h.id, h.id # 0
               PROVE  h.n <= call'[u][s].n
    BY DEF Latest
  <2>1. ~(u = t /\ s = slot)
    BY <1>1, <1>2
  <2> QED
    BY <1>2, <2>1 DEF Others, Latest
<1> QED
  BY <1>2, <1>3, <1>4 DEF ClientKept, TabsKept, Others

LEMMA KeptItself ==
    ASSUME NEW x, Sound(x)
    PROVE  Kept(x, x)
BY DEF Sound, Kept, Same

\* Without the request that answers a call, or with it unheard, nobody answers the call.
LEMMA Dropped ==
    ASSUME Requests, Client, NEW h \in handlers, h.heard
    PROVE  Others(handlers \ {h}, h.tab, h.slot)
<1>1. \A x \in handlers \ {h} : x.heard => ~(x.tab = h.tab /\ x.slot = h.slot)
  BY DEF Client, Heard
<1> QED
  BY <1>1, Subsets DEF Others, Requests, Client

LEMMA Unheard ==
    ASSUME Requests, Client, NEW h \in handlers, h.heard
    PROVE  Others((handlers \ {h}) \cup {[h EXCEPT !.heard = FALSE]}, h.tab, h.slot)
<1> DEFINE z == [h EXCEPT !.heard = FALSE]
           g == [x \in handlers |-> IF x = h THEN z ELSE x]
<1>1. Sound(h) /\ Kept(h, z) /\ z.heard = FALSE
  BY DEF Requests, AllSound, Sound, Kept, Same, Fields
<1>2. \A x \in handlers : Kept(x, g[x])
  BY <1>1, KeptItself DEF Requests, AllSound
<1>3. {g[x] : x \in handlers} = (handlers \ {h}) \cup {z}
  OBVIOUS
<1>4. \A x \in (handlers \ {h}) \cup {z} : x.heard => ~(x.tab = h.tab /\ x.slot = h.slot)
  BY <1>1 DEF Client, Heard
<1> HIDE DEF g, z
<1>5. /\ AllSound(handlers) => AllSound({g[x] : x \in handlers})
      /\ Heard(handlers) => Heard({g[x] : x \in handlers})
      /\ \A cl, tb : Awaited(handlers, cl, tb) => Awaited({g[x] : x \in handlers}, cl, tb)
      /\ Attempts(handlers) => Attempts({g[x] : x \in handlers})
      /\ \A cl : Latest(handlers, cl) => Latest({g[x] : x \in handlers}, cl)
      /\ \A n : Queued(handlers, n) => Queued({g[x] : x \in handlers}, n)
      /\ \A c : Ready(handlers, c) => Ready({g[x] : x \in handlers}, c)
      /\ \A n, l : Overtaken(handlers, n, l) => Overtaken({g[x] : x \in handlers}, n, l)
  BY <1>2, Images
<1>6. PICK I : I = (handlers \ {h}) \cup {z}
  OBVIOUS
<1>7. AllSound(handlers) /\ Heard(handlers) /\ Awaited(handlers, call, tab) /\ Attempts(handlers) /\ Latest(handlers, call)
  BY DEF Requests, Client
<1>8. /\ AllSound(I) /\ Heard(I) /\ Awaited(I, call, tab) /\ Attempts(I) /\ Latest(I, call)
      /\ (\A n : Queued(handlers, n) => Queued(I, n)) /\ (\A c : Ready(handlers, c) => Ready(I, c))
      /\ \A n, l : Overtaken(handlers, n, l) => Overtaken(I, n, l)
  BY <1>3, <1>5, <1>6, <1>7
<1>9. Others(I, h.tab, h.slot)
  BY <1>4, <1>6, <1>8 DEF Others
<1> QED
  BY <1>6, <1>9 DEF z

\* The answered call and its tab.
LEMMA AnswersCall ==
    ASSUME Requests, Client, NEW h \in handlers, h.heard
    PROVE  /\ h.tab \in Tabs /\ h.slot \in Slots /\ CallsFormed(call) /\ TabsFormed(tab) /\ tab[h.tab].stage # "closed"
           /\ Formed(call[h.tab][h.slot]) /\ Answers(h, call[h.tab][h.slot]) /\ h.route \in DOMAIN Routes /\ h.route # "none"
BY RoutesAssumption DEF Requests, AllSound, Sound, Client, Awaited, CallsFormed

LEMMA RetriesKeeps ==
    ASSUME Requests, Client, NEW h \in handlers, h.heard, NEW H, Others(H, h.tab, h.slot), Retries(h.tab, h.slot, H)
    PROVE  ClientKept
<1> DEFINE b == call[h.tab][h.slot]
           c == [b EXCEPT !.n = @ + 1]
<1>1. /\ h.tab \in Tabs /\ h.slot \in Slots /\ CallsFormed(call) /\ TabsFormed(tab) /\ tab[h.tab].stage # "closed"
      /\ Formed(b) /\ Answers(h, b) /\ h.route # "none"
  BY AnswersCall
<1>2. /\ DOMAIN c = DOMAIN b /\ c.route = b.route /\ c.arg = b.arg /\ c.id = b.id /\ c.n = b.n + 1 /\ c.n \in Nat /\ b.n \in Nat
  BY <1>1 DEF Formed, Called
<1>3. Formed(c) /\ c.route # "none"
  BY <1>1, <1>2 DEF Formed, Called, Answers
<1>4. TabsKept /\ tab'[h.tab].stage # "closed"
  BY <1>1 DEF Retries, TabsKept
<1>5. Send(h.tab, h.slot, c, H)
  BY DEF Retries
<1>6. Fits(H, h.tab, h.slot, c)
  <2> SUFFICES ASSUME c.id # 0
               PROVE  /\ \A x \in H : x.id = c.id => x.n < c.n
                      /\ \A u \in Tabs : \A s \in Slots : call[u][s].id = c.id => u = h.tab /\ s = h.slot
    BY DEF Fits
  <2>1. \A x \in H : x.id = c.id => x.n <= b.n
    BY <1>1, <1>2 DEF Others, Latest
  <2>2. \A x \in H : x.n \in Nat
    BY DEF Others, AllSound, Sound, Called
  <2>3. \A x \in H : x.id = c.id => x.n < c.n
    BY <1>2, <2>1, <2>2
  <2> QED
    BY <1>1, <1>2, <2>3 DEF CallsFormed
<1> HIDE DEF c, b
<1> QED
  BY <1>1, <1>3, <1>4, <1>5, <1>6, SendKeeps

LEMMA ConcludesKeeps ==
    ASSUME Requests, Client, NEW h \in handlers, h.heard, NEW H, Others(H, h.tab, h.slot),
           NEW ok, Concludes(h.tab, h.slot, ok, h, H)
    PROVE  ClientKept
<1> DEFINE c == [Idle EXCEPT !.route = "refresh", !.n = 1]
           again == call[h.tab][h.slot].route = "me" /\ ~ok
<1>1. h.tab \in Tabs /\ h.slot \in Slots /\ CallsFormed(call) /\ TabsFormed(tab) /\ tab[h.tab].stage # "closed"
  BY AnswersCall
<1>3. CASE again
  <2>1. Formed(c) /\ c.route # "none" /\ c.id = 0
    <3>1. c.route = "refresh" /\ c.arg = NoArg /\ c.n = 1 /\ c.id = 0 /\ DOMAIN c = {"route", "arg", "n", "id"}
      BY DEF Idle
    <3>2. Chosen("refresh", NoArg) /\ "refresh" \in DOMAIN Routes /\ "refresh" \notin Limited \cup {"decideApproval"}
      BY Choices, OnItsOwn
    <3> HIDE DEF c
    <3> QED
      BY <3>1, <3>2 DEF Formed, Called, Chosen
  <2>2. Send(h.tab, h.slot, c, H) /\ tab' = tab
    BY <1>3 DEF Concludes
  <2>3. TabsKept /\ tab'[h.tab].stage # "closed"
    BY <1>1, <2>2 DEF TabsKept
  <2>4. Fits(H, h.tab, h.slot, c)
    BY <2>1 DEF Fits
  <2> HIDE DEF c
  <2> QED
    BY <1>1, <2>1, <2>2, <2>3, <2>4, SendKeeps
<1>4. CASE ~again
  <2>1. call' = [call EXCEPT ![h.tab][h.slot] = Idle] /\ handlers' = H
    BY <1>4 DEF Concludes
  <2>2. \/ tab' = Shows(h.tab, ok, h.view)
        \/ tab' = SignedOut(h.tab)
        \/ \E pair : tab' = SignedIn(h.tab, pair)
        \/ tab' = [tab EXCEPT ![h.tab].stage = "ready"]
    BY <1>4 DEF Concludes
  <2>3. TabsKept
    <3>1. CASE tab' = Shows(h.tab, ok, h.view)
      BY <3>1, <1>1 DEF Shows, TabsFormed, TabsKept
    <3>2. CASE tab' = SignedOut(h.tab)
      BY <3>2, <1>1 DEF SignedOut, TabsFormed, TabsKept
    <3>3. ASSUME NEW pair, tab' = SignedIn(h.tab, pair)  PROVE TabsKept
      BY <3>3, <1>1 DEF SignedIn, TabsFormed, TabsKept
    <3>4. CASE tab' = [tab EXCEPT ![h.tab].stage = "ready"]
      BY <3>4, <1>1 DEF TabsFormed, TabsKept
    <3> QED
      BY <2>2, <3>1, <3>2, <3>3, <3>4
  <2> QED
    BY <1>1, <2>1, <2>3, EndKeeps
<1> QED
  BY <1>3, <1>4

LEMMA ReceivesKeeps ==
    ASSUME Requests, Client, NEW h \in handlers, Receives(h)
    PROVE  ClientKept
<1>1. h.heard /\ Others(handlers \ {h}, h.tab, h.slot)
  BY Dropped DEF Receives
<1>2. CASE h.code < 500
  <2>1. Concludes(h.tab, h.slot, h.code = 200, h, handlers \ {h})
    BY <1>2 DEF Receives
  <2> QED
    BY <1>1, <2>1, ConcludesKeeps
<1>3. CASE ~(h.code < 500)
  <2>1. \/ Retries(h.tab, h.slot, handlers \ {h})
        \/ Concludes(h.tab, h.slot, FALSE, h, handlers \ {h})
    BY <1>3 DEF Receives, GivesUp
  <2> QED
    BY <1>1, <2>1, RetriesKeeps, ConcludesKeeps
<1> QED
  BY <1>2, <1>3

LEMMA TimesOutKeeps ==
    ASSUME Requests, Client, NEW h \in handlers, TimesOut(h)
    PROVE  ClientKept
<1> DEFINE H == (handlers \ {h}) \cup {[h EXCEPT !.heard = FALSE]}
<1>1. h.heard /\ Others(H, h.tab, h.slot)
  BY Unheard DEF TimesOut
<1>2. Retries(h.tab, h.slot, H) \/ Concludes(h.tab, h.slot, FALSE, h, H)
  BY DEF TimesOut, GivesUp
<1> HIDE DEF H
<1> QED
  BY <1>1, <1>2, RetriesKeeps, ConcludesKeeps

LEMMA ForgetsKeeps ==
    ASSUME Requests, Client, NEW h \in handlers, Forgets(h)
    PROVE  ClientKept
<1>1. handlers' \in SUBSET handlers /\ call' = call /\ tab' = tab
  BY DEF Forgets
<1> QED
  BY <1>1, Subsets DEF ClientKept, Requests, Client

\* A call starts in a slot that waits for none, with a number of its own or with none.
Unused(id) == id # 0 => (\A h \in handlers : h.id # id) /\ \A t \in Tabs : \A s \in Slots : call[t][s].id # id

LEMMA StartsKeeps ==
    ASSUME Requests, Client, NEW t \in Tabs, NEW slot \in Slots, NEW r \in DOMAIN Routes, NEW arg, NEW id \in Nat,
           Chosen(r, arg), id = 0 => r \notin Limited \cup {"decideApproval"}, Unused(id),
           Starts(t, slot, r, arg, id), TabsKept, tab'[t].stage # "closed",
           \A h \in handlers : h.heard => ~(h.tab = t /\ h.slot = slot)
    PROVE  ClientKept
<1> DEFINE c == [route |-> r, arg |-> arg, n |-> 1, id |-> id]
<1>1. Formed(c) /\ c.route # "none"
  BY RoutesAssumption DEF Formed, Called, Chosen
<1>2. Others(handlers, t, slot) /\ CallsFormed(call)
  BY DEF Others, Requests, Client
<1>3. Send(t, slot, c, handlers)
  BY DEF Starts
<1>4. Fits(handlers, t, slot, c)
  BY DEF Fits, Unused
<1> HIDE DEF c
<1> QED
  BY <1>1, <1>2, <1>3, <1>4, SendKeeps

LEMMA NobodyAnswersIdle ==
    ASSUME Requests, Client, NEW t \in Tabs, NEW slot \in Slots, call[t][slot] = Idle \/ tab[t].stage = "closed"
    PROVE  \A h \in handlers : h.heard => ~(h.tab = t /\ h.slot = slot)
<1>1. Idle.route = "none"
  BY DEF Idle
<1> QED
  BY <1>1, AnswersCall DEF Answers

LEMMA OpensKeeps ==
    ASSUME Requests, Client, NEW t \in Tabs, Opens(t)
    PROVE  ClientKept
<1>1. Starts(t, "act", "me", NoArg, 0) /\ tab[t].stage = "closed" /\ tab' = [tab EXCEPT ![t].stage = "opening"]
  BY DEF Opens
<1>2. "me" \in DOMAIN Routes /\ "me" \notin Limited \cup {"decideApproval"} /\ Chosen("me", NoArg) /\ "act" \in Slots
  BY OnItsOwn, Choices DEF Slots
<1>3. TabsKept /\ tab'[t].stage # "closed"
  BY <1>1 DEF Client, TabsFormed, TabsKept
<1>4. \A h \in handlers : h.heard => ~(h.tab = t /\ h.slot = "act")
  BY <1>1, <1>2, NobodyAnswersIdle
<1>5. Unused(0)
  BY DEF Unused
<1> QED
  BY <1>1, <1>2, <1>3, <1>4, <1>5, StartsKeeps

LEMMA FreshNumber ==
    ASSUME Known, budget.calls > 0
    PROVE  budget.calls \in Nat /\ Unused(budget.calls)
<1>1. budget.calls \in Nat
  BY DEF Known, Planned
<1>2. \A i : i # 0 /\ Past(i, budget.calls) => i # budget.calls
  BY <1>1 DEF Past
<1> QED
  BY <1>1, <1>2 DEF Known, Dated, Unused

LEMMA ActsKeeps ==
    ASSUME Known, Requests, Client, NEW t \in Tabs, Acts(t)
    PROVE  ClientKept
<1>1. PICK r \in budget.routes : \E arg \in Args(r) : Starts(t, "act", r, arg, budget.calls)
  BY DEF Acts
<1>2. PICK arg \in Args(r) : Starts(t, "act", r, arg, budget.calls)
  BY <1>1
<1>3. r \in DOMAIN Routes /\ "act" \in Slots
  BY DEF Known, Planned, Slots
<1>4. tab' = tab /\ tab[t].stage # "closed" /\ call[t]["act"] = Idle /\ budget.calls > 0
  BY DEF Acts
<1>5. TabsKept /\ tab'[t].stage # "closed"
  BY <1>4 DEF Client, TabsKept
<1>6. \A h \in handlers : h.heard => ~(h.tab = t /\ h.slot = "act")
  BY <1>3, <1>4, NobodyAnswersIdle
<1>7. PICK id \in Nat : id = budget.calls /\ id > 0 /\ Unused(id)
  BY <1>4, FreshNumber
<1>8. Chosen(r, arg)
  BY <1>2, Choices
<1>9. Starts(t, "act", r, arg, id) /\ id # 0
  BY <1>2, <1>7
<1> QED
  BY <1>3, <1>5, <1>6, <1>7, <1>8, <1>9, StartsKeeps

LEMMA ReloadsKeeps ==
    ASSUME Known, Requests, Client, NEW t \in Tabs, Reloads(t)
    PROVE  ClientKept
<1>1. PICK slot \in ReloadSlots : call[t][slot] = Idle /\ \E r \in budget.loads : Starts(t, slot, r, NoArg, 0)
  BY DEF Reloads
<1>2. PICK r \in budget.loads : Starts(t, slot, r, NoArg, 0)
  BY <1>1
<1>3. r \in DOMAIN Routes /\ r \notin Limited \cup {"decideApproval"} /\ slot \in Slots
  BY OnItsOwn DEF Known, Planned, Slots
<1>4. Chosen(r, NoArg) /\ Unused(0)
  BY <1>3, Choices DEF Unused
<1>5. tab' = tab /\ tab[t].user
  BY DEF Reloads
<1>6. TabsKept /\ tab'[t].stage # "closed"
  BY <1>5 DEF Client, TabsFormed, TabsKept
<1>7. \A h \in handlers : h.heard => ~(h.tab = t /\ h.slot = slot)
  BY <1>1, <1>3, NobodyAnswersIdle
<1> QED
  BY <1>2, <1>3, <1>4, <1>6, <1>7, StartsKeeps

LEMMA ClosesKeeps ==
    ASSUME Requests, Client, NEW t \in Tabs, Closes(t)
    PROVE  ClientKept
<1> DEFINE g == [x \in handlers |-> IF x.tab = t THEN [x EXCEPT !.heard = FALSE] ELSE x]
<1>1. \A x \in handlers : Kept(x, g[x]) /\ (g[x].tab = t => g[x].heard = FALSE)
  <2> SUFFICES ASSUME NEW x \in handlers  PROVE Kept(x, g[x]) /\ (g[x].tab = t => g[x].heard = FALSE)
    OBVIOUS
  <2>1. Sound(x)
    BY DEF Requests, AllSound
  <2>2. CASE x.tab = t
    BY <2>1, <2>2 DEF Sound, Kept, Same, Fields
  <2>3. CASE x.tab # t
    BY <2>1, <2>3 DEF Sound, Kept, Same
  <2> QED
    BY <2>2, <2>3
<1>2. handlers' = {g[x] : x \in handlers}
  BY DEF Closes
<1>3. tab' = [tab EXCEPT ![t] = Closed] /\ call' = [call EXCEPT ![t] = [slot \in Slots |-> Idle]]
  BY DEF Closes
<1>4. TabsFormed(tab') /\ \A u \in Tabs : u # t => tab'[u] = tab[u]
  BY <1>3 DEF Client, TabsFormed, Closed
<1>5. CallsFormed(call') /\ \A u \in Tabs : u # t => call'[u] = call[u]
  <2>1. Formed(Idle) /\ Idle.id = 0
    BY IdleFormed DEF Idle
  <2>2. DOMAIN call' = Tabs /\ \A u \in Tabs : u # t => call'[u] = call[u]
    BY <1>3 DEF Client, CallsFormed
  <2>3. DOMAIN call'[t] = Slots /\ \A s \in Slots : call'[t][s] = Idle
    BY <1>3 DEF Client, CallsFormed
  <2>4. \A u, v \in Tabs : \A r, s \in Slots : call'[u][r].id = call'[v][s].id /\ call'[u][r].id # 0 => u = v /\ r = s
    <3> SUFFICES ASSUME NEW u \in Tabs, NEW v \in Tabs, NEW r \in Slots, NEW s \in Slots,
                        call'[u][r].id = call'[v][s].id, call'[u][r].id # 0
                 PROVE  u = v /\ r = s
      OBVIOUS
    <3>1. u # t /\ v # t
      BY <2>1, <2>3
    <3> QED
      BY <2>2, <3>1 DEF Client, CallsFormed
  <2>5. \A u \in Tabs : DOMAIN call'[u] = Slots /\ \A s \in Slots : Formed(call'[u][s])
    <3> SUFFICES ASSUME NEW u \in Tabs  PROVE DOMAIN call'[u] = Slots /\ \A s \in Slots : Formed(call'[u][s])
      OBVIOUS
    <3>1. CASE u = t
      BY <2>1, <2>3, <3>1
    <3>2. CASE u # t
      BY <2>2, <3>2 DEF Client, CallsFormed
    <3> QED
      BY <3>1, <3>2
  <2> QED
    BY <2>2, <2>4, <2>5 DEF CallsFormed
<1> HIDE DEF g
<1>6. /\ AllSound(handlers) => AllSound({g[x] : x \in handlers})
      /\ Heard(handlers) => Heard({g[x] : x \in handlers})
      /\ \A cl, tb : Awaited(handlers, cl, tb) => Awaited({g[x] : x \in handlers}, cl, tb)
      /\ Attempts(handlers) => Attempts({g[x] : x \in handlers})
      /\ \A cl : Latest(handlers, cl) => Latest({g[x] : x \in handlers}, cl)
      /\ \A n : Queued(handlers, n) => Queued({g[x] : x \in handlers}, n)
      /\ \A c : Ready(handlers, c) => Ready({g[x] : x \in handlers}, c)
      /\ \A n, l : Overtaken(handlers, n, l) => Overtaken({g[x] : x \in handlers}, n, l)
  BY <1>1, Images
<1>7. Awaited(handlers', call, tab) /\ AllSound(handlers')
  BY <1>2, <1>6 DEF Requests, Client
<1>8. Awaited(handlers', call', tab')
  <2> SUFFICES ASSUME NEW x \in handlers', x.heard
               PROVE  Answers(x, call'[x.tab][x.slot]) /\ tab'[x.tab].stage # "closed"
    BY DEF Awaited
  <2>1. x.tab \in Tabs /\ x.tab # t
    BY <1>1, <1>2, <1>7 DEF AllSound, Sound
  <2> QED
    BY <1>4, <1>5, <1>7, <2>1 DEF Awaited
<1>9. Latest(handlers', call')
  <2> SUFFICES ASSUME NEW x \in handlers', NEW u \in Tabs, NEW s \in Slots, call'[u][s].id = x.id, x.id # 0
               PROVE  x.n <= call'[u][s].n
    BY DEF Latest
  <2>1. \A r \in Slots : call'[t][r].id = 0
    BY <1>3 DEF Client, CallsFormed, Idle
  <2>2. u # t
    BY <2>1
  <2>3. Latest(handlers', call)
    BY <1>2, <1>6 DEF Client
  <2> QED
    BY <1>5, <2>2, <2>3 DEF Latest
<1> QED
  BY <1>2, <1>4, <1>5, <1>6, <1>8, <1>9 DEF ClientKept, Requests, Client

(***************************************************************************)
(* The handlers.                                                           *)
(***************************************************************************)
\* What an await makes of its request: the route ends with an error, or goes on.
Ends(x) == x.todo = <<>> /\ x.code # 200
GoesOn(h, x) == h.todo # <<>> /\ x.todo = Tail(h.todo) /\ x.code = h.code
Moved(h, x) ==
    /\ DOMAIN x = Fields /\ x.tab = h.tab /\ x.slot = h.slot /\ x.heard = h.heard /\ x.jar = h.jar
    /\ x.route = h.route /\ x.arg = h.arg /\ x.n = h.n /\ x.id = h.id /\ x.prev \in Nat
    /\ Ends(x) \/ GoesOn(h, x)
    /\ DOMAIN x.seen = Steps
    /\ x.prev = h.prev \/ Head(h.todo) \in {"lock", "last"}
    /\ x.cookies \in {h.cookies, Keep} \/ Head(h.todo) \in {"create", "rotate", "revoke"}
    /\ x.found = h.found \/ Head(h.todo) = "find"
Aged(H) == {[y EXCEPT !.view = IF y.slot \in ReloadSlots THEN Older(@) ELSE @] : y \in H}
Serve(h, x) ==
    /\ Moved(h, x) /\ call' = call
    /\ \/ handlers' = (handlers \ {h}) \cup {x} /\ tab' = tab
       \/ /\ handlers' = Aged((handlers \ {h}) \cup {x})
          /\ tab' = [t \in Tabs |-> [tab[t] EXCEPT !.shown = Older(@)]]

LEMMA MovedSound ==
    ASSUME NEW h, Sound(h), NEW x, Moved(h, x)
    PROVE  /\ Sound(x)
           /\ AtLink(x) => Head(h.todo) = "lock"
           /\ AtEvent(x) => Head(h.todo) = "last"
           /\ AtMode(x) /\ x.arg.value = "LIVE" => Head(h.todo) = "ready"
<1>1. Called(x) /\ x.route \in DOMAIN Routes /\ x.heard \in BOOLEAN
  BY DEF Moved, Sound, Called
<1>2. x.todo = <<>> => Ordered(x.todo, x.route)
  BY DEF Ordered, Follows
<1>3. CASE x.todo = <<>>
  BY <1>1, <1>2, <1>3 DEF Sound, Moved, AtLink, AtEvent, AtMode
<1>4. CASE x.todo # <<>> /\ GoesOn(h, x)
  <2>1. /\ x.todo \in Seq(STRING) /\ Ordered(x.todo, x.route) /\ Head(h.todo) \notin Commits
        /\ AtLink(x) => Head(h.todo) = "lock"
        /\ AtEvent(x) => Head(h.todo) = "last"
        /\ AtMode(x) /\ h.route = "goLive" => Head(h.todo) = "ready"
    <3>1. PICK s \in Seq(STRING) : s = h.todo /\ s # <<>> /\ Ordered(s, h.route) /\ x.todo = Tail(s)
      BY <1>4 DEF GoesOn, Sound
    <3>2. /\ Tail(s) \in Seq(STRING) /\ Ordered(Tail(s), h.route) /\ (Head(s) \in Commits => Tail(s) = <<>>)
          /\ Tail(s) # <<>> => (Head(Tail(s)) = "link" => Head(s) = "lock")
          /\ Tail(s) # <<>> => (Head(Tail(s)) = "event" => Head(s) = "last")
          /\ Tail(s) # <<>> /\ h.route = "goLive" => (Head(Tail(s)) = "mode" => Head(s) = "ready")
      BY <3>1, RestOrdered
    <3>3. x.route = h.route
      BY DEF Moved
    <3> QED
      BY <1>4, <3>1, <3>2, <3>3 DEF AtLink, AtEvent, AtMode
  <2>2. h.arg.value = "LIVE" => h.route = "goLive"
    BY DEF Sound, Called
  <2>3. x.code = 200 /\ x.cookies = Keep
    BY <1>4, <2>1 DEF GoesOn, Sound, Moved, Commits
  <2> QED
    BY <1>1, <2>1, <2>2, <2>3 DEF Sound, Moved
<1> QED
  BY <1>3, <1>4 DEF Moved, Ends

LEMMA Ages ==
    ASSUME NEW H, AllSound(H)
    PROVE  /\ AllSound(Aged(H))
           /\ Heard(H) => Heard(Aged(H))
           /\ \A cl, tb : Awaited(H, cl, tb) => Awaited(Aged(H), cl, tb)
           /\ Attempts(H) => Attempts(Aged(H))
           /\ \A cl : Latest(H, cl) => Latest(Aged(H), cl)
           /\ \A n : Queued(H, n) => Queued(Aged(H), n)
           /\ \A c : Ready(H, c) => Ready(Aged(H), c)
           /\ \A n, l : Overtaken(H, n, l) => Overtaken(Aged(H), n, l)
<1> DEFINE g == [y \in H |-> [y EXCEPT !.view = IF y.slot \in ReloadSlots THEN Older(@) ELSE @]]
<1>1. \A y \in H : Kept(y, g[y])
  <2> SUFFICES ASSUME NEW y \in H  PROVE Kept(y, g[y])
    OBVIOUS
  <2>1. DOMAIN y = Fields /\ y.heard \in BOOLEAN /\ g[y] = [y EXCEPT !.view = IF y.slot \in ReloadSlots THEN Older(@) ELSE @]
    BY DEF AllSound, Sound
  <2>2. DOMAIN g[y] = Fields /\ Same(y, g[y]) /\ g[y].heard = y.heard
    BY <2>1 DEF Same, Fields
  <2> HIDE DEF g
  <2> QED
    BY <2>1, <2>2 DEF Kept
<1>2. Aged(H) = {g[y] : y \in H}
  BY DEF Aged
<1> HIDE DEF g
<1>3. /\ AllSound(H) => AllSound({g[y] : y \in H})
      /\ Heard(H) => Heard({g[y] : y \in H})
      /\ \A cl, tb : Awaited(H, cl, tb) => Awaited({g[y] : y \in H}, cl, tb)
      /\ Attempts(H) => Attempts({g[y] : y \in H})
      /\ \A cl : Latest(H, cl) => Latest({g[y] : y \in H}, cl)
      /\ \A n : Queued(H, n) => Queued({g[y] : y \in H}, n)
      /\ \A c : Ready(H, c) => Ready({g[y] : y \in H}, c)
      /\ \A n, l : Overtaken(H, n, l) => Overtaken({g[y] : y \in H}, n, l)
  BY <1>1, Images
<1> QED
  BY <1>2, <1>3

\* A server step leaves the requests sound and the client as it was; what holds of the set of requests with the moved
\* one in it holds of the new set.
LEMMA ServeKeeps ==
    ASSUME Requests, Client, NEW h \in handlers, NEW x, Serve(h, x)
    PROVE  LET H == (handlers \ {h}) \cup {x} IN
           /\ Requests' /\ Client'
           /\ \A n : Queued(H, n) => Queued(handlers', n)
           /\ \A c : Ready(H, c) => Ready(handlers', c)
           /\ \A n, l : Overtaken(H, n, l) => Overtaken(handlers', n, l)
<1> DEFINE H == (handlers \ {h}) \cup {x}
<1>1. /\ Sound(h) /\ Sound(x) /\ x.tab = h.tab /\ x.slot = h.slot /\ x.heard = h.heard
      /\ x.route = h.route /\ x.arg = h.arg /\ x.n = h.n /\ x.id = h.id
  BY MovedSound DEF Requests, AllSound, Serve, Moved
<1>2. AllSound(H)
  BY <1>1 DEF Requests, AllSound
<1>3. Heard(H)
  BY <1>1 DEF Client, Heard
<1>4. Awaited(H, call, tab)
  BY <1>1 DEF Client, Awaited, Answers
<1>7. Attempts(H) /\ Latest(H, call)
  BY <1>1 DEF Client, Attempts, Latest
<1> HIDE DEF H
<1>5. CASE handlers' = H /\ tab' = tab
  <2>1. call' = call
    BY DEF Serve
  <2> QED
    BY <1>2, <1>3, <1>4, <1>5, <1>7, <2>1 DEF Requests, Client, H
<1>6. CASE handlers' = Aged(H) /\ tab' = [t \in Tabs |-> [tab[t] EXCEPT !.shown = Older(@)]]
  <2>1. call' = call
    BY DEF Serve
  <2>2. TabsFormed(tab') /\ \A t \in Tabs : tab'[t].stage = tab[t].stage
    BY <1>6 DEF Client, TabsFormed
  <2>3. AllSound(handlers') /\ Heard(handlers') /\ Awaited(handlers', call, tab)
    BY <1>2, <1>3, <1>4, <1>6, Ages
  <2>4. Awaited(handlers', call', tab')
    <3> SUFFICES ASSUME NEW y \in handlers', y.heard
                 PROVE  Answers(y, call'[y.tab][y.slot]) /\ tab'[y.tab].stage # "closed"
      BY DEF Awaited
    <3>1. y.tab \in Tabs
      BY <2>3 DEF AllSound, Sound
    <3> QED
      BY <2>1, <2>2, <2>3, <3>1 DEF Awaited
  <2>5. /\ (\A n : Queued(H, n) => Queued(handlers', n)) /\ (\A c : Ready(H, c) => Ready(handlers', c))
        /\ \A n, l : Overtaken(H, n, l) => Overtaken(handlers', n, l)
    BY <1>2, <1>6, Ages
  <2>6. Attempts(handlers') /\ Latest(handlers', call')
    BY <1>2, <1>6, <1>7, <2>1, Ages
  <2> QED
    BY <2>1, <2>2, <2>3, <2>4, <2>5, <2>6 DEF Requests, Client, H
<1> QED
  BY <1>5, <1>6 DEF Serve, H

\* The fields of the rows that the chain, the trail of plain events and the certificates speak of.
ChainSame    == store'.audit = store.audit /\ proof'.forked = proof.forked
TrailSame    == store'.events = store.events /\ proof'.late = proof.late /\ proof'.crossed = proof.crossed
CertainSame  == /\ store'.marks = store.marks /\ store'.status = store.status /\ store'.checks = store.checks
                /\ store'.mode = store.mode
                /\ proof'.marks = proof.marks /\ proof'.lost = proof.lost /\ proof'.live = proof.live
                /\ proof'.raced = proof.raced
RowsSame     == ChainSame /\ TrailSame /\ CertainSame
Takes(h, x, await) == x.todo = <<>> \/ Head(h.todo) = await
Avoids(h, x, await) == x.todo = <<>> \/ Head(h.todo) # await

LEMMA ChainKept ==
    ASSUME Requests, Client, Chain, NEW h \in handlers, NEW x, Serve(h, x), Avoids(h, x, "lock"), ChainSame
    PROVE  Chain'
<1> DEFINE H == (handlers \ {h}) \cup {x}
<1>1. Sound(h) /\ Moved(h, x)
  BY DEF Requests, AllSound, Serve
<1>2. ~AtLink(x)
  BY <1>1, MovedSound DEF Avoids, AtLink
<1>3. \A n : Queued(handlers, n) => Queued(H, n)
  BY <1>2 DEF Queued
<1>4. \A n : Queued(H, n) => Queued(handlers', n)
  BY ServeKeeps
<1> QED
  BY <1>3, <1>4 DEF Chain, ChainSame

LEMMA TrailKept ==
    ASSUME Requests, Client, Trail, NEW h \in handlers, NEW x, Serve(h, x), Avoids(h, x, "last"), TrailSame
    PROVE  Trail'
<1> DEFINE H == (handlers \ {h}) \cup {x}
<1>1. Sound(h) /\ Moved(h, x)
  BY DEF Requests, AllSound, Serve
<1>2. ~AtEvent(x)
  BY <1>1, MovedSound DEF Avoids, AtEvent
<1>3. \A n, l : Overtaken(handlers, n, l) => Overtaken(H, n, l)
  BY <1>2 DEF Overtaken
<1>4. \A n, l : Overtaken(H, n, l) => Overtaken(handlers', n, l)
  BY ServeKeeps
<1> QED
  BY <1>3, <1>4 DEF Trail, TrailSame

LEMMA ReadyKept ==
    ASSUME Requests, Client, NEW h \in handlers, NEW x, Serve(h, x), NEW c, Ready(handlers, c),
           Avoids(h, x, "ready") \/ Steps \subseteq c
    PROVE  Ready(handlers', c)
<1> DEFINE H == (handlers \ {h}) \cup {x}
<1>1. Sound(h) /\ Moved(h, x)
  BY DEF Requests, AllSound, Serve
<1>2. AtMode(x) /\ x.arg.value = "LIVE" => Steps \subseteq c
  BY <1>1, MovedSound DEF Avoids, AtMode
<1>3. Ready(H, c)
  BY <1>2 DEF Ready
<1> QED
  BY <1>3, ServeKeeps

LEMMA CertainKept ==
    ASSUME Requests, Client, Certain, NEW h \in handlers, NEW x, Serve(h, x),
           Avoids(h, x, "ready") \/ Steps \subseteq store.checks, CertainSame
    PROVE  Certain'
<1>1. ASSUME ~proof.raced  PROVE Ready(handlers', store.checks)
  <2>1. PICK c : c = store.checks
    OBVIOUS
  <2>2. Ready(handlers, c)
    BY <1>1, <2>1 DEF Certain
  <2>3. Ready(handlers', c)
    BY <2>1, <2>2, ReadyKept
  <2> QED
    BY <2>1, <2>3
<1> QED
  BY <1>1 DEF Certain, CertainSame

\* The answers of an await: the route goes on, or ends with an error.
LEMMA Answered ==
    ASSUME NEW h, Sound(h), h.todo # <<>>, NEW v, NEW w
    PROVE  /\ v # 200 => Moved(h, Refused(h, v))
           /\ Refused(h, v).todo = <<>>
           /\ Moved(h, Proceeds(h))
           /\ Moved(h, [Proceeds(h) EXCEPT !.view = v])
           /\ DOMAIN v = Steps => Moved(h, [Proceeds(h) EXCEPT !.seen = v, !.view = w])
           /\ Head(h.todo) \in {"create", "rotate", "revoke"} => Moved(h, [Proceeds(h) EXCEPT !.cookies = v])
           /\ Head(h.todo) = "find" => Moved(h, [Proceeds(h) EXCEPT !.found = v])
           /\ v \in Nat /\ Head(h.todo) \in {"lock", "last"} => Moved(h, [Proceeds(h) EXCEPT !.prev = v])
BY DEF Sound, Moved, Ends, GoesOn, Refused, Proceeds, Fields

\* The answer to a statement that failed, which may have been the last one.
Failed(h) == [Refused(h, 500) EXCEPT !.cookies = Keep]
LEMMA FailureMoves ==
    ASSUME NEW h, Sound(h)
    PROVE  Moved(h, Failed(h)) /\ Failed(h).todo = <<>> /\ Ends(Failed(h)) /\ Failed(h).cookies = Keep
BY DEF Sound, Moved, Ends, Refused, Failed, Fields

LEMMA BecomesServes ==
    ASSUME NEW h, NEW x, Moved(h, x), Becomes(h, x), call' = call, tab' = tab
    PROVE  Serve(h, x)
BY DEF Becomes, Serve

LEMMA ChangesServes ==
    ASSUME NEW h, NEW x, Moved(h, x), Changes(h, x)
    PROVE  Serve(h, x)
BY DEF Changes, Serving, Serve, Aged

\* The steps that touch neither the chain nor what is certified.
Plain(h, x) ==
    /\ Serve(h, x) /\ Avoids(h, x, "lock") /\ Avoids(h, x, "last")
    /\ (Avoids(h, x, "ready") \/ Steps \subseteq store.checks)
    /\ Rows' /\ RowsSame

LEMMA PlainKeeps ==
    ASSUME Safe, NEW h \in handlers, NEW x, Plain(h, x), Known'
    PROVE  Safe'
BY ServeKeeps, ChainKept, TrailKept, CertainKept DEF Safe, Plain, RowsSame

LEMMA NothingElse ==
    ASSUME Rows, store' = store, proof' = proof
    PROVE  Rows' /\ RowsSame
BY DEF Rows, RowsSame, ChainSame, TrailSame, CertainSame

LEMMA ReadsPlain ==
    ASSUME Safe, NEW h \in handlers, Head(h.todo) \notin {"lock", "last", "ready"}, Reading,
           NEW x, Moved(h, x), Becomes(h, x)
    PROVE  Plain(h, x)
<1>1. Serve(h, x)
  BY BecomesServes DEF Reading, Serving
<1>2. Rows' /\ RowsSame
  BY NothingElse DEF Safe, Reading
<1> QED
  BY <1>1, <1>2 DEF Plain, Avoids

PlainActions(h) ==
    \/ Enforces(h) \/ Authenticates(h) \/ ChecksCsrf(h) \/ Reauthenticates(h) \/ ChecksRole(h) \/ Reads(h) \/ Writes(h)
    \/ Decides(h) \/ ReadsSteps(h)
    \/ CreatesSession(h) \/ FindsSession(h) \/ Rotates(h) \/ Revokes(h) \/ QueryFails(h)

LEMMA PlainAction ==
    ASSUME Safe, NEW h \in handlers, PlainActions(h)
    PROVE  \E x : Plain(h, x)
<1>1. Sound(h) /\ (h.todo # <<>> \/ QueryFails(h))
  BY DEF Safe, Requests, AllSound, PlainActions, Enforces, Authenticates, ChecksCsrf, Reauthenticates, ChecksRole, Reads,
         Writes, Decides, ReadsSteps, CreatesSession, FindsSession, Rotates, Revokes, At
<1>19. CASE QueryFails(h)
  <2>1. PICK x : x = Failed(h)
    OBVIOUS
  <2>2. Moved(h, x) /\ x.todo = <<>>
    BY <1>1, <2>1, FailureMoves
  <2>3. Serve(h, x)
    BY <1>19, <2>1, <2>2, BecomesServes DEF QueryFails, Failed
  <2>4. Rows' /\ RowsSame
    BY <1>19, NothingElse DEF QueryFails, Safe
  <2> QED
    BY <2>2, <2>3, <2>4 DEF Plain, Avoids
<1> SUFFICES ASSUME h.todo # <<>>  PROVE \E x : Plain(h, x)
  BY <1>1, <1>19
<1>2. \A v : (v # 200 => Moved(h, Refused(h, v))) /\ Refused(h, v).todo = <<>>
  BY <1>1, Answered
<1>3. Moved(h, Proceeds(h)) /\ \A v : Moved(h, [Proceeds(h) EXCEPT !.view = v])
  BY <1>1, Answered
<1>4. \A v, w : /\ DOMAIN v = Steps => Moved(h, [Proceeds(h) EXCEPT !.seen = v, !.view = w])
                /\ Head(h.todo) \in {"create", "rotate", "revoke"} => Moved(h, [Proceeds(h) EXCEPT !.cookies = v])
                /\ Head(h.todo) = "find" => Moved(h, [Proceeds(h) EXCEPT !.found = v])
  BY <1>1, Answered
<1>5. CASE Enforces(h)
  <2>1. PICK x \in {Proceeds(h), Refused(h, 429)} : Becomes(h, x)
    BY <1>5 DEF Enforces
  <2>2. Serve(h, x)
    BY <1>2, <1>3, <1>5, <2>1, BecomesServes DEF Enforces
  <2>3. Rows' /\ RowsSame
    BY <1>5 DEF Enforces, Safe, Rows, RowsSame, ChainSame, TrailSame, CertainSame
  <2> QED
    BY <1>5, <2>2, <2>3 DEF Plain, Avoids, At, Enforces
<1>6. CASE Authenticates(h)
  <2>1. PICK x \in {Proceeds(h), Refused(h, 401)} : Becomes(h, x)
    BY <1>6 DEF Authenticates
  <2>2. Head(h.todo) = "auth" /\ Reading
    BY <1>6 DEF Authenticates, At
  <2>3. Moved(h, x)
    BY <1>2, <1>3, <2>1
  <2> QED
    BY <2>1, <2>2, <2>3, ReadsPlain
<1>7. CASE ChecksCsrf(h)
  <2>1. PICK x \in {Proceeds(h), Refused(h, 401)} : Becomes(h, x)
    BY <1>7 DEF ChecksCsrf
  <2>2. Head(h.todo) = "csrf" /\ Reading
    BY <1>7 DEF ChecksCsrf, At
  <2>3. Moved(h, x)
    BY <1>2, <1>3, <2>1
  <2> QED
    BY <2>1, <2>2, <2>3, ReadsPlain
<1>8. CASE Reauthenticates(h)
  <2>1. PICK x \in {Proceeds(h), Refused(h, 401)} : Becomes(h, x)
    BY <1>8 DEF Reauthenticates
  <2>2. Head(h.todo) \in {"reauth", "reauthIfGiven"} /\ Reading
    BY <1>8 DEF Reauthenticates, At
  <2>3. Moved(h, x)
    BY <1>2, <1>3, <2>1
  <2> QED
    BY <2>1, <2>2, <2>3, ReadsPlain
<1>9. CASE ChecksRole(h)
  <2>1. PICK x \in {Proceeds(h), Refused(h, 401)} : Becomes(h, x)
    BY <1>9 DEF ChecksRole
  <2>2. Head(h.todo) = "admin" /\ Reading
    BY <1>9 DEF ChecksRole, At
  <2>3. Moved(h, x)
    BY <1>2, <1>3, <2>1
  <2> QED
    BY <2>1, <2>2, <2>3, ReadsPlain
<1>10. CASE Reads(h)
  <2>1. Head(h.todo) = "read" /\ Reading /\ Becomes(h, [Proceeds(h) EXCEPT !.view = "new"])
    BY <1>10 DEF Reads, At
  <2> QED
    BY <1>3, <2>1, ReadsPlain
<1>11. CASE Writes(h)
  <2>1. Serve(h, Proceeds(h))
    BY <1>3, <1>11, ChangesServes DEF Writes
  <2>2. Rows' /\ RowsSame
    BY <1>11, NothingElse DEF Writes, Safe
  <2> QED
    BY <1>11, <2>1, <2>2 DEF Plain, Avoids, At, Writes
<1>12. CASE Decides(h)
  <2>1. CASE store.approval = "PENDING"
    <3>1. Serve(h, Proceeds(h))
      BY <1>3, <1>12, <2>1, ChangesServes DEF Decides
    <3>2. store' = [store EXCEPT !.approval = h.arg.value, !.by = h.id] /\ proof' = proof
      BY <1>12, <2>1 DEF Decides
    <3>3. Rows' /\ RowsSame
      BY <3>2 DEF Safe, Rows, RowsSame, ChainSame, TrailSame, CertainSame
    <3> QED
      BY <1>12, <3>1, <3>3 DEF Plain, Avoids, At, Decides
  <2>2. CASE store.approval # "PENDING"
    <3>1. Head(h.todo) = "decide" /\ Reading /\ Becomes(h, Refused(h, 404))
      BY <1>12, <2>2 DEF Decides, At
    <3> QED
      BY <1>2, <3>1, ReadsPlain
  <2> QED
    BY <2>1, <2>2
<1>13. CASE ReadsSteps(h)
  <2>1. PICK x : x = [Proceeds(h) EXCEPT !.seen = store.marks, !.view = "new"]
    OBVIOUS
  <2>2. Head(h.todo) = "steps" /\ Reading /\ Becomes(h, x)
    BY <1>13, <2>1 DEF ReadsSteps, At
  <2>3. Moved(h, x)
    BY <1>4, <2>1 DEF Safe, Rows
  <2> QED
    BY <2>2, <2>3, ReadsPlain
<1>15. CASE CreatesSession(h)
  <2>1. PICK v : Becomes(h, [Proceeds(h) EXCEPT !.cookies = v])
    BY <1>15 DEF CreatesSession
  <2>2. Serve(h, [Proceeds(h) EXCEPT !.cookies = v])
    BY <1>4, <1>15, <2>1, BecomesServes DEF CreatesSession, Serving, At
  <2>3. Rows' /\ RowsSame
    BY <1>15, NothingElse DEF CreatesSession, Safe
  <2> QED
    BY <1>15, <2>2, <2>3 DEF Plain, Avoids, At, CreatesSession
<1>16. CASE FindsSession(h)
  <2>1. PICK x \in {[Proceeds(h) EXCEPT !.found = h.jar.sid], Refused(h, 401)} : Becomes(h, x)
    BY <1>16 DEF FindsSession
  <2>2. Head(h.todo) = "find" /\ Reading
    BY <1>16 DEF FindsSession, At
  <2>3. Moved(h, x)
    <3>1. Moved(h, [Proceeds(h) EXCEPT !.found = h.jar.sid])
      BY <1>4, <2>2
    <3>2. Moved(h, Refused(h, 401))
      BY <1>2
    <3> QED
      BY <2>1, <3>1, <3>2
  <2> QED
    BY <2>1, <2>2, <2>3, ReadsPlain
<1>17. CASE Rotates(h)
  <2>1. PICK x \in {[Proceeds(h) EXCEPT !.cookies = Pair(h)], Refused(h, 401)} : Becomes(h, x)
    BY <1>17 DEF Rotates
  <2>2. Moved(h, x)
    <3>1. Head(h.todo) = "rotate"
      BY <1>17 DEF Rotates, At
    <3>2. Moved(h, [Proceeds(h) EXCEPT !.cookies = Pair(h)])
      BY <1>4, <3>1
    <3>3. Moved(h, Refused(h, 401))
      BY <1>2
    <3> QED
      BY <2>1, <3>2, <3>3
  <2>3. Serve(h, x)
    BY <1>17, <2>1, <2>2, BecomesServes DEF Rotates
  <2>4. Rows' /\ RowsSame
    BY <1>17, NothingElse DEF Rotates, Safe
  <2> QED
    BY <1>17, <2>3, <2>4 DEF Plain, Avoids, At, Rotates
<1>18. CASE Revokes(h)
  <2>1. PICK v : Becomes(h, [Proceeds(h) EXCEPT !.cookies = v])
    BY <1>18 DEF Revokes
  <2>2. Serve(h, [Proceeds(h) EXCEPT !.cookies = v])
    BY <1>4, <1>18, <2>1, BecomesServes DEF Revokes, Serving, At
  <2>3. Rows' /\ RowsSame
    BY <1>18, NothingElse DEF Revokes, Safe
  <2> QED
    BY <1>18, <2>2, <2>3 DEF Plain, Avoids, At, Revokes
<1> QED
  BY <1>5, <1>6, <1>7, <1>8, <1>9, <1>10, <1>11, <1>12, <1>13, <1>15, <1>16, <1>17, <1>18, <1>19 DEF PlainActions

\* A mark lands on the row; a mark that the written steps had not seen is known to be lost.
LEMMA WritesStepKeeps ==
    ASSUME Safe, NEW h \in handlers, WritesStep(h), Known'
    PROVE  Safe'
<1> DEFINE marks == [h.seen EXCEPT ![h.arg.step] = h.arg.value]
           x == Proceeds(h)
<1>1. Sound(h) /\ h.todo # <<>> /\ Head(h.todo) = "step"
  BY DEF Safe, Requests, AllSound, WritesStep, At
<1>2. Serve(h, x)
  <2>1. Moved(h, x)
    BY <1>1, Answered
  <2> QED
    BY <2>1, ChangesServes DEF WritesStep
<1>3. /\ store' = [store EXCEPT !.marks = marks, !.status = WizardStatus(marks)]
      /\ proof' = [proof EXCEPT !.marks[h.arg.step] = h.arg.value, !.lost = (@ \cup Overwritten(h)) \ {h.arg.step}]
  BY DEF WritesStep
<1>4. /\ store'.marks = marks /\ store'.status = WizardStatus(marks)
      /\ store'.audit = store.audit /\ store'.checks = store.checks /\ store'.mode = store.mode
      /\ store'.events = store.events /\ DOMAIN store' = DOMAIN store
  BY <1>3 DEF Safe, Rows
<1>5. /\ DOMAIN proof' = DOMAIN proof
      /\ proof'.marks = [proof.marks EXCEPT ![h.arg.step] = h.arg.value]
      /\ proof'.lost = (proof.lost \cup Overwritten(h)) \ {h.arg.step}
      /\ proof'.live = proof.live /\ proof'.forked = proof.forked
      /\ proof'.raced = proof.raced /\ proof'.late = proof.late /\ proof'.crossed = proof.crossed
  BY <1>3 DEF Safe, Rows
<1>6. DOMAIN h.seen = Steps /\ h.arg.step \in Steps /\ DOMAIN proof.marks = Steps
  BY <1>1 DEF Sound, Called, Safe, Rows
<1>7. Rows'
  <2>1. DOMAIN store'.marks = Steps /\ DOMAIN proof'.marks = Steps
    BY <1>4, <1>5, <1>6
  <2> QED
    BY <1>4, <1>5, <2>1 DEF Safe, Rows
<1>8. Requests' /\ Client'
  BY <1>2, ServeKeeps DEF Safe
<1>9. Chain' /\ Trail'
  BY <1>1, <1>2, <1>4, <1>5, ChainKept, TrailKept DEF Safe, Avoids, ChainSame, TrailSame
<1>10. Certain'
  <2>1. store'.status = "PASSED" => \A k \in Steps : store'.marks[k] = "PASSED"
    BY <1>4 DEF WizardStatus
  <2>2. ASSUME NEW k \in Steps  PROVE store'.marks[k] = proof'.marks[k] \/ k \in proof'.lost
    <3>1. CASE k = h.arg.step
      BY <1>4, <1>5, <1>6, <3>1
    <3>2. CASE k # h.arg.step
      <4>1. store'.marks[k] = h.seen[k] /\ proof'.marks[k] = proof.marks[k]
        BY <1>4, <1>5, <1>6, <3>2
      <4>2. store.marks[k] # h.seen[k] => k \in proof'.lost
        BY <1>5, <3>2 DEF Overwritten
      <4>3. store.marks[k] = proof.marks[k] \/ k \in proof'.lost
        BY <1>5, <3>2 DEF Safe, Certain
      <4> QED
        BY <4>1, <4>2, <4>3
    <3> QED
      BY <3>1, <3>2
  <2>3. ASSUME ~proof.raced  PROVE Ready(handlers', store'.checks)
    <3>1. PICK c : c = store.checks
      OBVIOUS
    <3>2. Ready(handlers, c)
      BY <2>3, <3>1 DEF Safe, Certain
    <3>3. Ready(handlers', c)
      BY <1>1, <1>2, <3>2, ReadyKept DEF Safe, Avoids
    <3> QED
      BY <1>4, <3>1, <3>3
  <2>4. proof'.raced \/ Ready(handlers', store'.checks)
    BY <1>5, <2>3
  <2>5. store'.mode = "LIVE" => proof'.live
    BY <1>4, <1>5 DEF Safe, Certain
  <2> QED
    BY <2>1, <2>2, <2>4, <2>5 DEF Certain
<1> QED
  BY <1>7, <1>8, <1>9, <1>10 DEF Safe

\* Who goes on has just seen every check; the race is over when no switch to LIVE is left that began before it.
LEMMA ChecksReadinessServes ==
    ASSUME Safe, NEW h \in handlers, ChecksReadiness(h)
    PROVE  \E x : Serve(h, x) /\ (x.todo = <<>> \/ Steps \subseteq store.checks)
<1>1. Sound(h) /\ h.todo # <<>>
  BY DEF Safe, Requests, AllSound, ChecksReadiness, At
<1>2. CASE AllRequiredPassed(store.checks)
  <2>1. Moved(h, Proceeds(h))
    BY <1>1, Answered
  <2>2. Serve(h, Proceeds(h))
    BY <1>2, <2>1, BecomesServes DEF ChecksReadiness, Serving
  <2> QED
    BY <1>2, <2>2 DEF AllRequiredPassed
<1>3. CASE ~AllRequiredPassed(store.checks)
  <2>1. Moved(h, Refused(h, 403)) /\ Refused(h, 403).todo = <<>>
    <3>1. \A v : (v # 200 => Moved(h, Refused(h, v))) /\ Refused(h, v).todo = <<>>
      BY <1>1, Answered
    <3>2. 403 # 200
      OBVIOUS
    <3> QED
      BY <3>1, <3>2
  <2>2. Serve(h, Refused(h, 403))
    BY <1>3, <2>1, BecomesServes DEF ChecksReadiness, Serving
  <2> QED
    BY <2>1, <2>2
<1> QED
  BY <1>2, <1>3

LEMMA ChecksReadinessKeeps ==
    ASSUME Safe, NEW h \in handlers, ChecksReadiness(h), Known'
    PROVE  Safe'
<1>1. Sound(h) /\ h.todo # <<>> /\ Head(h.todo) = "ready"
  BY DEF Safe, Requests, AllSound, ChecksReadiness, At
<1>2. PICK x : Serve(h, x) /\ (x.todo = <<>> \/ Steps \subseteq store.checks)
  BY ChecksReadinessServes
<1>3. store' = store /\ proof' = [proof EXCEPT !.raced = @ /\ Switching # {}]
  BY DEF ChecksReadiness
<1>4. /\ DOMAIN proof' = DOMAIN proof /\ proof'.marks = proof.marks /\ proof'.lost = proof.lost
      /\ proof'.live = proof.live /\ proof'.forked = proof.forked
      /\ proof'.late = proof.late /\ proof'.crossed = proof.crossed
  BY <1>3 DEF Safe, Rows
<1>5. proof'.raced = (proof.raced /\ Switching # {})
  BY <1>3 DEF Safe, Rows
<1>6. Rows'
  <2>1. proof'.raced \in BOOLEAN
    BY <1>5
  <2> QED
    BY <1>3, <1>4, <2>1 DEF Safe, Rows
<1>7. Requests' /\ Client'
  BY <1>2, ServeKeeps DEF Safe
<1>8. Chain' /\ Trail'
  BY <1>1, <1>2, <1>3, <1>4, ChainKept, TrailKept DEF Safe, Avoids, ChainSame, TrailSame
<1>9. proof'.raced \/ Ready(handlers', store'.checks)
  <2> SUFFICES ASSUME ~proof'.raced  PROVE Ready(handlers', store'.checks)
    OBVIOUS
  <2>1. PICK c : c = store.checks
    OBVIOUS
  <2>2. ~proof.raced \/ Switching = {}
    BY <1>5
  <2>3. Ready(handlers, c)
    <3>1. CASE Switching = {}
      BY <3>1 DEF Ready, AtMode, At, Switching
    <3>2. CASE ~proof.raced
      BY <2>1, <3>2 DEF Safe, Certain
    <3> QED
      BY <2>2, <3>1, <3>2
  <2>4. Ready(handlers', c)
    BY <1>2, <2>1, <2>3, ReadyKept DEF Safe, Avoids
  <2> QED
    BY <1>3, <2>1, <2>4
<1>10. Certain'
  BY <1>3, <1>4, <1>9 DEF Safe, Certain
<1> QED
  BY <1>6, <1>7, <1>8, <1>10 DEF Safe

\* LIVE is set by who has seen checks that still hold, unless one was taken back under a switch to LIVE.
LEMMA SetsModeKeeps ==
    ASSUME Safe, NEW h \in handlers, SetsMode(h), Known'
    PROVE  Safe'
<1> DEFINE x == Proceeds(h)
<1>1. Sound(h) /\ h.todo # <<>> /\ Head(h.todo) = "mode"
  BY DEF Safe, Requests, AllSound, SetsMode, At
<1>2. Serve(h, x)
  <2>1. Moved(h, x)
    BY <1>1, Answered
  <2> QED
    BY <2>1, ChangesServes DEF SetsMode
<1>3. /\ store' = [store EXCEPT !.mode = h.arg.value]
      /\ proof' = [proof EXCEPT !.live = h.arg.value = "LIVE" /\ (store.checks = Steps \/ proof.raced)]
  BY DEF SetsMode
<1>4. /\ store'.marks = store.marks /\ store'.status = store.status /\ store'.mode = h.arg.value
      /\ store'.audit = store.audit /\ store'.events = store.events /\ store'.checks = store.checks
      /\ DOMAIN store' = DOMAIN store
  BY <1>3 DEF Safe, Rows
<1>5. /\ DOMAIN proof' = DOMAIN proof /\ proof'.marks = proof.marks /\ proof'.lost = proof.lost
      /\ proof'.forked = proof.forked /\ proof'.raced = proof.raced
      /\ proof'.late = proof.late /\ proof'.crossed = proof.crossed
  BY <1>3 DEF Safe, Rows
<1>6. proof'.live = (h.arg.value = "LIVE" /\ (store.checks = Steps \/ proof.raced))
  BY <1>3 DEF Safe, Rows
<1>7. Rows'
  BY <1>4, <1>5 DEF Safe, Rows
<1>8. Requests' /\ Client'
  BY <1>2, ServeKeeps DEF Safe
<1>9. Chain' /\ Trail'
  BY <1>1, <1>2, <1>4, <1>5, ChainKept, TrailKept DEF Safe, Avoids, ChainSame, TrailSame
<1>10. ASSUME ~proof.raced
       PROVE  Ready(handlers', store'.checks) /\ (h.arg.value = "LIVE" => store.checks = Steps)
  <2>1. PICK c : c = store.checks
    OBVIOUS
  <2>2. Ready(handlers, c)
    BY <1>10, <2>1 DEF Safe, Certain
  <2>3. Ready(handlers', c)
    BY <1>1, <1>2, <2>2, ReadyKept DEF Safe, Avoids
  <2>4. h.arg.value = "LIVE" => store.checks = Steps
    BY <1>1, <2>1, <2>2 DEF Ready, AtMode, Safe, Rows
  <2> QED
    BY <1>4, <2>1, <2>3, <2>4
<1>11. Certain'
  <2>1. proof'.raced \/ Ready(handlers', store'.checks)
    BY <1>5, <1>10
  <2>2. store'.mode = "LIVE" => proof'.live
    BY <1>4, <1>6, <1>10
  <2> QED
    BY <1>4, <1>5, <2>1, <2>2 DEF Safe, Certain
<1> QED
  BY <1>7, <1>8, <1>9, <1>11 DEF Safe

\* A check that is taken back behind a switch to LIVE that has seen it is a race.
LEMMA MarksCheckKeeps ==
    ASSUME Safe, NEW h \in handlers, MarksCheck(h), Known'
    PROVE  Safe'
<1> DEFINE x == Proceeds(h)
           watched == Switching # {}
<1>1. Sound(h) /\ h.todo # <<>> /\ Head(h.todo) = "check"
  BY DEF Safe, Requests, AllSound, MarksCheck, At
<1>2. Serve(h, x)
  <2>1. Moved(h, x)
    BY <1>1, Answered
  <2> QED
    BY <2>1, ChangesServes DEF MarksCheck
<1>3. /\ store' = [store EXCEPT !.checks = IF h.arg.value = "PASSED" THEN @ \cup {h.arg.step} ELSE @ \ {h.arg.step}]
      /\ proof' = [proof EXCEPT !.raced = @ \/ (h.arg.value # "PASSED" /\ watched)]
  BY DEF MarksCheck
<1>4. /\ store'.marks = store.marks /\ store'.status = store.status /\ store'.mode = store.mode
      /\ store'.audit = store.audit /\ store'.events = store.events /\ DOMAIN store' = DOMAIN store
      /\ store'.checks = IF h.arg.value = "PASSED" THEN store.checks \cup {h.arg.step} ELSE store.checks \ {h.arg.step}
  BY <1>3 DEF Safe, Rows
<1>5. /\ DOMAIN proof' = DOMAIN proof /\ proof'.marks = proof.marks /\ proof'.lost = proof.lost
      /\ proof'.forked = proof.forked /\ proof'.live = proof.live
      /\ proof'.late = proof.late /\ proof'.crossed = proof.crossed
  BY <1>3 DEF Safe, Rows
<1>6. proof'.raced = (proof.raced \/ (h.arg.value # "PASSED" /\ watched))
  BY <1>3 DEF Safe, Rows
<1>7. Rows'
  <2>1. proof'.raced \in BOOLEAN
    BY <1>6
  <2>2. store'.checks \subseteq Steps
    BY <1>1, <1>4 DEF Safe, Rows, Sound, Called
  <2> QED
    BY <1>4, <1>5, <2>1, <2>2 DEF Safe, Rows
<1>8. Requests' /\ Client'
  BY <1>2, ServeKeeps DEF Safe
<1>9. Chain' /\ Trail'
  BY <1>1, <1>2, <1>4, <1>5, ChainKept, TrailKept DEF Safe, Avoids, ChainSame, TrailSame
<1>10. ASSUME ~proof'.raced
       PROVE  Ready(handlers', store'.checks)
  <2>1. PICK c : c = store'.checks
    OBVIOUS
  <2>2. ~proof.raced /\ (h.arg.value = "PASSED" \/ ~watched)
    BY <1>6, <1>10
  <2>3. Ready(handlers, c)
    <3>1. CASE ~watched
      BY <3>1 DEF Ready, AtMode, At, Switching
    <3>2. CASE h.arg.value = "PASSED"
      BY <1>4, <2>1, <2>2, <3>2 DEF Safe, Certain, Ready
    <3> QED
      BY <2>2, <3>1, <3>2
  <2>4. Ready(handlers', c)
    BY <1>1, <1>2, <2>3, ReadyKept DEF Safe, Avoids
  <2> QED
    BY <2>1, <2>4
<1>11. Certain'
  <2>1. proof'.raced \/ Ready(handlers', store'.checks)
    BY <1>10
  <2> QED
    BY <1>4, <1>5, <2>1 DEF Safe, Certain
<1> QED
  BY <1>7, <1>8, <1>9, <1>11 DEF Safe

\* Who locks the head finds nobody before an insert, unless there was no head to lock.
LEMMA LocksHeadKeeps ==
    ASSUME Safe, NEW h \in handlers, LocksHead(h), Known'
    PROVE  Safe'
<1> DEFINE n == Len(store.audit)
           x == [Proceeds(h) EXCEPT !.prev = n]
<1>1. Sound(h) /\ h.todo # <<>> /\ Head(h.todo) = "lock" /\ n \in Nat
  BY DEF Safe, Requests, AllSound, Rows, LocksHead, At
<1>2. Moved(h, x)
  BY <1>1, Answered
<1>3. Serve(h, x)
  BY <1>2, BecomesServes DEF LocksHead, Serving
<1>4. /\ proof' = [proof EXCEPT !.forked = @ \/ (store.audit = <<>> /\ Linking # {})] /\ store' = store
      /\ handlers' = (handlers \ {h}) \cup {x}
  BY DEF LocksHead, Becomes
<1>5. /\ DOMAIN proof' = DOMAIN proof /\ proof'.marks = proof.marks /\ proof'.lost = proof.lost
      /\ proof'.live = proof.live /\ proof'.raced = proof.raced
      /\ proof'.late = proof.late /\ proof'.crossed = proof.crossed
  BY <1>4 DEF Safe, Rows
<1>6. proof'.forked = (proof.forked \/ (store.audit = <<>> /\ Linking # {}))
  BY <1>4 DEF Safe, Rows
<1>7. Rows'
  <2>1. proof'.forked \in BOOLEAN
    BY <1>6
  <2> QED
    BY <1>4, <1>5, <2>1 DEF Safe, Rows
<1>8. Requests' /\ Client'
  BY <1>3, ServeKeeps DEF Safe
<1>9. Certain' /\ Trail'
  BY <1>1, <1>3, <1>4, <1>5, CertainKept, TrailKept DEF Safe, Avoids, CertainSame, TrailSame
<1>10. Chain'
  <2> SUFFICES ASSUME ~proof'.forked
               PROVE  Queued(handlers', n)
    BY <1>4, <1>6 DEF Safe, Chain
  <2>1. Queued(handlers, n)
    BY <1>6 DEF Safe, Chain
  <2>2. \A y \in handlers : ~AtLink(y)
    <3> SUFFICES ASSUME NEW y \in handlers, AtLink(y)  PROVE FALSE
      OBVIOUS
    <3>1. y \in Linking
      BY DEF Linking, At, AtLink
    <3>2. y.prev = 0 /\ y.prev = n
      BY <2>1, <3>1 DEF LocksHead, HeadIsUnlocked, Queued
    <3>3. store.audit # <<>>
      BY <1>6, <3>1
    <3> QED
      BY <3>2, <3>3 DEF Safe, Rows
  <2>3. x.prev = n
    BY <1>1 DEF Sound, Proceeds, Fields
  <2> HIDE DEF x
  <2> QED
    BY <1>4, <2>2, <2>3 DEF Queued
<1> QED
  BY <1>7, <1>8, <1>9, <1>10 DEF Safe

\* The event that is inserted names the newest one, and nobody else has read it.
LEMMA LinksEventKeeps ==
    ASSUME Safe, NEW h \in handlers, LinksEvent(h), Known'
    PROVE  Safe'
<1> DEFINE n == Len(store.audit)
           x == Proceeds(h)
           H == (handlers \ {h}) \cup {x}
<1>1. Sound(h) /\ AtLink(h) /\ h.todo # <<>> /\ Head(h.todo) = "link" /\ n \in Nat
  BY DEF Safe, Requests, AllSound, Rows, LinksEvent, At, AtLink
<1>2. Moved(h, x)
  BY <1>1, Answered
<1>3. Serve(h, x)
  BY <1>2, ChangesServes DEF LinksEvent
<1>4. store' = [store EXCEPT !.audit = Append(@, h.prev)] /\ proof' = proof
  BY DEF LinksEvent
<1>5. /\ store'.marks = store.marks /\ store'.status = store.status /\ store'.mode = store.mode
      /\ store'.checks = store.checks /\ store'.events = store.events
      /\ DOMAIN store' = DOMAIN store /\ store'.audit = Append(store.audit, h.prev)
  BY <1>4 DEF Safe, Rows
<1>6. Rows'
  <2>1. store'.audit \in Seq(Nat)
    BY <1>1, <1>5 DEF Safe, Rows, Sound
  <2> QED
    BY <1>4, <1>5, <2>1 DEF Safe, Rows
<1>7. Requests' /\ Client'
  BY <1>3, ServeKeeps DEF Safe
<1>8. Certain' /\ Trail'
  BY <1>1, <1>3, <1>4, <1>5, CertainKept, TrailKept DEF Safe, Avoids, CertainSame, TrailSame
<1>9. Chain'
  <2> SUFFICES ASSUME ~proof.forked
               PROVE  /\ Queued(handlers', Len(store'.audit))
                      /\ \A k \in DOMAIN store'.audit : store'.audit[k] = k - 1
    BY <1>4 DEF Chain
  <2>1. Queued(handlers, n) /\ \A k \in DOMAIN store.audit : store.audit[k] = k - 1
    BY DEF Safe, Chain
  <2>2. h.prev = n /\ \A y \in handlers \ {h} : ~AtLink(y)
    BY <1>1, <2>1 DEF Queued
  <2>3. ~AtLink(x)
    BY <1>1, <1>2, MovedSound
  <2>4. \A m : Queued(H, m)
    BY <2>2, <2>3 DEF Queued
  <2> HIDE DEF x
  <2>5. \A m : Queued(handlers', m)
    BY <1>3, <2>4, ServeKeeps DEF Safe
  <2>6. \A k \in DOMAIN store'.audit : store'.audit[k] = k - 1
    <3>1. store.audit \in Seq(Nat) /\ store'.audit = Append(store.audit, n)
      BY <1>5, <2>2 DEF Safe, Rows
    <3> SUFFICES ASSUME NEW k \in 1..n + 1  PROVE store'.audit[k] = k - 1
      BY <1>1, <3>1
    <3>2. CASE k = n + 1
      BY <1>1, <3>1, <3>2
    <3>3. CASE k \in 1..n
      BY <1>1, <2>1, <3>1, <3>3
    <3> QED
      BY <1>1, <3>2, <3>3
  <2> QED
    BY <2>5, <2>6
<1> QED
  BY <1>6, <1>7, <1>8, <1>9 DEF Safe

\* Who reads the newest plain event stands before its insert with it.
LEMMA ReadsLastKeeps ==
    ASSUME Safe, NEW h \in handlers, ReadsLast(h), Known'
    PROVE  Safe'
<1> DEFINE n == Len(store.events)
           x == [Proceeds(h) EXCEPT !.prev = n]
<1>1. Sound(h) /\ h.todo # <<>> /\ Head(h.todo) = "last" /\ n \in Nat
  BY DEF Safe, Requests, AllSound, Rows, ReadsLast, At
<1>2. Moved(h, x)
  BY <1>1, Answered
<1>3. Serve(h, x)
  BY <1>2, BecomesServes DEF ReadsLast, Reading, Serving
<1>4. store' = store /\ proof' = proof /\ handlers' = (handlers \ {h}) \cup {x}
  BY DEF ReadsLast, Reading, Becomes
<1>5. Rows' /\ RowsSame
  BY <1>4, NothingElse DEF Safe
<1>6. Requests' /\ Client'
  BY <1>3, ServeKeeps DEF Safe
<1>7. Certain' /\ Chain'
  BY <1>1, <1>3, <1>5, CertainKept, ChainKept DEF Safe, Avoids, RowsSame
<1>8. Trail'
  <2>1. x.prev = n
    BY <1>1 DEF Sound, Proceeds, Fields
  <2> HIDE DEF x
  <2> QED
    BY <1>4, <2>1 DEF Safe, Trail, Overtaken
<1> QED
  BY <1>5, <1>6, <1>7, <1>8 DEF Safe

\* The event names the newest one, or was overtaken; every other one that is about to be inserted is, now.
LEMMA AppendsEventKeeps ==
    ASSUME Safe, NEW h \in handlers, AppendsEvent(h), Known'
    PROVE  Safe'
<1> DEFINE n == Len(store.events)
           x == Proceeds(h)
           H == (handlers \ {h}) \cup {x}
           late == proof.late \cup {Attempt(y) : y \in Appending \ {h}}
<1>1. Sound(h) /\ AtEvent(h) /\ h.todo # <<>> /\ Head(h.todo) = "event" /\ n \in Nat
  BY DEF Safe, Requests, AllSound, Rows, AppendsEvent, At, AtEvent
<1>2. Moved(h, x)
  BY <1>1, Answered
<1>3. Serve(h, x)
  BY <1>2, ChangesServes DEF AppendsEvent
<1>4. /\ store' = [store EXCEPT !.events = Append(@, h.prev)]
      /\ proof' = [proof EXCEPT !.late = @ \cup {Attempt(y) : y \in Appending \ {h}},
                                !.crossed = IF Attempt(h) \in proof.late THEN @ \cup {Len(store.events) + 1} ELSE @]
  BY DEF AppendsEvent
<1>5. /\ store'.marks = store.marks /\ store'.status = store.status /\ store'.mode = store.mode
      /\ store'.checks = store.checks /\ store'.audit = store.audit
      /\ DOMAIN store' = DOMAIN store /\ store'.events = Append(store.events, h.prev)
  BY <1>4 DEF Safe, Rows
<1>6. /\ DOMAIN proof' = DOMAIN proof /\ proof'.marks = proof.marks /\ proof'.lost = proof.lost
      /\ proof'.live = proof.live /\ proof'.raced = proof.raced /\ proof'.forked = proof.forked
      /\ proof'.late = late
      /\ proof'.crossed = IF Attempt(h) \in proof.late THEN proof.crossed \cup {n + 1} ELSE proof.crossed
  BY <1>4 DEF Safe, Rows
<1>7. store.events \in Seq(Nat) /\ h.prev \in Nat
  BY <1>1 DEF Safe, Rows, Sound
<1>8. Rows'
  <2>1. store'.events \in Seq(Nat)
    BY <1>5, <1>7
  <2> QED
    BY <1>5, <1>6, <2>1 DEF Safe, Rows
<1>9. Requests' /\ Client'
  BY <1>3, ServeKeeps DEF Safe
<1>10. Certain' /\ Chain'
  BY <1>1, <1>3, <1>5, <1>6, CertainKept, ChainKept DEF Safe, Avoids, CertainSame, ChainSame
<1>11. Overtaken(handlers', n + 1, late)
  <2>1. ~AtEvent(x)
    BY <1>1, <1>2, MovedSound
  <2>2. \A y \in handlers \ {h} : AtEvent(y) => Attempt(y) \in late
    BY DEF AtEvent, Appending, At
  <2> HIDE DEF x, late
  <2>3. Overtaken(H, n + 1, late)
    BY <2>1, <2>2 DEF Overtaken
  <2> HIDE DEF n
  <2> QED
    BY <1>3, <2>3, ServeKeeps DEF Safe, x
<1>12. Len(store'.events) = n + 1
  BY <1>5, <1>7
<1>13. ASSUME NEW k \in DOMAIN store'.events  PROVE store'.events[k] = k - 1 \/ k \in proof'.crossed
  <2>1. k \in 1..n + 1
    BY <1>5, <1>7, <1>13
  <2>2. CASE k = n + 1
    <3>1. store'.events[k] = h.prev
      BY <1>5, <1>7, <2>2
    <3>2. h.prev = n \/ Attempt(h) \in proof.late
      BY <1>1 DEF Safe, Trail, Overtaken
    <3>3. CASE h.prev = n
      BY <1>1, <2>2, <3>1, <3>3
    <3>4. CASE Attempt(h) \in proof.late
      BY <1>6, <2>2, <3>4
    <3> QED
      BY <3>2, <3>3, <3>4
  <2>3. CASE k \in 1..n
    <3>1. k \in DOMAIN store.events /\ store'.events[k] = store.events[k]
      BY <1>1, <1>5, <1>7, <2>3
    <3>2. store.events[k] = k - 1 \/ k \in proof.crossed
      BY <3>1 DEF Safe, Trail
    <3> QED
      BY <1>6, <3>1, <3>2
  <2> QED
    BY <1>1, <2>1, <2>2, <2>3
<1>14. Trail'
  <2> HIDE DEF n, late
  <2> QED
    BY <1>6, <1>11, <1>12, <1>13 DEF Trail
<1> QED
  BY <1>8, <1>9, <1>10, <1>14 DEF Safe

(***************************************************************************)
(* The theorems.                                                           *)
(***************************************************************************)
\* What the client does, and time, leave the rows alone.
LEMMA ClientStepKeeps ==
    ASSUME Safe, ClientKept, store' = store, proof' = proof, Known'
    PROVE  Safe'
<1>1. Requests' /\ Client'
  BY DEF ClientKept, Requests, Client
<1>2. Rows'
  BY DEF Safe, Rows
<1>3. Chain'
  <2>1. \A n : Queued(handlers, n) => Queued(handlers', n)
    BY DEF ClientKept
  <2> QED
    BY <2>1 DEF Safe, Chain
<1>4. Certain'
  <2>1. \A c : Ready(handlers, c) => Ready(handlers', c)
    BY DEF ClientKept
  <2> QED
    BY <2>1 DEF Safe, Certain
<1>5. Trail'
  <2>1. \A n, l : Overtaken(handlers, n, l) => Overtaken(handlers', n, l)
    BY DEF ClientKept
  <2> QED
    BY <2>1 DEF Safe, Trail
<1> QED
  BY <1>1, <1>2, <1>3, <1>4, <1>5 DEF Safe

Spends(f) == budget' = [budget EXCEPT !.faults = f]
Counts == budget.calls > 0 /\ budget' = [budget EXCEPT !.calls = budget.calls - 1]
LEMMA BudgetSteps ==
    ASSUME Planned, Next
    PROVE  /\ Planned' /\ budget'.attempts = budget.attempts
           /\ \/ budget'.calls = budget.calls
              \/ \E t \in Tabs : Acts(t) /\ budget.calls > 0 /\ budget'.calls = budget.calls - 1
<1>1. \/ budget' = budget
      \/ \E f : Spends(f)
      \/ \E t \in Tabs : Acts(t) /\ Counts
  <2>1. ASSUME NEW t \in Tabs, Opens(t) \/ Closes(t) \/ Reloads(t)
        PROVE  budget' = budget \/ \E f : Spends(f)
    BY <2>1 DEF Opens, Closes, Reloads, Fault, Spends
  <2>2. ASSUME NEW t \in Tabs, Acts(t)
        PROVE  Counts
    BY <2>2 DEF Acts, Counts
  <2>3. ASSUME NEW h \in handlers, Receives(h) \/ Forgets(h) \/ TimesOut(h) \/ QueryFails(h)
        PROVE  budget' = budget \/ \E f : Spends(f)
    BY <2>3 DEF Receives, Forgets, TimesOut, QueryFails, Fault, Spends
  <2>4. ASSUME NEW h \in handlers, Serves(h)
        PROVE  budget' = budget
    BY <2>4 DEF Serves, Enforces, LocksHead, LinksEvent, ReadsLast, AppendsEvent, Authenticates, ChecksCsrf,
                Reauthenticates, ChecksRole, Reads, Writes, Decides, ReadsSteps, WritesStep, ChecksReadiness,
                SetsMode, MarksCheck, CreatesSession,
                FindsSession, Rotates, Revokes, Reading, Serving, Changes
  <2>5. ASSUME AccessExpires \/ \E p \in DOMAIN Limits : WindowEnds(p)
        PROVE  budget' = budget \/ \E f : Spends(f)
    BY <2>5 DEF AccessExpires, WindowEnds, Fault, Spends
  <2> QED
    BY <2>1, <2>2, <2>3, <2>4, <2>5 DEF Next
<1>2. CASE budget' = budget
  BY <1>2 DEF Planned
<1>3. ASSUME NEW f, Spends(f)
      PROVE  Planned' /\ budget'.attempts = budget.attempts /\ budget'.calls = budget.calls
  BY <1>3 DEF Planned, Spends
<1>4. ASSUME NEW t \in Tabs, Acts(t), Counts
      PROVE  Planned' /\ budget'.attempts = budget.attempts /\ budget.calls > 0 /\ budget'.calls = budget.calls - 1
  <2>1. budget'.calls = budget.calls - 1 /\ budget.calls > 0 /\ budget.calls \in Nat
    BY <1>4 DEF Planned, Counts
  <2>2. budget'.calls \in Nat
    BY <2>1
  <2> QED
    BY <1>4, <2>1, <2>2 DEF Planned, Counts
<1> QED
  BY <1>1, <1>2, <1>3, <1>4

LEMMA SendsKnown ==
    ASSUME CallsFormed(call), NEW t \in Tabs, NEW slot \in Slots, NEW c, NEW H, NEW n, Past(c.id, n),
           Dated(H, call, n), Send(t, slot, c, H)
    PROVE  Dated(handlers', call', n) /\ \A sl : Lost(H, sl) => Lost(handlers', sl)
<1>1. handlers' = H \cup {Request(t, slot, c)} /\ call' = [call EXCEPT ![t] = [call[t] EXCEPT ![slot] = c]]
  BY DEF Send
<1>2. Request(t, slot, c).id = c.id /\ Request(t, slot, c).heard = TRUE
  BY DEF Request
<1>3. \A u \in Tabs : \A s \in Slots : call'[u][s] = call[u][s] \/ call'[u][s] = c
  BY <1>1 DEF CallsFormed
<1> QED
  BY <1>1, <1>2, <1>3 DEF Dated, Lost

LEMMA EndsKnown ==
    ASSUME CallsFormed(call), NEW t \in Tabs, NEW slot \in Slots, NEW n, Dated(handlers', call, n),
           call' = [call EXCEPT ![t][slot] = Idle]
    PROVE  Dated(handlers', call', n)
<1>1. Past(Idle.id, n)
  BY DEF Past, Idle
<1>2. call' = [call EXCEPT ![t] = [call[t] EXCEPT ![slot] = Idle]]
  OBVIOUS
<1>3. \A u \in Tabs : \A s \in Slots : call'[u][s] = call[u][s] \/ call'[u][s] = Idle
  BY <1>2 DEF CallsFormed
<1> QED
  BY <1>1, <1>3 DEF Dated

\* The client's answer to a reply or to a timeout, with the other requests H.
Reacts(h, H) == Retries(h.tab, h.slot, H) \/ \E ok : Concludes(h.tab, h.slot, ok, h, H)
LEMMA ReactsKnown ==
    ASSUME Requests, Client, NEW h \in handlers, h.heard, NEW H, Reacts(h, H), NEW n, Dated(H, call, n)
    PROVE  Dated(handlers', call', n) /\ \A sl : Lost(H, sl) => Lost(handlers', sl)
<1>1. h.tab \in Tabs /\ h.slot \in Slots /\ CallsFormed(call)
  BY AnswersCall
<1>2. CASE Retries(h.tab, h.slot, H)
  <2>1. PICK c : c = [call[h.tab][h.slot] EXCEPT !.n = @ + 1]
    OBVIOUS
  <2>2. Send(h.tab, h.slot, c, H)
    BY <1>2, <2>1 DEF Retries
  <2>3. c.id = call[h.tab][h.slot].id
    BY <1>1, <2>1 DEF CallsFormed, Formed
  <2>4. Past(c.id, n)
    BY <1>1, <2>3 DEF Dated
  <2> QED
    BY <1>1, <2>2, <2>4, SendsKnown
<1>3. ASSUME NEW ok, Concludes(h.tab, h.slot, ok, h, H)
      PROVE  Dated(handlers', call', n) /\ \A sl : Lost(H, sl) => Lost(handlers', sl)
  <2>1. PICK c : c = [Idle EXCEPT !.route = "refresh", !.n = 1]
    OBVIOUS
  <2>2. CASE Send(h.tab, h.slot, c, H)
    <3>1. Past(c.id, n)
      BY <2>1 DEF Idle, Past
    <3> QED
      BY <1>1, <2>2, <3>1, SendsKnown
  <2>3. CASE call' = [call EXCEPT ![h.tab][h.slot] = Idle] /\ handlers' = H
    BY <1>1, <2>3, EndsKnown
  <2> QED
    BY <1>3, <2>1, <2>2, <2>3 DEF Concludes
<1> QED
  BY <1>2, <1>3 DEF Reacts

LEMMA ReceivesReacts ==
    ASSUME NEW h, Receives(h)
    PROVE  h.heard /\ Reacts(h, handlers \ {h})
BY DEF Receives, GivesUp, Reacts

LEMMA TimesOutReacts ==
    ASSUME NEW h, TimesOut(h)
    PROVE  h.heard /\ Reacts(h, (handlers \ {h}) \cup {[h EXCEPT !.heard = FALSE]}) /\ slip' = slip \cup {h.route}
BY DEF TimesOut, GivesUp, Reacts

\* A tab that closes leaves its requests unheard and waits for none.
LEMMA ClosesEffect ==
    ASSUME Requests, Client, NEW t \in Tabs, Closes(t)
    PROVE  /\ \A y \in handlers' : \/ y \in handlers
                                   \/ \E x \in handlers : Kept(x, y) /\ ~y.heard /\ (x.heard => x.route \in slip')
           /\ slip \subseteq slip'
           /\ \A u \in Tabs : \A s \in Slots : call'[u][s] = Idle \/ (u # t /\ call'[u][s] = call[u][s])
<1>1. \A x \in handlers : Kept(x, [x EXCEPT !.heard = FALSE]) /\ [x EXCEPT !.heard = FALSE].heard = FALSE
  <2> SUFFICES ASSUME NEW x \in handlers
               PROVE  Kept(x, [x EXCEPT !.heard = FALSE]) /\ [x EXCEPT !.heard = FALSE].heard = FALSE
    OBVIOUS
  <2>1. PICK z : z = [x EXCEPT !.heard = FALSE]
    OBVIOUS
  <2>2. DOMAIN z = Fields /\ Same(x, z) /\ z.heard = FALSE
    BY <2>1 DEF Requests, AllSound, Sound, Same, Fields
  <2> QED
    BY <2>1, <2>2 DEF Kept
<1>2. /\ handlers' = {IF x.tab = t THEN [x EXCEPT !.heard = FALSE] ELSE x : x \in handlers}
      /\ slip' = slip \cup {h.route : h \in {x \in handlers : x.tab = t /\ x.heard}}
  BY DEF Closes
<1>3. \A y \in handlers' : \/ y \in handlers
                           \/ \E x \in handlers : y = [x EXCEPT !.heard = FALSE] /\ x.tab = t
  BY <1>2
<1>4. \A x \in handlers : x.tab = t /\ x.heard => x.route \in slip'
  BY <1>2
<1>7. slip \subseteq slip'
  BY <1>2
<1>8. \A y \in handlers' : \/ y \in handlers
                           \/ \E x \in handlers : Kept(x, y) /\ ~y.heard /\ (x.heard => x.route \in slip')
  <2> SUFFICES ASSUME NEW y \in handlers', y \notin handlers
               PROVE  \E x \in handlers : Kept(x, y) /\ ~y.heard /\ (x.heard => x.route \in slip')
    OBVIOUS
  <2>1. PICK x \in handlers : y = [x EXCEPT !.heard = FALSE] /\ x.tab = t
    BY <1>3
  <2>2. Kept(x, y) /\ y.heard = FALSE
    BY <1>1, <2>1
  <2>3. x.heard => x.route \in slip'
    BY <1>4, <2>1
  <2> QED
    BY <2>2, <2>3
<1>5. call' = [call EXCEPT ![t] = [slot \in Slots |-> Idle]]
  BY DEF Closes
<1>6. \A u \in Tabs : \A s \in Slots : call'[u][s] = Idle \/ (u # t /\ call'[u][s] = call[u][s])
  BY <1>5 DEF Client, CallsFormed
<1> QED
  BY <1>6, <1>7, <1>8

LEMMA ClientKnown ==
    ASSUME Safe, NEW t \in Tabs, Opens(t) \/ Closes(t) \/ Reloads(t)
    PROVE  Dated(handlers', call', budget.calls) /\ Lost(handlers', slip')
<1>1. PICK n : n = budget.calls
  OBVIOUS
<1>2. Dated(handlers, call, n) /\ Lost(handlers, slip) /\ CallsFormed(call) /\ Requests /\ Client
  BY <1>1 DEF Safe, Known, Client
<1>3. CASE Opens(t) \/ Reloads(t)
  <2>1. \E slot \in Slots : \E r : Starts(t, slot, r, NoArg, 0) /\ slip' = slip
    <3>1. "act" \in Slots /\ ReloadSlots \subseteq Slots
      BY DEF Slots
    <3>2. CASE Opens(t)
      <4>1. Starts(t, "act", "me", NoArg, 0) /\ slip' = slip
        BY <3>2 DEF Opens
      <4> QED
        BY <3>1, <4>1
    <3>3. CASE Reloads(t)
      <4>1. \E slot \in ReloadSlots : \E r \in budget.loads : Starts(t, slot, r, NoArg, 0) /\ slip' = slip
        BY <3>3 DEF Reloads
      <4> QED
        BY <3>1, <4>1
    <3> QED
      BY <1>3, <3>2, <3>3
  <2>2. PICK slot \in Slots : \E r : Starts(t, slot, r, NoArg, 0) /\ slip' = slip
    BY <2>1
  <2>3. PICK r : Starts(t, slot, r, NoArg, 0) /\ slip' = slip
    BY <2>2
  <2>4. PICK c : c = [route |-> r, arg |-> NoArg, n |-> 1, id |-> 0]
    OBVIOUS
  <2>5. Send(t, slot, c, handlers) /\ Past(c.id, n)
    BY <2>3, <2>4 DEF Starts, Past
  <2> QED
    BY <1>1, <1>2, <2>3, <2>5, SendsKnown
<1>4. CASE Closes(t)
  <2>1. \A y \in handlers' : Past(y.id, n) /\ (~y.heard => y.route \in slip')
    BY <1>2, <1>4, ClosesEffect DEF Dated, Lost, Kept, Same
  <2>2. \A u \in Tabs : \A s \in Slots : Past(call'[u][s].id, n)
    BY <1>2, <1>4, ClosesEffect DEF Dated, Idle, Past
  <2> QED
    BY <1>1, <2>1, <2>2 DEF Dated, Lost
<1> QED
  BY <1>3, <1>4

LEMMA ActsKnown ==
    ASSUME Safe, NEW t \in Tabs, Acts(t), NEW m, m = budget.calls - 1
    PROVE  Dated(handlers', call', m) /\ Lost(handlers', slip')
<1>1. PICK n \in Nat : n = budget.calls
  BY DEF Safe, Known, Planned
<1>2. Dated(handlers, call, n) /\ Lost(handlers, slip) /\ CallsFormed(call) /\ Requests /\ n > 0 /\ m = n - 1
  BY <1>1 DEF Safe, Known, Client, Acts
<1>3. PICK r, arg : Starts(t, "act", r, arg, n) /\ slip' = slip
  BY <1>1 DEF Acts
<1>4. PICK c : c = [route |-> r, arg |-> arg, n |-> 1, id |-> n]
  OBVIOUS
<1>5. Send(t, "act", c, handlers) /\ c.id = n /\ "act" \in Slots
  BY <1>3, <1>4 DEF Starts, Slots
<1>6. \A i \in Nat : Past(i, n) => Past(i, m)
  BY <1>2 DEF Past
<1>7. Dated(handlers, call, m)
  BY <1>2, <1>6 DEF Dated, Requests, AllSound, Sound, Called, CallsFormed, Formed
<1>8. Past(c.id, m)
  BY <1>2, <1>5 DEF Past
<1> QED
  BY <1>2, <1>3, <1>5, <1>7, <1>8, SendsKnown

LEMMA ServesKnown ==
    ASSUME Safe, NEW h \in handlers, NEW x, Serve(h, x), slip \subseteq slip'
    PROVE  Dated(handlers', call', budget.calls) /\ Lost(handlers', slip')
<1>1. x.id = h.id /\ x.route = h.route /\ x.heard = h.heard /\ call' = call /\ DOMAIN x = Fields
  BY DEF Serve, Moved
<1>2. \A y \in handlers' : \E z \in handlers : y.id = z.id /\ y.route = z.route /\ y.heard = z.heard
  <2>1. \A y \in (handlers \ {h}) \cup {x} :
           /\ DOMAIN y = Fields
           /\ \E z \in handlers : y.id = z.id /\ y.route = z.route /\ y.heard = z.heard
    BY <1>1 DEF Safe, Requests, AllSound, Sound
  <2>2. CASE handlers' = (handlers \ {h}) \cup {x}
    BY <2>1, <2>2
  <2>3. CASE handlers' = Aged((handlers \ {h}) \cup {x})
    <3> SUFFICES ASSUME NEW y \in handlers'
                 PROVE  \E z \in handlers : y.id = z.id /\ y.route = z.route /\ y.heard = z.heard
      OBVIOUS
    <3>1. PICK w \in (handlers \ {h}) \cup {x} : y = [w EXCEPT !.view = IF w.slot \in ReloadSlots THEN Older(@) ELSE @]
      BY <2>3 DEF Aged
    <3>2. y.id = w.id /\ y.route = w.route /\ y.heard = w.heard
      BY <2>1, <3>1 DEF Fields
    <3> QED
      BY <2>1, <3>2
  <2> QED
    BY <2>2, <2>3 DEF Serve
<1> QED
  BY <1>1, <1>2 DEF Safe, Known, Dated, Lost

LEMMA ServerStep ==
    ASSUME Safe, NEW h \in handlers, Serves(h) \/ QueryFails(h)
    PROVE  /\ \E x : Serve(h, x)
           /\ slip \subseteq slip' /\ told' = told /\ jar' = jar /\ call' = call /\ budget'.calls = budget.calls
<1>1. Sound(h)
  BY DEF Safe, Requests, AllSound
<1>2. \E x : Serve(h, x)
  <2>1. CASE PlainActions(h)
    BY <2>1, PlainAction DEF Plain
  <2>2. CASE WritesStep(h) \/ SetsMode(h) \/ MarksCheck(h) \/ LinksEvent(h) \/ AppendsEvent(h)
    <3>1. h.todo # <<>> /\ Changes(h, Proceeds(h))
      BY <2>2 DEF WritesStep, SetsMode, MarksCheck, LinksEvent, AppendsEvent, At
    <3> QED
      BY <1>1, <3>1, Answered, ChangesServes
  <2>3. CASE LocksHead(h)
    <3>1. h.todo # <<>> /\ Head(h.todo) = "lock" /\ Len(store.audit) \in Nat
      BY <2>3 DEF LocksHead, At, Safe, Rows
    <3>2. PICK x : x = [Proceeds(h) EXCEPT !.prev = Len(store.audit)]
      OBVIOUS
    <3>3. Moved(h, x)
      BY <1>1, <3>1, <3>2, Answered
    <3> QED
      BY <2>3, <3>2, <3>3, BecomesServes DEF LocksHead, Serving
  <2>4. CASE ReadsLast(h)
    <3>1. h.todo # <<>> /\ Head(h.todo) = "last" /\ Len(store.events) \in Nat
      BY <2>4 DEF ReadsLast, At, Safe, Rows
    <3>2. PICK x : x = [Proceeds(h) EXCEPT !.prev = Len(store.events)]
      OBVIOUS
    <3>3. Moved(h, x)
      BY <1>1, <3>1, <3>2, Answered
    <3> QED
      BY <2>4, <3>2, <3>3, BecomesServes DEF ReadsLast, Reading, Serving
  <2>5. CASE ChecksReadiness(h)
    BY <2>5, ChecksReadinessServes
  <2> QED
    BY <2>1, <2>2, <2>3, <2>4, <2>5 DEF Serves, PlainActions
<1>3. /\ slip \subseteq slip' /\ told' = told /\ jar' = jar /\ call' = call
      /\ budget' = budget \/ \E f : Spends(f)
  <2>1. CASE QueryFails(h)
    BY <2>1 DEF QueryFails, Fault, Spends
  <2>2. CASE Rotates(h)
    BY <2>2 DEF Rotates
  <2>3. CASE Enforces(h)
    BY <2>3 DEF Enforces
  <2>4. CASE Serves(h) /\ ~Rotates(h) /\ ~Enforces(h)
    <3>1. Serving
      BY <2>4 DEF Serves, LocksHead, LinksEvent, ReadsLast, AppendsEvent, Authenticates, ChecksCsrf,
                  Reauthenticates, ChecksRole, Reads, Writes, Decides, ReadsSteps, WritesStep, ChecksReadiness,
                SetsMode, MarksCheck, CreatesSession,
                  FindsSession, Revokes, Reading, Changes
    <3> QED
      BY <3>1 DEF Serving
  <2> QED
    BY <2>1, <2>2, <2>3, <2>4
<1> QED
  BY <1>2, <1>3 DEF Safe, Known, Planned, Spends

LEMMA KnownKept ==
    ASSUME Safe, Next
    PROVE  Known'
<1>1. /\ Planned'
      /\ \/ budget'.calls = budget.calls
         \/ \E t \in Tabs : Acts(t) /\ budget.calls > 0 /\ budget'.calls = budget.calls - 1
  BY BudgetSteps DEF Safe, Known
<1>2. CASE \E t \in Tabs : Acts(t) /\ budget'.calls = budget.calls - 1
  <2>1. PICK m : m = budget.calls - 1
    OBVIOUS
  <2>2. Dated(handlers', call', m) /\ Lost(handlers', slip')
    BY <1>2, <2>1, ActsKnown
  <2> QED
    BY <1>1, <1>2, <2>1, <2>2 DEF Known
<1>3. CASE budget'.calls = budget.calls
  <2>1. PICK n : n = budget.calls
    OBVIOUS
  <2>2. Dated(handlers, call, n) /\ Lost(handlers, slip) /\ Requests /\ Client
    BY <2>1 DEF Safe, Known
  <2>3. Dated(handlers', call', n) /\ Lost(handlers', slip')
    <3>1. CASE \E t \in Tabs : Opens(t) \/ Closes(t) \/ Reloads(t)
      BY <2>1, <3>1, ClientKnown
    <3>2. ASSUME NEW t \in Tabs, Acts(t)  PROVE FALSE
      <4>1. budget.calls \in Nat /\ budget'.calls = budget.calls - 1
        BY <3>2 DEF Acts, Safe, Known, Planned
      <4> QED
        BY <1>3, <4>1
    <3>3. ASSUME NEW h \in handlers, Receives(h)
          PROVE  Dated(handlers', call', n) /\ Lost(handlers', slip')
      <4>1. Dated(handlers \ {h}, call, n) /\ Lost(handlers \ {h}, slip) /\ slip' = slip
        BY <2>2, <3>3 DEF Dated, Lost, Receives
      <4> QED
        BY <2>2, <3>3, <4>1, ReceivesReacts, ReactsKnown
    <3>4. ASSUME NEW h \in handlers, TimesOut(h)
          PROVE  Dated(handlers', call', n) /\ Lost(handlers', slip')
      <4>1. PICK z : z = [h EXCEPT !.heard = FALSE]
        OBVIOUS
      <4>2. z.id = h.id /\ z.route = h.route
        BY <4>1 DEF Safe, Requests, AllSound, Sound, Fields
      <4>3. h.heard /\ Reacts(h, (handlers \ {h}) \cup {z}) /\ slip' = slip \cup {h.route}
        BY <3>4, <4>1, TimesOutReacts
      <4>4. Dated((handlers \ {h}) \cup {z}, call, n) /\ Lost((handlers \ {h}) \cup {z}, slip')
        BY <2>2, <4>2, <4>3 DEF Dated, Lost
      <4> QED
        BY <2>2, <4>3, <4>4, ReactsKnown
    <3>5. ASSUME NEW h \in handlers, Forgets(h)
          PROVE  Dated(handlers', call', n) /\ Lost(handlers', slip')
      BY <2>2, <3>5 DEF Forgets, Dated, Lost
    <3>6. ASSUME NEW h \in handlers, Serves(h) \/ QueryFails(h)
          PROVE  Dated(handlers', call', n) /\ Lost(handlers', slip')
      BY <2>1, <3>6, ServerStep, ServesKnown
    <3>7. CASE AccessExpires \/ \E p \in DOMAIN Limits : WindowEnds(p)
      BY <2>2, <3>7 DEF AccessExpires, WindowEnds, Dated, Lost
    <3> QED
      BY <1>3, <3>1, <3>2, <3>3, <3>4, <3>5, <3>6, <3>7 DEF Next
  <2> QED
    BY <1>1, <1>3, <2>1, <2>3 DEF Known
<1> QED
  BY <1>1, <1>2, <1>3

LEMMA InitSafe == Init => Safe
<1> SUFFICES ASSUME Init  PROVE Safe
  OBVIOUS
<1>1. budget \in Plans /\ handlers = {}
  BY DEF Init
<1>2. Planned
  BY <1>1, ConsoleAssumption DEF Planned
<1>3. TabsFormed(tab)
  BY DEF Init, TabsFormed, Closed
<1>4. CallsFormed(call)
  <2>1. Formed(Idle) /\ Idle.id = 0
    BY IdleFormed DEF Idle
  <2>2. call = [t \in Tabs |-> [slot \in Slots |-> Idle]]
    BY DEF Init
  <2>3. \A t \in Tabs : DOMAIN call[t] = Slots /\ \A s \in Slots : call[t][s] = Idle
    BY <2>2
  <2> QED
    BY <2>1, <2>2, <2>3 DEF CallsFormed
<1>5. Requests /\ Client
  BY <1>1, <1>3, <1>4 DEF Requests, AllSound, Client, Heard, Awaited, Attempts, Latest
<1>8. Known
  <2>1. \A t \in Tabs : \A s \in Slots : call[t][s].id = 0
    BY DEF Init, Idle
  <2> QED
    BY <1>1, <1>2, <2>1 DEF Known, Dated, Lost, Past
<1>6. Rows /\ Chain /\ Trail
  BY <1>1 DEF Init, Rows, Chain, Queued, Trail, Overtaken, Pending
<1>7. Certain
  <2>1. store.marks = proof.marks /\ store.status = "NOT_STARTED" /\ store.mode = "PAPER"
    BY DEF Init
  <2> QED
    BY <1>1, <2>1 DEF Certain, Ready
<1> QED
  BY <1>8, <1>5, <1>6, <1>7 DEF Safe

LEMMA NextSafe == Safe /\ [Next]_vars => Safe'
<1> SUFFICES ASSUME Safe, [Next]_vars  PROVE Safe'
  OBVIOUS
<1>1. CASE UNCHANGED vars
  BY <1>1 DEF vars, Safe, Known, Planned, Requests, Client, Rows, Chain, Trail, Certain
<1>2. CASE Next
  <2>1. Known'
    BY <1>2, KnownKept
  <2>2. ASSUME NEW t \in Tabs, Opens(t) \/ Closes(t) \/ Acts(t) \/ Reloads(t)
        PROVE  Safe'
    <3>1. ClientKept
      BY <2>2, OpensKeeps, ClosesKeeps, ActsKeeps, ReloadsKeeps DEF Safe
    <3>2. store' = store /\ proof' = proof
      BY <2>2 DEF Opens, Closes, Acts, Reloads
    <3> QED
      BY <2>1, <3>1, <3>2, ClientStepKeeps
  <2>3. ASSUME NEW h \in handlers, Receives(h) \/ Forgets(h) \/ TimesOut(h)
        PROVE  Safe'
    <3>1. ClientKept
      BY <2>3, ReceivesKeeps, ForgetsKeeps, TimesOutKeeps DEF Safe
    <3>2. store' = store /\ proof' = proof
      BY <2>3 DEF Receives, Forgets, TimesOut
    <3> QED
      BY <2>1, <3>1, <3>2, ClientStepKeeps
  <2>4. ASSUME NEW h \in handlers, PlainActions(h)
        PROVE  Safe'
    BY <2>1, <2>4, PlainAction, PlainKeeps
  <2>5. ASSUME NEW h \in handlers,
               \/ WritesStep(h) \/ ChecksReadiness(h) \/ SetsMode(h) \/ MarksCheck(h)
               \/ LocksHead(h) \/ LinksEvent(h) \/ ReadsLast(h) \/ AppendsEvent(h)
        PROVE  Safe'
    BY <2>1, <2>5, WritesStepKeeps, ChecksReadinessKeeps, SetsModeKeeps, MarksCheckKeeps, LocksHeadKeeps, LinksEventKeeps,
       ReadsLastKeeps, AppendsEventKeeps
  <2>6. CASE AccessExpires \/ \E p \in DOMAIN Limits : WindowEnds(p)
    <3>1. UNCHANGED <<handlers, call, tab, store, proof>>
      BY <2>6 DEF AccessExpires, WindowEnds
    <3> QED
      BY <2>1, <3>1 DEF Safe, Requests, Client, Rows, Chain, Trail, Certain
  <2> QED
    BY <1>2, <2>2, <2>3, <2>4, <2>5, <2>6 DEF Next, Serves, PlainActions
<1> QED
  BY <1>1, <1>2

\* The strengthening that every other theorem starts from: requests and rows have their shape, an answer is heard by
\* the call it was sent for, and the awaits of a route come in the order of the table.
THEOREM SafeCorrect == Spec => []Safe
<1>1. Init => Safe
  BY InitSafe
<1>2. Safe /\ [Next]_vars => Safe'
  BY NextSafe
<1> QED
  BY <1>1, <1>2, PTL DEF Spec

\* Every event of the scope names the one before it, whatever requests overlap, fail or are repeated, unless the
\* first events of the scope overlapped (immutableAuditRepository 19-35); a plain event names the newest plain one,
\* or one was inserted between its read and its insert (riskEventRepository 20-26).
THEOREM AuditIsLinearHolds == Spec => []AuditIsLinear
<1>1. Safe => AuditIsLinear
  BY DEF Safe, Chain, Trail, AuditIsLinear
<1> QED
  BY <1>1, SafeCorrect, PTL

\* The wizard is PASSED only on last marks that are PASSED or were overwritten by an update based on older steps
\* (institutionalRepository 218-230); LIVE is switched on only with every check passed, or if one was taken back
\* between the reading and the writing of a switch (routes/risk 188-195).
THEOREM CertifiedIsEarnedHolds == Spec => []CertifiedIsEarned
<1>1. Safe => CertifiedIsEarned
  BY DEF Safe, Certain, CertifiedIsEarned
<1> QED
  BY <1>1, SafeCorrect, PTL

(***************************************************************************)
(* What a tab is told of its decision.                                     *)
(***************************************************************************)
\* The approval and its maker; requests of decisions; what tabs were told.
Made(h) == h.todo = <<>> /\ h.code = 200
Missed(h, ap, by, sl) == h.route = "decideApproval" /\ ap # "PENDING" /\ by = h.id => "decideApproval" \in sl
Votes(H, ap, by, sl) ==
    \A h \in H : /\ h.route = "decideApproval" /\ Made(h) => ap = h.arg.value
                 /\ h.heard /\ ~Made(h) => Missed(h, ap, by, sl)
Settled(a, cl, n, ap, by, sl) ==
    a.value # "none" =>
        /\ a.value \in Verdicts /\ a.id \in Nat /\ a.id > n
        /\ \A t \in Tabs : \A s \in Slots : cl[t][s].id # a.id
        /\ IF a.ok THEN ap = a.value ELSE ap # "PENDING" /\ by = a.id => "decideApproval" \in sl
Voted(ap, by, n) == ap # "PENDING" => by \in Nat /\ by > n
Decided ==
    /\ Voted(store.approval, store.by, budget.calls)
    /\ Votes(handlers, store.approval, store.by, slip)
    /\ DOMAIN told = Tabs
    /\ \A t \in Tabs : Settled(told[t], call, budget.calls, store.approval, store.by, slip)

\* Every request in I is one of H, but perhaps unheard.
From(H, I) == \A y \in I : \E x \in H : Kept(x, y)
LEMMA FromSubset ==
    ASSUME NEW H, AllSound(H), NEW I \in SUBSET H
    PROVE  From(H, I)
BY KeptItself DEF AllSound, From

LEMMA FromUnheard ==
    ASSUME Requests, NEW h \in handlers
    PROVE  From(handlers, (handlers \ {h}) \cup {[h EXCEPT !.heard = FALSE]})
<1>1. PICK z : z = [h EXCEPT !.heard = FALSE]
  OBVIOUS
<1>2. DOMAIN z = Fields /\ Same(h, z) /\ z.heard = FALSE
  BY <1>1 DEF Requests, AllSound, Sound, Same, Fields
<1>3. Kept(h, z)
  BY <1>2 DEF Kept
<1> QED
  BY <1>1, <1>3, KeptItself DEF Requests, AllSound, From

LEMMA FromServe ==
    ASSUME Requests, NEW h \in handlers, NEW x, Serve(h, x)
    PROVE  From((handlers \ {h}) \cup {x}, handlers')
<1>1. PICK H : H = (handlers \ {h}) \cup {x}
  OBVIOUS
<1>2. AllSound(H)
  BY <1>1, MovedSound DEF Requests, AllSound, Serve
<1>3. CASE handlers' = H
  BY <1>1, <1>2, <1>3, FromSubset
<1>4. CASE handlers' = Aged(H)
  <2> SUFFICES ASSUME NEW y \in H  PROVE Kept(y, [y EXCEPT !.view = IF y.slot \in ReloadSlots THEN Older(@) ELSE @])
    BY <1>1, <1>4 DEF From, Aged
  <2>1. PICK z : z = [y EXCEPT !.view = IF y.slot \in ReloadSlots THEN Older(@) ELSE @]
    OBVIOUS
  <2>2. DOMAIN y = Fields /\ y.heard \in BOOLEAN
    BY <1>2 DEF AllSound, Sound
  <2>3. DOMAIN z = Fields /\ Same(y, z) /\ z.heard = y.heard
    BY <2>1, <2>2 DEF Same, Fields
  <2> QED
    BY <2>1, <2>2, <2>3 DEF Kept
<1> QED
  BY <1>1, <1>3, <1>4 DEF Serve

LEMMA VotesFrom ==
    ASSUME NEW H, NEW I, From(H, I), NEW ap, NEW by, NEW sl, NEW sm, sl \subseteq sm, Votes(H, ap, by, sl)
    PROVE  Votes(I, ap, by, sm)
BY DEF From, Kept, Same, Votes, Missed, Made

\* A new request of a decision is not served yet: it must not be the repetition of what was made, unless that was lost.
LEMMA VotesSend ==
    ASSUME NEW H, NEW ap, NEW by, NEW sl, Votes(H, ap, by, sl), NEW t \in Tabs, NEW slot \in Slots, NEW c,
           Formed(c), c.route # "none", Missed(c, ap, by, sl)
    PROVE  Votes(H \cup {Request(t, slot, c)}, ap, by, sl)
<1>1. PICK y : y = Request(t, slot, c)
  OBVIOUS
<1>2. y.route = c.route /\ y.id = c.id /\ y.todo = Routes[c.route] /\ y.todo # <<>>
  BY <1>1, RoutesAssumption DEF Request, Formed
<1> QED
  BY <1>1, <1>2 DEF Votes, Missed, Made

\* A call that ends or starts does not take the number of one that was answered.
LEMMA SettledKept ==
    ASSUME CallsFormed(call), NEW n \in Nat, NEW m \in Nat, m <= n, NEW sl, NEW sm, sl \subseteq sm, NEW ap, NEW by, NEW a, NEW cl,
           Settled(a, call, n, ap, by, sl),
           \A t \in Tabs : \A s \in Slots : cl[t][s].id = call[t][s].id \/ cl[t][s].id = 0 \/ cl[t][s].id = n
    PROVE  Settled(a, cl, m, ap, by, sm)
BY DEF Settled

LEMMA NoAnswerSettled == \A cl, n, ap, by, sl : Settled(NoAnswer, cl, n, ap, by, sl)
BY DEF Settled, NoAnswer

\* The end of a call: the answer it gives is true.
LEMMA AnswerSettled ==
    ASSUME Safe, Decided, NEW h \in handlers, h.heard, h.route = "decideApproval", NEW ok, NEW sl, NEW cl, slip \subseteq sl,
           IF ok THEN Made(h) ELSE Missed(h, store.approval, store.by, sl),
           \A t \in Tabs : \A s \in Slots :
               cl[t][s].id = 0 \/ (cl[t][s].id = call[t][s].id /\ ~(t = h.tab /\ s = h.slot))
    PROVE  Settled([id |-> h.id, value |-> h.arg.value, ok |-> ok], cl, budget.calls, store.approval, store.by, sl)
<1>1. h.id \in Nat /\ h.id # 0 /\ h.arg.value \in Verdicts
  BY DEF Safe, Requests, AllSound, Sound, Called
<1>2. h.id > budget.calls
  BY <1>1 DEF Safe, Known, Dated, Past
<1>3. \A t \in Tabs : \A s \in Slots : cl[t][s].id # h.id
  <2>1. h.tab \in Tabs /\ h.slot \in Slots /\ CallsFormed(call) /\ call[h.tab][h.slot].id = h.id
    BY AnswersCall DEF Safe, Answers
  <2> QED
    BY <1>1, <2>1 DEF CallsFormed
<1>4. ok => store.approval = h.arg.value
  BY DEF Decided, Votes
<1> QED
  BY <1>1, <1>2, <1>3, <1>4 DEF Settled, Missed

\* The cells of a slot's call, after a call was sent or ended.
LEMMA Cells ==
    ASSUME CallsFormed(call), NEW t \in Tabs, NEW slot \in Slots, NEW c, call' = [call EXCEPT ![t][slot] = c]
    PROVE  \A u \in Tabs : \A s \in Slots : call'[u][s] = IF u = t /\ s = slot THEN c ELSE call[u][s]
<1>1. call' = [call EXCEPT ![t] = [call[t] EXCEPT ![slot] = c]]
  OBVIOUS
<1> QED
  BY <1>1 DEF CallsFormed

\* The client goes on after a reply or a timeout.
LEMMA ReactsDecided ==
    ASSUME Safe, Decided, NEW h \in handlers, h.heard, NEW H, From(handlers, H), slip \subseteq slip', store' = store,
           budget'.calls = budget.calls, NEW ok,
           \/ Retries(h.tab, h.slot, H) /\ Missed(h, store.approval, store.by, slip')
           \/ Concludes(h.tab, h.slot, ok, h, H) /\ IF ok THEN Made(h) ELSE Missed(h, store.approval, store.by, slip')
    PROVE  Decided'
<1>1. /\ h.tab \in Tabs /\ h.slot \in Slots /\ CallsFormed(call) /\ Formed(call[h.tab][h.slot])
      /\ Answers(h, call[h.tab][h.slot]) /\ h.route # "none"
  BY AnswersCall DEF Safe
<1>6. PICK n \in Nat : n = budget.calls
  BY DEF Safe, Known, Planned
<1>2. PICK ap, by, sl : ap = store.approval /\ by = store.by /\ sl = slip' /\ n = budget.calls
  BY <1>6
<1>3. Votes(H, ap, by, sl)
  BY <1>2, VotesFrom DEF Decided
<1>4. CASE Retries(h.tab, h.slot, H) /\ Missed(h, store.approval, store.by, slip')
  <2>1. PICK c : c = [call[h.tab][h.slot] EXCEPT !.n = @ + 1]
    OBVIOUS
  <2>2. Send(h.tab, h.slot, c, H) /\ told' = told
    BY <1>4, <2>1 DEF Retries
  <2>3. c.route = h.route /\ c.id = h.id /\ c.arg = h.arg /\ c.n \in Nat /\ DOMAIN c = {"route", "arg", "n", "id"}
    BY <1>1, <2>1 DEF Formed, Called, Answers
  <2>4. Formed(c) /\ c.route # "none" /\ Missed(c, ap, by, sl)
    BY <1>1, <1>2, <1>4, <2>3 DEF Formed, Called, Answers, Missed
  <2>5. Votes(handlers', ap, by, sl)
    BY <1>1, <1>3, <2>2, <2>4, VotesSend DEF Send
  <2>6. \A t \in Tabs : \A s \in Slots : call'[t][s].id = call[t][s].id
    BY <1>1, <2>2, <2>3, Cells DEF Send, Answers
  <2>7. \A t \in Tabs : Settled(told[t], call', n, ap, by, sl)
    BY <1>1, <1>2, <2>6, SettledKept DEF Decided
  <2> QED
    BY <1>2, <2>2, <2>5, <2>7 DEF Decided
<1>5. CASE Concludes(h.tab, h.slot, ok, h, H) /\ IF ok THEN Made(h) ELSE Missed(h, store.approval, store.by, slip')
  <2>1. PICK c : c = [Idle EXCEPT !.route = "refresh", !.n = 1]
    OBVIOUS
  <2>2. c.route = "refresh" /\ c.id = 0 /\ c.arg = NoArg /\ c.n = 1 /\ DOMAIN c = {"route", "arg", "n", "id"} /\ Idle.id = 0
    BY <2>1 DEF Idle
  <2>3. \/ Send(h.tab, h.slot, c, H) /\ h.route = "me"
        \/ call' = [call EXCEPT ![h.tab][h.slot] = Idle] /\ handlers' = H
    BY <1>1, <1>5, <2>1 DEF Concludes, Answers
  <2>4. \A t \in Tabs : \A s \in Slots :
           IF t = h.tab /\ s = h.slot THEN call'[t][s].id = 0 ELSE call'[t][s] = call[t][s]
    <3>1. \E b : b.id = 0 /\ call' = [call EXCEPT ![h.tab][h.slot] = b]
      BY <2>2, <2>3 DEF Send
    <3>2. PICK b : b.id = 0 /\ call' = [call EXCEPT ![h.tab][h.slot] = b]
      BY <3>1
    <3>3. \A t \in Tabs : \A s \in Slots : call'[t][s] = IF t = h.tab /\ s = h.slot THEN b ELSE call[t][s]
      <4>1. h.tab \in Tabs /\ h.slot \in Slots /\ CallsFormed(call)
        BY <1>1
      <4>2. call' = [call EXCEPT ![h.tab] = [call[h.tab] EXCEPT ![h.slot] = b]]
        BY <3>2
      <4> QED
        BY <4>1, <4>2 DEF CallsFormed
    <3> QED
      BY <3>2, <3>3
  <2>5. Votes(handlers', ap, by, sl)
    <3>1. CASE Send(h.tab, h.slot, c, H)
      <4>1. Chosen("refresh", NoArg) /\ "refresh" \in DOMAIN Routes /\ "refresh" \notin Limited \cup {"decideApproval"}
        BY Choices, OnItsOwn
      <4>2. Formed(c) /\ c.route # "none" /\ Missed(c, ap, by, sl)
        BY <2>2, <4>1 DEF Formed, Called, Chosen, Missed
      <4> QED
        BY <1>1, <1>3, <3>1, <4>2, VotesSend DEF Send
    <3> QED
      BY <1>3, <2>3, <3>1
  <2>6. \A t \in Tabs : Settled(told[t], call', n, ap, by, sl)
    BY <1>1, <1>2, <2>4, SettledKept DEF Decided
  <2>7. CASE h.route = "decideApproval"
    <3>1. PICK a : a = [id |-> h.id, value |-> h.arg.value, ok |-> ok]
      OBVIOUS
    <3>2. told' = [told EXCEPT ![h.tab] = a]
      BY <1>1, <1>5, <2>7, <3>1 DEF Concludes, Answers
    <3>3. Settled(a, call', n, ap, by, sl)
      <4>1. PICK cl : cl = call'
        OBVIOUS
      <4>2. \A t \in Tabs : \A s \in Slots :
               cl[t][s].id = 0 \/ (cl[t][s].id = call[t][s].id /\ ~(t = h.tab /\ s = h.slot))
        BY <2>4, <4>1
      <4> QED
        BY <1>2, <1>5, <2>7, <3>1, <4>1, <4>2, AnswerSettled
    <3>4. DOMAIN told' = Tabs /\ \A t \in Tabs : told'[t] = IF t = h.tab THEN a ELSE told[t]
      BY <1>1, <3>2 DEF Decided
    <3>5. \A t \in Tabs : Settled(told'[t], call', n, ap, by, sl)
      BY <2>6, <3>3, <3>4
    <3> QED
      BY <1>2, <2>5, <3>4, <3>5 DEF Decided
  <2>8. CASE h.route # "decideApproval"
    <3>1. told' = told
      BY <1>1, <1>5, <2>8 DEF Concludes, Answers
    <3> QED
      BY <1>2, <2>5, <2>6, <3>1 DEF Decided
  <2> QED
    BY <2>7, <2>8
<1> QED
  BY <1>4, <1>5

LEMMA ReceivesDecided ==
    ASSUME Safe, Decided, NEW h \in handlers, Receives(h)
    PROVE  Decided'
<1>1. h.heard /\ h.todo = <<>> /\ slip' = slip /\ store' = store /\ budget' = budget
  BY DEF Receives
<1>2. From(handlers, handlers \ {h})
  BY FromSubset DEF Safe, Requests
<1>3. ~Made(h) => Missed(h, store.approval, store.by, slip')
  BY <1>1 DEF Decided, Votes
<1>4. CASE h.code < 500
  <2>1. PICK ok : ok = (h.code = 200)
    OBVIOUS
  <2>2. Concludes(h.tab, h.slot, ok, h, handlers \ {h})
    BY <1>4, <2>1 DEF Receives
  <2>3. IF ok THEN Made(h) ELSE Missed(h, store.approval, store.by, slip')
    BY <1>1, <1>3, <2>1 DEF Made
  <2> QED
    BY <1>1, <1>2, <2>2, <2>3, ReactsDecided
<1>5. CASE ~(h.code < 500)
  <2>1. ~Made(h)
    BY <1>5 DEF Made
  <2>2. \/ Retries(h.tab, h.slot, handlers \ {h})
        \/ Concludes(h.tab, h.slot, FALSE, h, handlers \ {h})
    BY <1>5 DEF Receives, GivesUp
  <2> QED
    BY <1>1, <1>2, <1>3, <2>1, <2>2, ReactsDecided
<1> QED
  BY <1>4, <1>5

LEMMA TimesOutDecided ==
    ASSUME Safe, Decided, NEW h \in handlers, TimesOut(h), budget'.calls = budget.calls
    PROVE  Decided'
<1>1. PICK H : H = (handlers \ {h}) \cup {[h EXCEPT !.heard = FALSE]}
  OBVIOUS
<1>2. h.heard /\ slip' = slip \cup {h.route} /\ store' = store /\ From(handlers, H)
  BY <1>1, FromUnheard DEF TimesOut, Safe
<1>3. Missed(h, store.approval, store.by, slip')
  BY <1>2 DEF Missed
<1>4. Retries(h.tab, h.slot, H) \/ Concludes(h.tab, h.slot, FALSE, h, H)
  BY <1>1 DEF TimesOut, GivesUp
<1> QED
  BY <1>2, <1>3, <1>4, ReactsDecided

LEMMA PageDecided ==
    ASSUME Safe, Decided, NEW t \in Tabs, Opens(t) \/ Reloads(t)
    PROVE  Decided'
<1>1. PICK n \in Nat : n = budget.calls
  BY DEF Safe, Known, Planned
<1>2. PICK ap, by, sl : ap = store.approval /\ by = store.by /\ sl = slip
  OBVIOUS
<1>3. \E slot \in Slots : \E r \in Fetches \cup {"me", "refresh"} : Starts(t, slot, r, NoArg, 0)
  <2>1. CASE Opens(t)
    BY <2>1 DEF Opens, Slots
  <2>2. CASE Reloads(t)
    BY <2>2 DEF Reloads, Slots, Safe, Known, Planned
  <2> QED
    BY <2>1, <2>2
<1>4. UNCHANGED <<store, slip, told, budget>>
  BY DEF Opens, Reloads
<1>5. PICK slot \in Slots : \E r \in Fetches \cup {"me", "refresh"} : Starts(t, slot, r, NoArg, 0)
  BY <1>3
<1>6. PICK r \in Fetches \cup {"me", "refresh"} : Starts(t, slot, r, NoArg, 0)
  BY <1>5
<1>7. PICK c : c = [route |-> r, arg |-> NoArg, n |-> 1, id |-> 0]
  OBVIOUS
<1>8. Formed(c) /\ c.route # "none" /\ c.route # "decideApproval" /\ c.id = 0
  BY <1>7, OnItsOwn, Choices, RoutesAssumption DEF Formed, Called, Chosen
<1>9. Send(t, slot, c, handlers) /\ CallsFormed(call)
  BY <1>6, <1>7 DEF Starts, Safe, Client
<1>10. Votes(handlers', ap, by, sl)
  BY <1>2, <1>8, <1>9, VotesSend DEF Send, Decided, Missed
<1>11. \A u \in Tabs : \A s \in Slots : call'[u][s].id = call[u][s].id \/ call'[u][s].id = 0
  BY <1>8, <1>9, Cells DEF Send
<1>12. \A u \in Tabs : Settled(told[u], call', n, ap, by, sl)
  BY <1>1, <1>2, <1>9, <1>11, SettledKept DEF Decided
<1> QED
  BY <1>1, <1>2, <1>4, <1>10, <1>12 DEF Decided

LEMMA ActsDecided ==
    ASSUME Safe, Decided, NEW t \in Tabs, Acts(t), budget'.calls = budget.calls - 1
    PROVE  Decided'
<1>1. PICK n \in Nat : n = budget.calls /\ n > 0
  BY DEF Safe, Known, Planned, Acts
<1>2. PICK ap, by, sl : ap = store.approval /\ by = store.by /\ sl = slip
  OBVIOUS
<1>3. PICK r \in budget.routes : \E arg \in Args(r) : Starts(t, "act", r, arg, budget.calls)
  BY DEF Acts
<1>4. PICK arg \in Args(r) : Starts(t, "act", r, arg, n)
  BY <1>1, <1>3
<1>5. PICK c : c = [route |-> r, arg |-> arg, n |-> 1, id |-> n]
  OBVIOUS
<1>6. Formed(c) /\ c.route # "none" /\ c.id = n
  BY <1>1, <1>4, <1>5, Choices, RoutesAssumption DEF Formed, Called, Chosen, Safe, Known, Planned
<1>7. Send(t, "act", c, handlers) /\ CallsFormed(call) /\ "act" \in Slots
  BY <1>4, <1>5 DEF Starts, Safe, Client, Slots
<1>8. Missed(c, ap, by, sl)
  BY <1>1, <1>2, <1>6 DEF Decided, Voted, Missed
<1>9. Votes(handlers', ap, by, sl)
  BY <1>2, <1>6, <1>7, <1>8, VotesSend DEF Send, Decided
<1>10. \A u \in Tabs : \A s \in Slots : call'[u][s].id = call[u][s].id \/ call'[u][s].id = n
  BY <1>6, <1>7, Cells DEF Send
<1>11. n - 1 \in Nat /\ n - 1 <= n /\ budget'.calls = n - 1
  BY <1>1
<1>12. \A u \in Tabs : Settled(told[u], call', n - 1, ap, by, sl)
  BY <1>1, <1>2, <1>7, <1>10, <1>11, SettledKept DEF Decided
<1>13. /\ told' = [told EXCEPT ![t] = NoAnswer] /\ store' = store /\ slip' = slip
  BY DEF Acts
<1>14. DOMAIN told' = Tabs /\ \A u \in Tabs : told'[u] = told[u] \/ told'[u] = NoAnswer
  BY <1>13 DEF Decided
<1>15. \A u \in Tabs : Settled(told'[u], call', n - 1, ap, by, sl)
  BY <1>12, <1>14, NoAnswerSettled
<1>16. Voted(ap, by, n - 1)
  BY <1>1, <1>2, <1>11 DEF Decided, Voted
<1> QED
  BY <1>2, <1>9, <1>11, <1>13, <1>14, <1>15, <1>16 DEF Decided

LEMMA ClosesDecided ==
    ASSUME Safe, Decided, NEW t \in Tabs, Closes(t), budget'.calls = budget.calls
    PROVE  Decided'
<1>1. PICK n \in Nat : n = budget.calls
  BY DEF Safe, Known, Planned
<1>2. PICK ap, by, sl : ap = store.approval /\ by = store.by /\ sl = slip'
  OBVIOUS
<1>3. /\ From(handlers, handlers') /\ slip \subseteq slip'
      /\ \A u \in Tabs : \A s \in Slots : call'[u][s] = Idle \/ call'[u][s] = call[u][s]
  BY ClosesEffect, KeptItself DEF Safe, Requests, AllSound, From
<1>4. told' = [told EXCEPT ![t] = NoAnswer] /\ store' = store /\ CallsFormed(call) /\ Idle.id = 0
  BY DEF Closes, Safe, Client, Idle
<1>5. Votes(handlers', ap, by, sl)
  BY <1>2, <1>3, VotesFrom DEF Decided
<1>6. \A u \in Tabs : \A s \in Slots : call'[u][s].id = call[u][s].id \/ call'[u][s].id = 0
  BY <1>3, <1>4
<1>7. \A u \in Tabs : Settled(told[u], call', n, ap, by, sl)
  BY <1>1, <1>2, <1>3, <1>4, <1>6, SettledKept DEF Decided
<1>8. DOMAIN told' = Tabs /\ \A u \in Tabs : told'[u] = told[u] \/ told'[u] = NoAnswer
  BY <1>4 DEF Decided
<1>9. \A u \in Tabs : Settled(told'[u], call', n, ap, by, sl)
  BY <1>7, <1>8, NoAnswerSettled
<1> QED
  BY <1>1, <1>2, <1>4, <1>5, <1>8, <1>9 DEF Decided

\* The server goes on with a request, the decision excepted.
LEMMA ServesDecided ==
    ASSUME Safe, Decided, NEW h \in handlers, NEW x, Serve(h, x), Ends(x) \/ (h.todo # <<>> /\ Head(h.todo) # "decide"),
           Made(h) => h.route \in slip',
           slip \subseteq slip', told' = told, budget'.calls = budget.calls,
           store'.approval = store.approval, store'.by = store.by
    PROVE  Decided'
<1>1. PICK n \in Nat : n = budget.calls
  BY DEF Safe, Known, Planned
<1>2. PICK ap, by, sl : ap = store.approval /\ by = store.by /\ sl = slip'
  OBVIOUS
<1>3. /\ Moved(h, x) /\ Sound(h) /\ call' = call
  BY DEF Serve, Safe, Requests, AllSound
<1>4. x.route = "decideApproval" => ~Made(x)
  <2> SUFFICES ASSUME x.route = "decideApproval", Made(x)  PROVE FALSE
    OBVIOUS
  <2>1. PICK s \in Seq(STRING) : s = h.todo /\ s # <<>> /\ Ordered(s, h.route)
    BY <1>3 DEF Sound, Made, Ends
  <2>2. h.route = "decideApproval" /\ Tail(s) = <<>> /\ Head(s) # "decide"
    BY <1>3, <2>1 DEF Moved, Made, Ends, GoesOn
  <2> QED
    BY <2>1, <2>2, RestOrdered
<1>5. h.heard => Missed(h, ap, by, sl)
  BY <1>2 DEF Decided, Votes, Missed
<1>6. Votes((handlers \ {h}) \cup {x}, ap, by, sl)
  <2>1. x.heard => Missed(x, ap, by, sl)
    BY <1>3, <1>5 DEF Moved, Missed
  <2>2. \A y \in handlers \ {h} : /\ y.route = "decideApproval" /\ Made(y) => ap = y.arg.value
                                  /\ y.heard /\ ~Made(y) => Missed(y, ap, by, sl)
    BY <1>2 DEF Decided, Votes, Missed
  <2>3. /\ x.route = "decideApproval" /\ Made(x) => ap = x.arg.value
        /\ x.heard /\ ~Made(x) => Missed(x, ap, by, sl)
    BY <1>4, <2>1
  <2>4. \A y \in (handlers \ {h}) \cup {x} : y \in handlers \ {h} \/ y = x
    OBVIOUS
  <2> SUFFICES ASSUME NEW y \in (handlers \ {h}) \cup {x}
               PROVE  /\ y.route = "decideApproval" /\ Made(y) => ap = y.arg.value
                      /\ y.heard /\ ~Made(y) => Missed(y, ap, by, sl)
    BY Zenon DEF Votes
  <2>5. CASE y = x
    BY <2>3, <2>5 DEF Made, Missed
  <2>6. CASE y \in handlers \ {h}
    BY <2>2, <2>6, Zenon
  <2> QED
    BY <2>4, <2>5, <2>6
<1>7. Votes(handlers', ap, by, sl)
  <2>1. From((handlers \ {h}) \cup {x}, handlers')
    BY FromServe DEF Safe
  <2> QED
    BY <1>6, <2>1, VotesFrom
<1>8. \A u \in Tabs : Settled(told[u], call', n, ap, by, sl)
  BY <1>1, <1>2, <1>3, SettledKept DEF Decided, Safe, Client
<1> QED
  BY <1>1, <1>2, <1>7, <1>8 DEF Decided

\* The decision: whoever waits for it, waits for this request, or its reply is lost.
LEMMA DecidesDecided ==
    ASSUME Safe, Decided, NEW h \in handlers, Decides(h), store.approval = "PENDING"
    PROVE  Decided'
<1>1. PICK n \in Nat : n = budget.calls
  BY DEF Safe, Known, Planned
<1>2. PICK ap, by : ap = h.arg.value /\ by = h.id
  OBVIOUS
<1>3. PICK x : x = Proceeds(h)
  OBVIOUS
<1>4. /\ store' = [store EXCEPT !.approval = h.arg.value, !.by = h.id] /\ Changes(h, x)
      /\ h.todo # <<>> /\ Head(h.todo) = "decide" /\ Sound(h)
  BY <1>3 DEF Decides, At, Safe, Requests, AllSound
<1>5. Moved(h, x) /\ Serve(h, x) /\ UNCHANGED <<call, slip, told, budget>>
  BY <1>3, <1>4, Answered, ChangesServes DEF Changes, Serving
<1>6. store'.approval = ap /\ store'.by = by
  BY <1>2, <1>4 DEF Safe, Rows
<1>7. h.route = "decideApproval" /\ ap \in Verdicts /\ by \in Nat /\ by # 0 /\ by > n
  <2>1. h.route = "decideApproval"
    <3>1. PICK s \in Seq(STRING) : s = h.todo /\ s # <<>> /\ Ordered(s, h.route)
      BY <1>4 DEF Sound
    <3> QED
      BY <1>4, <3>1, RestOrdered
  <2>2. by \in Nat /\ by # 0 /\ ap \in Verdicts
    BY <1>2, <1>4, <2>1 DEF Sound, Called
  <2> QED
    BY <1>1, <1>2, <2>1, <2>2 DEF Safe, Known, Dated, Past
<1>8. h.heard => h.tab \in Tabs /\ h.slot \in Slots /\ call[h.tab][h.slot].id = by
  BY <1>2, AnswersCall DEF Safe, Answers
<1>9. ~h.heard => "decideApproval" \in slip
  BY <1>7 DEF Safe, Known, Lost
<1>10. Votes((handlers \ {h}) \cup {x}, ap, by, slip)
  <2>1. x.arg = h.arg /\ x.todo = Tail(h.todo) /\ x.code = 200
    BY <1>3, <1>4 DEF Proceeds, Sound, Fields
  <2>2. Tail(h.todo) = <<>>
    <3>1. PICK s \in Seq(STRING) : s = h.todo /\ s # <<>> /\ Ordered(s, h.route)
      BY <1>4 DEF Sound
    <3> QED
      BY <1>4, <3>1, RestOrdered DEF Commits
  <2>3. Made(x) /\ x.arg.value = ap
    BY <1>2, <2>1, <2>2 DEF Made
  <2>4. ASSUME NEW y \in handlers \ {h}, y.route = "decideApproval"
        PROVE  ~Made(y) /\ (y.heard => Missed(y, ap, by, slip))
    <3>1. ~Made(y)
      <4>1. y.arg.value \in Verdicts
        BY <2>4 DEF Safe, Requests, AllSound, Sound, Called
      <4> QED
        BY <2>4, <4>1 DEF Decided, Votes, Verdicts
    <3>2. ASSUME y.heard, y.id = by, h.heard  PROVE FALSE
      <4>1. y.tab \in Tabs /\ y.slot \in Slots /\ call[y.tab][y.slot].id = by
        BY <3>2, AnswersCall DEF Safe, Answers
      <4>2. y.tab = h.tab /\ y.slot = h.slot
        BY <1>7, <1>8, <3>2, <4>1 DEF Safe, Client, CallsFormed
      <4> QED
        BY <3>2, <4>2 DEF Safe, Client, Heard
    <3> QED
      BY <1>9, <3>1, <3>2 DEF Missed
  <2> QED
    BY <2>3, <2>4 DEF Votes, Missed
<1>11. Votes(handlers', ap, by, slip)
  <2>1. From((handlers \ {h}) \cup {x}, handlers')
    BY <1>5, FromServe DEF Safe
  <2> QED
    BY <1>10, <2>1, VotesFrom
<1>12. \A t \in Tabs : Settled(told[t], call, n, ap, by, slip)
  <2> SUFFICES ASSUME NEW t \in Tabs, told[t].value # "none"
               PROVE  /\ told[t].value \in Verdicts /\ told[t].id \in Nat /\ told[t].id > n
                      /\ \A u \in Tabs : \A s \in Slots : call[u][s].id # told[t].id
                      /\ IF told[t].ok THEN ap = told[t].value
                         ELSE ap # "PENDING" /\ by = told[t].id => "decideApproval" \in slip
    BY DEF Settled
  <2>1. /\ told[t].value \in Verdicts /\ told[t].id \in Nat /\ told[t].id > n
        /\ \A u \in Tabs : \A s \in Slots : call[u][s].id # told[t].id
        /\ told[t].ok => store.approval = told[t].value
    BY <1>1 DEF Decided, Settled
  <2>2. ~told[t].ok
    BY <2>1 DEF Verdicts
  <2>3. by = told[t].id => "decideApproval" \in slip
    BY <1>8, <1>9, <2>1
  <2> QED
    BY <2>1, <2>2, <2>3
<1> QED
  BY <1>1, <1>5, <1>6, <1>7, <1>11, <1>12 DEF Decided, Voted

LEMMA ServerDecided ==
    ASSUME Safe, Decided, NEW h \in handlers, Serves(h) \/ QueryFails(h)
    PROVE  Decided'
<1>1. slip \subseteq slip' /\ told' = told /\ budget'.calls = budget.calls
  BY ServerStep
<1>2. Sound(h) /\ (h.todo # <<>> \/ QueryFails(h)) /\ (Made(h) => h.todo = <<>>)
  BY DEF Safe, Requests, AllSound, Serves, Enforces, LocksHead, LinksEvent, ReadsLast, AppendsEvent, Authenticates,
         ChecksCsrf, Reauthenticates, ChecksRole, Reads, Writes, Decides, ReadsSteps, WritesStep, ChecksReadiness,
         SetsMode, MarksCheck, CreatesSession, FindsSession, Rotates, Revokes, At, Made
<1>3. CASE Decides(h) /\ store.approval = "PENDING"
  BY <1>3, DecidesDecided
<1>4. CASE Decides(h) /\ store.approval # "PENDING"
  <2>1. Becomes(h, Refused(h, 404)) /\ Reading /\ h.todo # <<>>
    BY <1>4 DEF Decides, At
  <2>2. Moved(h, Refused(h, 404)) /\ Ends(Refused(h, 404))
    <3>1. Refused(h, 404).todo = <<>> /\ Refused(h, 404).code # 200
      BY <1>2 DEF Refused, Sound, Fields
    <3>2. \A v : v # 200 => Moved(h, Refused(h, v))
      BY <1>2, <2>1, Answered
    <3>3. 404 # 200
      OBVIOUS
    <3> QED
      BY <3>1, <3>2, <3>3 DEF Ends
  <2>3. Serve(h, Refused(h, 404)) /\ store' = store
    BY <2>1, <2>2, BecomesServes DEF Reading, Serving
  <2> QED
    BY <1>1, <1>2, <2>1, <2>2, <2>3, ServesDecided
<1>5. CASE QueryFails(h)
  <2>1. PICK x : x = Failed(h)
    OBVIOUS
  <2>2. Becomes(h, x) /\ store' = store /\ call' = call /\ tab' = tab
    BY <1>5, <2>1 DEF QueryFails, Failed
  <2>3. Moved(h, x) /\ Ends(x)
    BY <1>2, <2>1, FailureMoves
  <2>4. Serve(h, x)
    BY <2>2, <2>3, BecomesServes
  <2>5. Made(h) => h.route \in slip'
    BY <1>5 DEF QueryFails, Made
  <2> QED
    BY <1>1, <2>2, <2>3, <2>4, <2>5, ServesDecided
<1>6. CASE Serves(h) /\ ~Decides(h)
  <2>1. Head(h.todo) # "decide" /\ h.todo # <<>>
    BY <1>6 DEF Serves, Enforces, LocksHead, LinksEvent, ReadsLast, AppendsEvent, Authenticates, ChecksCsrf,
                Reauthenticates, ChecksRole, Reads, Writes, ReadsSteps, WritesStep, ChecksReadiness, SetsMode,
                MarksCheck, CreatesSession, FindsSession, Rotates, Revokes, At
  <2>2. \/ store' = store
        \/ \E v, w : store' = [store EXCEPT !.marks = v, !.status = w]
        \/ \E v : store' = [store EXCEPT !.mode = v]
        \/ \E v : store' = [store EXCEPT !.checks = v]
        \/ \E v : store' = [store EXCEPT !.audit = v]
        \/ \E v : store' = [store EXCEPT !.events = v]
    <3>1. CASE WritesStep(h)
      BY <3>1 DEF WritesStep
    <3>2. CASE SetsMode(h)
      BY <3>2 DEF SetsMode
    <3>3. CASE MarksCheck(h)
      BY <3>3 DEF MarksCheck
    <3>4. CASE LinksEvent(h)
      BY <3>4 DEF LinksEvent
    <3>6. CASE AppendsEvent(h)
      BY <3>6 DEF AppendsEvent
    <3>5. CASE ~(WritesStep(h) \/ SetsMode(h) \/ MarksCheck(h) \/ LinksEvent(h) \/ AppendsEvent(h))
      BY <1>6, <3>5 DEF Serves, Enforces, LocksHead, ReadsLast, Authenticates, ChecksCsrf, Reauthenticates,
                        ChecksRole, Reads, Writes, ReadsSteps, ChecksReadiness, CreatesSession, FindsSession, Rotates, Revokes, Reading
    <3> QED
      BY <3>1, <3>2, <3>3, <3>4, <3>5, <3>6
  <2>3. store'.approval = store.approval /\ store'.by = store.by
    BY <2>2 DEF Safe, Rows
  <2>4. PICK x : Serve(h, x)
    BY <1>6, ServerStep
  <2> QED
    BY <1>1, <1>2, <2>1, <2>3, <2>4, ServesDecided
<1> QED
  BY <1>3, <1>4, <1>5, <1>6

LEMMA InitDecided == Init => Decided
<1> SUFFICES ASSUME Init  PROVE Decided
  OBVIOUS
<1>1. store.approval = "PENDING" /\ handlers = {} /\ told = [t \in Tabs |-> NoAnswer]
  BY DEF Init
<1> QED
  BY <1>1, NoAnswerSettled DEF Decided, Voted, Votes

LEMMA NextDecided == Safe /\ Decided /\ [Next]_vars => Decided'
<1> SUFFICES ASSUME Safe, Decided, [Next]_vars  PROVE Decided'
  OBVIOUS
<1>1. CASE UNCHANGED vars
  BY <1>1 DEF vars, Decided
<1>2. CASE Next
  <2>1. \/ budget'.calls = budget.calls
        \/ \E t \in Tabs : Acts(t) /\ budget'.calls = budget.calls - 1
    BY <1>2, BudgetSteps DEF Safe, Known
  <2>2. ASSUME NEW t \in Tabs, Opens(t) \/ Reloads(t)
        PROVE  Decided'
    BY <2>2, PageDecided
  <2>3. ASSUME NEW t \in Tabs, Acts(t)
        PROVE  Decided'
    <3>1. budget'.calls = budget.calls - 1
      BY <2>3 DEF Acts, Safe, Known, Planned
    <3> QED
      BY <2>3, <3>1, ActsDecided
  <2>4. ASSUME NEW t \in Tabs, Closes(t)
        PROVE  Decided'
    <3>1. budget'.calls = budget.calls
      BY <2>4 DEF Closes, Fault, Safe, Known, Planned
    <3> QED
      BY <2>4, <3>1, ClosesDecided
  <2>5. ASSUME NEW h \in handlers, Serves(h) \/ QueryFails(h)
        PROVE  Decided'
    BY <2>5, ServerDecided
  <2>6. ASSUME NEW h \in handlers, Receives(h)
        PROVE  Decided'
    BY <2>6, ReceivesDecided
  <2>7. ASSUME NEW h \in handlers, TimesOut(h)
        PROVE  Decided'
    <3>1. budget'.calls = budget.calls
      BY <2>7 DEF TimesOut, Fault, Safe, Known, Planned
    <3> QED
      BY <2>7, <3>1, TimesOutDecided
  <2>8. ASSUME NEW h \in handlers, Forgets(h)
        PROVE  Decided'
    BY <2>8 DEF Forgets, Decided, Votes
  <2>9. CASE AccessExpires \/ \E p \in DOMAIN Limits : WindowEnds(p)
    <3>1. UNCHANGED <<handlers, call, store, slip, told>> /\ budget'.calls = budget.calls
      BY <2>9 DEF AccessExpires, WindowEnds, Fault, Safe, Known, Planned
    <3> QED
      BY <3>1 DEF Decided
  <2> QED
    BY <1>2, <2>2, <2>3, <2>4, <2>5, <2>6, <2>7, <2>8, <2>9 DEF Next
<1> QED
  BY <1>1, <1>2

\* What a tab was told of its decision is true of the approval, whatever other tabs decide and however often a call is
\* repeated, unless a reply, or the database's answer to the update, was lost (institutional 143-155).
THEOREM ToldIsTrueHolds == Spec => []ToldIsTrue
<1>1. Init => Safe /\ Decided
  BY InitSafe, InitDecided
<1>2. (Safe /\ Decided) /\ [Next]_vars => (Safe /\ Decided)'
  BY NextSafe, NextDecided
<1>3. Safe /\ Decided => ToldIsTrue
  <2> SUFFICES ASSUME Decided, NEW t \in Tabs, told[t].value # "none"
               PROVE  IF told[t].ok THEN store.approval = told[t].value
                      ELSE (store.approval = told[t].value /\ store.by = told[t].id) => "decideApproval" \in slip
    BY DEF ToldIsTrue
  <2>1. Settled(told[t], call, budget.calls, store.approval, store.by, slip)
    BY DEF Decided
  <2> QED
    BY <2>1 DEF Settled, Verdicts
<1> QED
  BY <1>1, <1>2, <1>3, PTL DEF Spec

(***************************************************************************)
(* The limiter.                                                            *)
(***************************************************************************)
\* The client makes at most three attempts of a call (api 424), the smallest limit.
ThreeAttempts == \A p \in Plans : p.attempts <= 3

\* A bucket filled by one call i holds the numbers S of its attempts: none that still waits for the limiter.
AtLimit(h) == h.todo # <<>> /\ Head(h.todo) = "limit"
Holds(b, i, S, H, cl) ==
    /\ b.ids = {i} /\ Cardinality(S) = b.count
    /\ \A h \in H : AtLimit(h) /\ h.id = i => h.n \notin S
    /\ \A t \in Tabs : \A s \in Slots : cl[t][s].id = i => \A m \in S : m <= cl[t][s].n
Bucket(b, H, cl, a, n) ==
    /\ b.count \in Nat /\ IsFiniteSet(b.ids) /\ \A i \in b.ids : i \in Nat /\ i > n
    /\ \/ Cardinality(b.ids) > 1
       \/ b.ids = {} /\ b.count = 0
       \/ \E i : \E S \in SUBSET (1..a) : Holds(b, i, S, H, cl)
Tried(H, cl, a) == (\A h \in H : h.n \in 1..a) /\ \A t \in Tabs : \A s \in Slots : cl[t][s].n \in 0..a
Counted ==
    /\ Tried(handlers, call, budget.attempts) /\ budget.attempts <= 3
    /\ DOMAIN used = DOMAIN Limits /\ \A p \in DOMAIN Limits : Bucket(used[p], handlers, call, budget.attempts, budget.calls)
    /\ proof.spared

\* Who waits for the limiter waited before, or is a later attempt; the calls go on.
Behind(I, H, cl, n) ==
    \A y \in I : AtLimit(y) /\ y.id \in Nat /\ y.id > n =>
        \/ \E x \in H : AtLimit(x) /\ x.id = y.id /\ x.n = y.n
        \/ \E t \in Tabs : \E s \in Slots : cl[t][s].id = y.id /\ cl[t][s].n \in Nat /\ y.n \in Nat /\ cl[t][s].n < y.n
Onward(dl, cl, n) ==
    \A t \in Tabs : \A s \in Slots : dl[t][s].id \in Nat /\ dl[t][s].id > n =>
        cl[t][s].id = dl[t][s].id /\ cl[t][s].n \in Nat /\ dl[t][s].n \in Nat /\ cl[t][s].n <= dl[t][s].n

LEMMA BucketKept ==
    ASSUME NEW b, NEW H, NEW cl, NEW a \in Nat, NEW n \in Nat, Bucket(b, H, cl, a, n), NEW m \in Nat, m <= n,
           NEW I, Behind(I, H, cl, n), NEW dl, Onward(dl, cl, n)
    PROVE  Bucket(b, I, dl, a, m)
<1>1. \A i \in b.ids : i \in Nat /\ i > n /\ i > m
  BY DEF Bucket
<1>2. ASSUME NEW i, NEW S \in SUBSET (1..a), Holds(b, i, S, H, cl)
      PROVE  Holds(b, i, S, I, dl)
  <2>1. i \in Nat /\ i > n
    BY <1>1, <1>2 DEF Holds
  <2>2. ASSUME NEW y \in I, AtLimit(y), y.id = i  PROVE y.n \notin S
    <3>1. CASE \E x \in H : AtLimit(x) /\ x.id = y.id /\ x.n = y.n
      BY <1>2, <2>2, <3>1 DEF Holds
    <3>2. CASE \E t \in Tabs : \E s \in Slots : cl[t][s].id = y.id /\ cl[t][s].n \in Nat /\ y.n \in Nat /\ cl[t][s].n < y.n
      <4>1. PICK k \in Nat : k < y.n /\ y.n \in Nat /\ \A q \in S : q <= k
        BY <1>2, <2>2, <3>2 DEF Holds
      <4> QED
        BY <4>1
    <3> QED
      BY <2>1, <2>2, <3>1, <3>2 DEF Behind
  <2>3. ASSUME NEW t \in Tabs, NEW s \in Slots, dl[t][s].id = i, NEW q \in S
        PROVE  q <= dl[t][s].n
    <3>1. PICK k \in Nat : k = cl[t][s].n /\ dl[t][s].n \in Nat /\ k <= dl[t][s].n /\ cl[t][s].id = i
      BY <2>1, <2>3 DEF Onward
    <3>2. q \in Nat /\ q <= k
      BY <1>2, <3>1 DEF Holds
    <3> QED
      BY <3>1, <3>2
  <2> QED
    BY <1>2, <2>2, <2>3 DEF Holds
<1> QED
  BY <1>1, <1>2 DEF Bucket

\* The bucket of a policy after one more attempt, which does not wait any more.
LEMMA BucketFilled ==
    ASSUME NEW b, NEW H, NEW cl, NEW a \in Nat, NEW n \in Nat, Bucket(b, H, cl, a, n),
           NEW h \in H, AtLimit(h), h.id \in Nat, h.id > n, h.n \in 1..a, Attempts(H), Latest(H, cl),
           NEW I, \A y \in I : AtLimit(y) => \E z \in H \ {h} : AtLimit(z) /\ z.id = y.id /\ z.n = y.n,
           NEW d, d.count = b.count + 1, d.ids = b.ids \cup {h.id}
    PROVE  Bucket(d, I, cl, a, n)
<1>1. b.count \in Nat /\ IsFiniteSet(b.ids) /\ \A i \in b.ids : i \in Nat /\ i > n
  BY DEF Bucket
<1>2. d.count \in Nat /\ IsFiniteSet(d.ids) /\ \A i \in d.ids : i \in Nat /\ i > n
  BY <1>1, FS_AddElement
<1>3. PICK k \in Nat : k = Cardinality(b.ids)
  BY <1>1, FS_CardinalityType
<1>4. \A y \in I : AtLimit(y) /\ y.id = h.id => y.n # h.n
  BY DEF Attempts
<1>5. CASE Cardinality(b.ids) > 1
  <2>1. Cardinality(d.ids) = IF h.id \in b.ids THEN k ELSE k + 1
    <3>1. \A S, i : IsFiniteSet(S) => Cardinality(S \cup {i}) = IF i \in S THEN Cardinality(S) ELSE Cardinality(S) + 1
      BY FS_AddElement
    <3> QED
      BY <1>1, <1>3, <3>1
  <2>2. Cardinality(d.ids) > 1
    BY <1>3, <1>5, <2>1
  <2> QED
    BY <1>2, <2>2 DEF Bucket
<1>6. CASE b.ids = {} /\ b.count = 0
  <2>1. PICK S : S = {h.n}
    OBVIOUS
  <2>2. S \in SUBSET (1..a) /\ Cardinality(S) = 1 /\ d.count = 1 /\ d.ids = {h.id}
    <3>1. Cardinality(S) = 1
      BY <2>1, FS_Singleton
    <3>2. d.ids = {h.id} /\ S \in SUBSET (1..a)
      BY <1>6, <2>1
    <3> QED
      BY <1>6, <3>1, <3>2
  <2>3. Holds(d, h.id, S, I, cl)
    BY <1>4, <2>1, <2>2 DEF Holds, Latest
  <2> QED
    BY <1>2, <2>2, <2>3 DEF Bucket
<1>7. ASSUME NEW i, NEW S \in SUBSET (1..a), Holds(b, i, S, H, cl)
      PROVE  Bucket(d, I, cl, a, n)
  <2>1. CASE i = h.id
    <3>1. IsFiniteSet(S) /\ h.n \notin S
      <4>1. IsFiniteSet(1..a)
        BY FS_Interval
      <4> QED
        BY <1>7, <2>1, <4>1, FS_Subset DEF Holds
    <3>2. PICK T : T = S \cup {h.n}
      OBVIOUS
    <3>3. Cardinality(T) = Cardinality(S) + 1 /\ T \in SUBSET (1..a)
      BY <3>1, <3>2, FS_AddElement
    <3>4. d.ids = {h.id} /\ d.count = Cardinality(T)
      BY <1>7, <2>1, <3>3 DEF Holds
    <3>5. ASSUME NEW y \in I, AtLimit(y), y.id = h.id  PROVE y.n \notin T
      BY <1>4, <1>7, <2>1, <3>2, <3>5 DEF Holds
    <3>6. ASSUME NEW t \in Tabs, NEW s \in Slots, cl[t][s].id = h.id, NEW m \in T
          PROVE  m <= cl[t][s].n
      <4>1. CASE m \in S
        BY <1>7, <2>1, <3>6, <4>1 DEF Holds
      <4>2. CASE m = h.n
        BY <3>6, <4>2 DEF Latest
      <4> QED
        BY <3>2, <4>1, <4>2
    <3>7. Holds(d, h.id, T, I, cl)
      BY <3>4, <3>5, <3>6 DEF Holds
    <3> QED
      BY <1>2, <3>3, <3>7 DEF Bucket
  <2>2. CASE i # h.id
    <3>1. b.ids = {i} /\ h.id \notin b.ids
      BY <1>7, <2>2 DEF Holds
    <3>2. Cardinality(b.ids) = 1
      BY <3>1, FS_Singleton
    <3>3. Cardinality(d.ids) = 2
      BY <1>1, <3>1, <3>2, FS_AddElement
    <3>4. Cardinality(d.ids) > 1
      BY <3>3
    <3> QED
      BY <1>2, <3>4 DEF Bucket
  <2> QED
    BY <2>1, <2>2
<1> QED
  BY <1>5, <1>6, <1>7 DEF Bucket

\* What fills a bucket is allowed, or comes from more than one call.
LEMMA BucketAllows ==
    ASSUME NEW b, NEW H, NEW cl, NEW a \in Nat, a <= 3, NEW n, Bucket(b, H, cl, a, n), NEW p \in DOMAIN Limits
    PROVE  Allowed(p, b.count) \/ Cardinality(b.ids) > 1
<1>1. Limits[p] \in Nat /\ Limits[p] >= 3
  BY DEF Limits
<1>2. ASSUME NEW i, NEW S \in SUBSET (1..a), Holds(b, i, S, H, cl)
      PROVE  b.count <= 3
  <2>1. IsFiniteSet(1..a) /\ Cardinality(1..a) = a
    BY FS_Interval
  <2>2. Cardinality(S) <= a /\ Cardinality(S) \in Nat
    BY <2>1, FS_Subset, FS_CardinalityType
  <2> QED
    BY <1>2, <2>2 DEF Holds
<1>3. b.count \in Nat
  BY DEF Bucket
<1>4. Cardinality(b.ids) > 1 \/ b.count <= 3
  BY <1>2, <1>3 DEF Bucket
<1> QED
  BY <1>1, <1>3, <1>4 DEF Allowed

\* A new call or attempt, the end of a call; H is what else is on the server.
LEMMA CountedSend ==
    ASSUME Safe, Counted, NEW H, From(handlers, H), NEW t \in Tabs, NEW slot \in Slots, NEW c, Formed(c), c.route # "none",
           Send(t, slot, c, H), c.n \in 1..budget.attempts, UNCHANGED <<used, proof>>, budget'.attempts = budget.attempts,
           budget'.calls \in Nat, budget'.calls <= budget.calls,
           c.id > budget.calls => call[t][slot].id = c.id /\ call[t][slot].n < c.n
    PROVE  Counted'
<1>1. PICK a \in Nat : a = budget.attempts
  BY DEF Safe, Known, Planned
<1>2. PICK n \in Nat : n = budget.calls
  BY DEF Safe, Known, Planned
<1>3. PICK m \in Nat : m = budget'.calls /\ m <= n
  BY <1>2
<1>4. PICK y : y = Request(t, slot, c)
  OBVIOUS
<1>5. y.id = c.id /\ y.n = c.n /\ handlers' = H \cup {y} /\ CallsFormed(call)
  BY <1>4 DEF Request, Send, Safe, Client
<1>6. \A u \in Tabs : \A s \in Slots : call'[u][s] = IF u = t /\ s = slot THEN c ELSE call[u][s]
  <2>1. call' = [call EXCEPT ![t] = [call[t] EXCEPT ![slot] = c]]
    BY DEF Send
  <2> QED
    BY <1>5, <2>1 DEF CallsFormed
<1>7. Behind(handlers', handlers, call, n)
  <2> SUFFICES ASSUME NEW z \in handlers', AtLimit(z), z.id > n
               PROVE  \/ \E x \in handlers : AtLimit(x) /\ x.id = z.id /\ x.n = z.n
                      \/ \E u \in Tabs : \E s \in Slots :
                            call[u][s].id = z.id /\ call[u][s].n \in Nat /\ z.n \in Nat /\ call[u][s].n < z.n
    BY DEF Behind
  <2>1. CASE z \in H
    BY <2>1 DEF From, Kept, Same, AtLimit
  <2>2. CASE z = y
    <3>1. call[t][slot].id = c.id /\ call[t][slot].n < c.n
      BY <1>2, <1>5, <2>2
    <3>2. call[t][slot].n \in Nat /\ c.n \in Nat
      BY <1>5 DEF CallsFormed, Formed, Called
    <3> QED
      BY <1>5, <2>2, <3>1, <3>2
  <2> QED
    BY <1>5, <2>1, <2>2
<1>8. Onward(call', call, n)
  <2> SUFFICES ASSUME NEW u \in Tabs, NEW s \in Slots, call'[u][s].id > n
               PROVE  /\ call[u][s].id = call'[u][s].id /\ call[u][s].n \in Nat /\ call'[u][s].n \in Nat
                      /\ call[u][s].n <= call'[u][s].n
    BY DEF Onward
  <2>1. call[u][s].n \in Nat /\ c.n \in Nat
    BY <1>5 DEF CallsFormed, Formed, Called
  <2>2. CASE u = t /\ s = slot
    <3>1. call'[u][s] = c /\ call[u][s].id = c.id /\ call[u][s].n < c.n
      BY <1>2, <1>6, <2>2
    <3> QED
      BY <2>1, <3>1
  <2>3. CASE ~(u = t /\ s = slot)
    BY <1>6, <2>1, <2>3
  <2> QED
    BY <2>2, <2>3
<1>9. \A p \in DOMAIN Limits : Bucket(used[p], handlers', call', a, m)
  BY <1>1, <1>2, <1>3, <1>7, <1>8, BucketKept DEF Counted
<1>10. Tried(handlers', call', a)
  <2>1. \A z \in handlers' : z.n \in 1..a
    BY <1>1, <1>5 DEF From, Kept, Same, Counted, Tried
  <2>2. c.n \in 0..a
    BY <1>1
  <2> QED
    BY <1>1, <1>6, <2>1, <2>2 DEF Counted, Tried
<1> QED
  BY <1>1, <1>3, <1>9, <1>10 DEF Counted

LEMMA CountedFrom ==
    ASSUME Safe, Counted, From(handlers, handlers'), UNCHANGED <<used, proof>>,
           budget'.attempts = budget.attempts, budget'.calls = budget.calls,
           \A t \in Tabs : \A s \in Slots : call'[t][s] = Idle \/ call'[t][s] = call[t][s]
    PROVE  Counted'
<1>1. PICK a \in Nat : a = budget.attempts
  BY DEF Safe, Known, Planned
<1>2. PICK n \in Nat : n = budget.calls
  BY DEF Safe, Known, Planned
<1>3. Behind(handlers', handlers, call, n)
  BY DEF From, Kept, Same, AtLimit, Behind
<1>4. Idle.id = 0 /\ Idle.n = 0 /\ CallsFormed(call)
  BY DEF Idle, Safe, Client
<1>5. Onward(call', call, n)
  <2> SUFFICES ASSUME NEW t \in Tabs, NEW s \in Slots, call'[t][s].id > n
               PROVE  /\ call[t][s].id = call'[t][s].id /\ call[t][s].n \in Nat /\ call'[t][s].n \in Nat
                      /\ call[t][s].n <= call'[t][s].n
    BY DEF Onward
  <2>1. call'[t][s] = call[t][s]
    BY <1>2, <1>4
  <2>2. call[t][s].n \in Nat
    BY <1>4 DEF CallsFormed, Formed, Called
  <2> QED
    BY <2>1, <2>2
<1>6. \A p \in DOMAIN Limits : Bucket(used[p], handlers', call', a, n)
  BY <1>1, <1>2, <1>3, <1>5, BucketKept DEF Counted
<1>7. Tried(handlers', call', a)
  <2>1. \A z \in handlers' : z.n \in 1..a
    BY <1>1 DEF From, Kept, Same, Counted, Tried
  <2>2. Idle.n \in 0..a
    BY <1>4
  <2> QED
    BY <1>1, <2>1, <2>2 DEF Counted, Tried
<1> QED
  BY <1>1, <1>2, <1>6, <1>7 DEF Counted

LEMMA ReactsCounted ==
    ASSUME Safe, Counted, NEW h \in handlers, h.heard, NEW H, From(handlers, H), Reacts(h, H),
           UNCHANGED <<used, proof>>, budget'.attempts = budget.attempts, budget'.calls = budget.calls
    PROVE  Counted'
<1>1. /\ h.tab \in Tabs /\ h.slot \in Slots /\ CallsFormed(call) /\ Formed(call[h.tab][h.slot])
      /\ Answers(h, call[h.tab][h.slot]) /\ h.route # "none"
  BY AnswersCall DEF Safe
<1>2. PICK n \in Nat : n = budget.calls
  BY DEF Safe, Known, Planned
<1>3. PICK a \in Nat : a = budget.attempts /\ a # 0
  BY DEF Safe, Known, Planned
<1>4. CASE Retries(h.tab, h.slot, H)
  <2>1. PICK c : c = [call[h.tab][h.slot] EXCEPT !.n = @ + 1]
    OBVIOUS
  <2>2. Send(h.tab, h.slot, c, H) /\ call[h.tab][h.slot].n < a
    BY <1>3, <1>4, <2>1 DEF Retries
  <2>3. PICK k \in Nat : k = call[h.tab][h.slot].n /\ k < a
    BY <1>1, <2>2 DEF Formed, Called
  <2>4. /\ c.route = h.route /\ c.id = call[h.tab][h.slot].id /\ c.arg = h.arg /\ c.n = k + 1
        /\ DOMAIN c = {"route", "arg", "n", "id"}
    BY <1>1, <2>1, <2>3 DEF Formed, Answers
  <2>5. c.n \in Nat /\ c.n \in 1..a /\ k < c.n
    BY <1>3, <2>3, <2>4
  <2>6. Formed(c) /\ c.route # "none"
    BY <1>1, <2>4, <2>5 DEF Formed, Called, Answers
  <2> QED
    BY <1>1, <1>2, <1>3, <2>2, <2>3, <2>4, <2>5, <2>6, CountedSend
<1>5. ASSUME NEW ok, Concludes(h.tab, h.slot, ok, h, H)
      PROVE  Counted'
  <2>1. PICK c : c = [Idle EXCEPT !.route = "refresh", !.n = 1]
    OBVIOUS
  <2>2. c.route = "refresh" /\ c.id = 0 /\ c.arg = NoArg /\ c.n = 1 /\ DOMAIN c = {"route", "arg", "n", "id"}
    BY <2>1 DEF Idle
  <2>3. CASE Send(h.tab, h.slot, c, H)
    <3>1. Chosen("refresh", NoArg) /\ "refresh" \in DOMAIN Routes /\ "refresh" \notin Limited \cup {"decideApproval"}
      BY Choices, OnItsOwn
    <3>2. Formed(c) /\ c.route # "none"
      BY <2>2, <3>1 DEF Formed, Called, Chosen
    <3>3. c.n \in 1..a /\ ~(c.id > n)
      BY <1>2, <1>3, <2>2
    <3> QED
      BY <1>1, <1>2, <1>3, <2>3, <3>2, <3>3, CountedSend
  <2>4. CASE call' = [call EXCEPT ![h.tab][h.slot] = Idle] /\ handlers' = H
    <3>1. \A t \in Tabs : \A s \in Slots : call'[t][s] = Idle \/ call'[t][s] = call[t][s]
      BY <1>1, <2>4, Cells
    <3> QED
      BY <2>4, <3>1, CountedFrom
  <2> QED
    BY <1>5, <2>1, <2>3, <2>4 DEF Concludes
<1> QED
  BY <1>4, <1>5 DEF Reacts

LEMMA PageCounted ==
    ASSUME Safe, Counted, NEW t \in Tabs, Opens(t) \/ Reloads(t)
    PROVE  Counted'
<1>1. PICK n \in Nat : n = budget.calls
  BY DEF Safe, Known, Planned
<1>2. PICK a \in Nat : a = budget.attempts /\ a # 0
  BY DEF Safe, Known, Planned
<1>3. \E slot \in Slots : \E r \in Fetches \cup {"me", "refresh"} : Starts(t, slot, r, NoArg, 0)
  <2>1. CASE Opens(t)
    BY <2>1 DEF Opens, Slots
  <2>2. CASE Reloads(t)
    BY <2>2 DEF Reloads, Slots, Safe, Known, Planned
  <2> QED
    BY <2>1, <2>2
<1>4. UNCHANGED <<used, proof, budget>>
  BY DEF Opens, Reloads
<1>5. PICK slot \in Slots : \E r \in Fetches \cup {"me", "refresh"} : Starts(t, slot, r, NoArg, 0)
  BY <1>3
<1>6. PICK r \in Fetches \cup {"me", "refresh"} : Starts(t, slot, r, NoArg, 0)
  BY <1>5
<1>7. PICK c : c = [route |-> r, arg |-> NoArg, n |-> 1, id |-> 0]
  OBVIOUS
<1>8. Formed(c) /\ c.route # "none" /\ c.id = 0 /\ c.n = 1
  BY <1>7, OnItsOwn, Choices, RoutesAssumption DEF Formed, Called, Chosen
<1>9. Send(t, slot, c, handlers)
  BY <1>6, <1>7 DEF Starts
<1>10. c.n \in 1..a /\ ~(c.id > n) /\ n <= n
  BY <1>1, <1>2, <1>8
<1>11. From(handlers, handlers)
  BY FromSubset DEF Safe, Requests
<1> QED
  BY <1>1, <1>2, <1>4, <1>8, <1>9, <1>10, <1>11, CountedSend

LEMMA ActsCounted ==
    ASSUME Safe, Counted, NEW t \in Tabs, Acts(t), budget'.calls = budget.calls - 1, budget'.attempts = budget.attempts
    PROVE  Counted'
<1>1. PICK n \in Nat : n = budget.calls /\ n > 0
  BY DEF Safe, Known, Planned, Acts
<1>2. PICK a \in Nat : a = budget.attempts /\ a # 0
  BY DEF Safe, Known, Planned
<1>3. PICK r \in budget.routes : \E arg \in Args(r) : Starts(t, "act", r, arg, budget.calls)
  BY DEF Acts
<1>4. PICK arg \in Args(r) : Starts(t, "act", r, arg, n)
  BY <1>1, <1>3
<1>5. PICK c : c = [route |-> r, arg |-> arg, n |-> 1, id |-> n]
  OBVIOUS
<1>6. Formed(c) /\ c.route # "none" /\ c.id = n /\ c.n = 1
  BY <1>1, <1>4, <1>5, Choices, RoutesAssumption DEF Formed, Called, Chosen, Safe, Known, Planned
<1>7. Send(t, "act", c, handlers) /\ "act" \in Slots
  BY <1>4, <1>5 DEF Starts, Slots
<1>8. n - 1 \in Nat /\ n - 1 <= n /\ budget'.calls = n - 1 /\ ~(c.id > n) /\ c.n \in 1..a
  BY <1>1, <1>2, <1>6
<1>9. UNCHANGED <<used, proof>>
  BY DEF Acts
<1>10. From(handlers, handlers)
  BY FromSubset DEF Safe, Requests
<1> QED
  BY <1>1, <1>2, <1>6, <1>7, <1>8, <1>9, <1>10, CountedSend

\* The limiter counts an attempt; the server goes on with a request.
LEMMA EnforcesCounted ==
    ASSUME Safe, Counted, NEW h \in handlers, Enforces(h)
    PROVE  Counted'
<1>1. PICK a \in Nat : a = budget.attempts /\ a <= 3
  BY DEF Safe, Known, Planned, Counted
<1>2. PICK n \in Nat : n = budget.calls
  BY DEF Safe, Known, Planned
<1>3. Sound(h) /\ AtLimit(h) /\ Client /\ UNCHANGED <<call, budget>>
  BY DEF Safe, Requests, AllSound, Enforces, At, AtLimit
<1>4. PICK s \in Seq(STRING) : s = h.todo /\ s # <<>> /\ Ordered(s, h.route) /\ Head(s) = "limit"
  BY <1>3 DEF Sound, AtLimit
<1>5. h.route \in Limited /\ (Tail(s) # <<>> => Head(Tail(s)) # "limit")
  BY <1>4, RestOrdered
<1>6. PICK p \in DOMAIN Limits : p = Policy(h.route)
  BY <1>5, RoutesAssumption
<1>7. h.id \in Nat /\ h.id > n /\ h.n \in 1..a
  <2>1. h.id \in Nat /\ h.id # 0
    BY <1>3, <1>5 DEF Sound, Called
  <2> QED
    BY <1>1, <1>2, <2>1 DEF Safe, Known, Dated, Past, Counted, Tried
<1>8. PICK d : d = [count |-> used[p].count + 1, ids |-> used[p].ids \cup {h.id}]
  OBVIOUS
<1>9. /\ used' = [used EXCEPT ![p] = d]
      /\ \E x \in {Proceeds(h), Refused(h, 429)} : Becomes(h, x)
      /\ proof' = [proof EXCEPT !.spared = @ /\ (Allowed(p, d.count) \/ Cardinality(d.ids) > 1)]
  BY <1>6, <1>8 DEF Enforces
<1>10. PICK x \in {Proceeds(h), Refused(h, 429)} : Becomes(h, x)
  BY <1>9
<1>11. ~AtLimit(x) /\ x.n = h.n
  <2>1. (x.todo = <<>> \/ x.todo = Tail(h.todo)) /\ x.n = h.n
    <3>1. DOMAIN h = Fields
      BY <1>3 DEF Sound
    <3>2. CASE x = Proceeds(h)
      BY <3>1, <3>2 DEF Proceeds, Fields
    <3>3. CASE x = Refused(h, 429)
      BY <3>1, <3>3 DEF Refused, Fields
    <3> QED
      BY <1>10, <3>2, <3>3
  <2> QED
    BY <1>4, <1>5, <2>1 DEF AtLimit
<1>12. \A y \in handlers' : AtLimit(y) => \E z \in handlers \ {h} : AtLimit(z) /\ z.id = y.id /\ z.n = y.n
  BY <1>10, <1>11 DEF Becomes
<1>13. Bucket(d, handlers', call, a, n)
  <2>1. Bucket(used[p], handlers, call, a, n) /\ Attempts(handlers) /\ Latest(handlers, call)
    BY <1>1, <1>2, <1>3 DEF Counted, Client
  <2>2. d.count = used[p].count + 1 /\ d.ids = used[p].ids \cup {h.id}
    BY <1>8
  <2> QED
    BY <1>3, <1>7, <1>12, <2>1, <2>2, BucketFilled
<1>14. Allowed(p, d.count) \/ Cardinality(d.ids) > 1
  BY <1>1, <1>13, BucketAllows
<1>15. Behind(handlers', handlers, call, n)
  BY <1>12 DEF Behind
<1>16. Onward(call, call, n)
  BY <1>3 DEF Onward, Client, CallsFormed, Formed, Called
<1>17. \A q \in DOMAIN Limits : Bucket(used[q], handlers', call, a, n)
  BY <1>1, <1>2, <1>15, <1>16, BucketKept DEF Counted
<1>18. DOMAIN used' = DOMAIN Limits /\ \A q \in DOMAIN Limits : used'[q] = IF q = p THEN d ELSE used[q]
  BY <1>9 DEF Counted
<1>19. \A q \in DOMAIN Limits : Bucket(used'[q], handlers', call, a, n)
  BY <1>13, <1>17, <1>18
<1>20. Tried(handlers', call, a)
  BY <1>1, <1>7, <1>10, <1>11 DEF Becomes, Counted, Tried
<1>21. proof'.spared
  <2>1. DOMAIN proof = {"marks", "lost", "live", "raced", "forked", "late", "crossed", "spared"} /\ proof.spared
    BY DEF Safe, Rows, Counted
  <2> QED
    BY <1>9, <1>14, <2>1
<1> QED
  BY <1>1, <1>2, <1>3, <1>18, <1>19, <1>20, <1>21 DEF Counted

LEMMA ServesCounted ==
    ASSUME Safe, Counted, NEW h \in handlers, NEW x, Serve(h, x), used' = used, proof'.spared = proof.spared,
           budget'.attempts = budget.attempts, budget'.calls = budget.calls
    PROVE  Counted'
<1>1. PICK a \in Nat : a = budget.attempts
  BY DEF Safe, Known, Planned
<1>2. PICK n \in Nat : n = budget.calls
  BY DEF Safe, Known, Planned
<1>3. Moved(h, x) /\ Sound(h) /\ call' = call /\ CallsFormed(call)
  BY DEF Serve, Safe, Requests, AllSound, Client
<1>4. PICK H : H = (handlers \ {h}) \cup {x}
  OBVIOUS
<1>5. ~AtLimit(x)
  <2>1. CASE Ends(x)
    BY <2>1 DEF Ends, AtLimit
  <2>2. CASE GoesOn(h, x)
    <3>1. PICK s \in Seq(STRING) : s = h.todo /\ s # <<>> /\ Ordered(s, h.route)
      BY <1>3, <2>2 DEF Sound, GoesOn
    <3>2. Tail(s) # <<>> => Head(Tail(s)) # "limit"
      BY <3>1, RestOrdered
    <3> QED
      BY <2>2, <3>1, <3>2 DEF GoesOn, AtLimit
  <2> QED
    BY <1>3, <2>1, <2>2 DEF Moved
<1>6. From(H, handlers')
  BY <1>4, FromServe DEF Safe
<1>7. \A y \in handlers' : AtLimit(y) => \E z \in handlers : AtLimit(z) /\ z.id = y.id /\ z.n = y.n
  BY <1>4, <1>5, <1>6 DEF From, Kept, Same, AtLimit
<1>8. Behind(handlers', handlers, call, n)
  BY <1>7 DEF Behind
<1>9. Onward(call, call, n)
  BY <1>3 DEF Onward, CallsFormed, Formed, Called
<1>10. \A q \in DOMAIN Limits : Bucket(used[q], handlers', call, a, n)
  BY <1>1, <1>2, <1>8, <1>9, BucketKept DEF Counted
<1>11. Tried(handlers', call, a)
  <2>1. \A y \in H : y.n \in 1..a
    BY <1>1, <1>3, <1>4 DEF Counted, Tried, Moved
  <2>2. \A y \in handlers' : y.n \in 1..a
    BY <1>6, <2>1 DEF From, Kept, Same
  <2> QED
    BY <1>1, <2>2 DEF Counted, Tried
<1> QED
  BY <1>1, <1>2, <1>3, <1>10, <1>11 DEF Counted

LEMMA ServerCounted ==
    ASSUME Safe, Counted, NEW h \in handlers, Serves(h) \/ QueryFails(h), budget'.attempts = budget.attempts
    PROVE  Counted'
<1>1. budget'.calls = budget.calls
  BY ServerStep
<1>2. CASE Enforces(h)
  BY <1>2, EnforcesCounted
<1>3. CASE ~Enforces(h)
  <2>2. used' = used
    <3>1. CASE Serves(h) /\ ~Rotates(h)
      BY <1>3, <3>1 DEF Serves, LocksHead, LinksEvent, ReadsLast, AppendsEvent, Authenticates, ChecksCsrf,
                        Reauthenticates, ChecksRole, Reads, Writes, Decides, ReadsSteps, WritesStep, ChecksReadiness,
                        SetsMode, MarksCheck, CreatesSession, FindsSession, Revokes, Reading, Serving, Changes
    <3>2. CASE Rotates(h) \/ QueryFails(h)
      BY <3>2 DEF Rotates, QueryFails
    <3> QED
      BY <3>1, <3>2
  <2>3. \/ proof' = proof
        \/ \E v, w : proof' = [proof EXCEPT !.marks = v, !.lost = w]
        \/ \E v : proof' = [proof EXCEPT !.live = v]
        \/ \E v : proof' = [proof EXCEPT !.raced = v]
        \/ \E v : proof' = [proof EXCEPT !.forked = v]
        \/ \E v, w : proof' = [proof EXCEPT !.late = v, !.crossed = w]
    <3>1. CASE WritesStep(h)
      <4>1. PICK v, w : proof' = [proof EXCEPT !.marks[h.arg.step] = v, !.lost = w]
        BY <3>1 DEF WritesStep
      <4>2. proof' = [proof EXCEPT !.marks = [proof.marks EXCEPT ![h.arg.step] = v], !.lost = w]
        BY <4>1
      <4> QED
        BY <4>2
    <3>2. CASE SetsMode(h)
      BY <3>2 DEF SetsMode
    <3>3. CASE MarksCheck(h) \/ ChecksReadiness(h)
      BY <3>3 DEF MarksCheck, ChecksReadiness
    <3>4. CASE LocksHead(h)
      BY <3>4 DEF LocksHead
    <3>5. CASE AppendsEvent(h)
      BY <3>5 DEF AppendsEvent
    <3>6. CASE QueryFails(h)
      <4>1. proof' = proof
        BY <3>6, Zenon DEF QueryFails
      <4> QED
        BY <4>1
    <3>7. CASE Serves(h) /\ ~(WritesStep(h) \/ SetsMode(h) \/ MarksCheck(h) \/ ChecksReadiness(h) \/ LocksHead(h)
                             \/ AppendsEvent(h))
      BY <1>3, <3>7 DEF Serves, LinksEvent, ReadsLast, Authenticates, ChecksCsrf, Reauthenticates, ChecksRole, Reads,
                        Writes, Decides, ReadsSteps, CreatesSession, FindsSession, Rotates, Revokes, Reading, Changes
    <3> QED
      BY <3>1, <3>2, <3>3, <3>4, <3>5, <3>6, <3>7
  <2>4. proof'.spared = proof.spared
    BY <2>3 DEF Safe, Rows
  <2>5. PICK x : Serve(h, x)
    BY ServerStep
  <2> QED
    BY <1>1, <2>2, <2>4, <2>5, ServesCounted
<1> QED
  BY <1>2, <1>3

LEMMA WindowCounted ==
    ASSUME Safe, Counted, NEW p \in DOMAIN Limits, WindowEnds(p), budget'.attempts = budget.attempts,
           budget'.calls = budget.calls
    PROVE  Counted'
<1>1. PICK d : d = NoneUsed[p]
  OBVIOUS
<1>2. d.count = 0 /\ d.ids = {}
  BY <1>1 DEF NoneUsed
<1>3. UNCHANGED <<handlers, call, proof>> /\ used' = [used EXCEPT ![p] = d]
  BY <1>1 DEF WindowEnds
<1>4. \A H, cl, a, n : Bucket(d, H, cl, a, n)
  BY <1>2, FS_EmptySet DEF Bucket
<1>5. DOMAIN used' = DOMAIN Limits /\ \A q \in DOMAIN Limits : used'[q] = IF q = p THEN d ELSE used[q]
  BY <1>3 DEF Counted
<1> QED
  BY <1>3, <1>4, <1>5 DEF Counted

LEMMA InitCounted == ThreeAttempts /\ Init => Counted
<1> SUFFICES ASSUME ThreeAttempts, Init  PROVE Counted
  OBVIOUS
<1>1. budget \in Plans /\ handlers = {} /\ used = NoneUsed /\ proof.spared = TRUE
  BY DEF Init
<1>2. budget.attempts \in Nat \ {0} /\ budget.attempts <= 3
  BY <1>1, ConsoleAssumption DEF ThreeAttempts
<1>3. \A t \in Tabs : \A s \in Slots : call[t][s].n = 0
  BY DEF Init, Slots, Idle
<1>4. Tried(handlers, call, budget.attempts)
  BY <1>1, <1>2, <1>3 DEF Tried
<1>5. \A p \in DOMAIN Limits : NoneUsed[p].count = 0 /\ NoneUsed[p].ids = {}
  BY DEF NoneUsed
<1>6. \A p \in DOMAIN Limits : Bucket(used[p], handlers, call, budget.attempts, budget.calls)
  <2>1. \A b, H, cl, a, n : b.count = 0 /\ b.ids = {} => Bucket(b, H, cl, a, n)
    BY FS_EmptySet DEF Bucket
  <2> QED
    BY <1>1, <1>5, <2>1
<1>7. DOMAIN used = DOMAIN Limits
  BY <1>1 DEF NoneUsed
<1> QED
  BY <1>1, <1>2, <1>4, <1>6, <1>7 DEF Counted

LEMMA NextCounted == Safe /\ Counted /\ [Next]_vars => Counted'
<1> SUFFICES ASSUME Safe, Counted, [Next]_vars  PROVE Counted'
  OBVIOUS
<1>1. CASE UNCHANGED vars
  BY <1>1 DEF vars, Counted
<1>2. CASE Next
  <2>1. /\ budget'.attempts = budget.attempts
        /\ budget'.calls = budget.calls \/ \E t \in Tabs : Acts(t) /\ budget'.calls = budget.calls - 1
    BY <1>2, BudgetSteps DEF Safe, Known
  <2>2. ASSUME NEW t \in Tabs, Opens(t) \/ Reloads(t)
        PROVE  Counted'
    BY <2>2, PageCounted
  <2>3. ASSUME NEW t \in Tabs, Acts(t)
        PROVE  Counted'
    <3>1. budget'.calls = budget.calls - 1
      BY <2>3 DEF Acts, Safe, Known, Planned
    <3> QED
      BY <2>1, <2>3, <3>1, ActsCounted
  <2>4. ASSUME NEW t \in Tabs, Closes(t)
        PROVE  Counted'
    <3>1. budget'.calls = budget.calls /\ UNCHANGED <<used, proof>>
      BY <2>4 DEF Closes, Fault, Safe, Known, Planned
    <3>2. From(handlers, handlers')
      BY <2>4, ClosesEffect, KeptItself DEF Safe, Requests, AllSound, From
    <3>3. \A u \in Tabs : \A s \in Slots : call'[u][s] = Idle \/ call'[u][s] = call[u][s]
      BY <2>4, ClosesEffect DEF Safe
    <3> QED
      BY <2>1, <3>1, <3>2, <3>3, CountedFrom
  <2>5. ASSUME NEW h \in handlers, Serves(h) \/ QueryFails(h)
        PROVE  Counted'
    BY <2>1, <2>5, ServerCounted
  <2>6. ASSUME NEW h \in handlers, Receives(h)
        PROVE  Counted'
    <3>1. UNCHANGED <<used, proof, budget>> /\ From(handlers, handlers \ {h})
      BY <2>6, FromSubset DEF Receives, Safe, Requests
    <3> QED
      BY <2>6, <3>1, ReceivesReacts, ReactsCounted
  <2>7. ASSUME NEW h \in handlers, TimesOut(h)
        PROVE  Counted'
    <3>1. budget'.calls = budget.calls /\ UNCHANGED <<used, proof>>
      BY <2>7 DEF TimesOut, Fault, Safe, Known, Planned
    <3>2. PICK H : H = (handlers \ {h}) \cup {[h EXCEPT !.heard = FALSE]}
      OBVIOUS
    <3>3. From(handlers, H) /\ h.heard /\ Reacts(h, H)
      BY <2>7, <3>2, FromUnheard, TimesOutReacts DEF Safe
    <3> QED
      BY <2>1, <3>1, <3>3, ReactsCounted
  <2>8. ASSUME NEW h \in handlers, Forgets(h)
        PROVE  Counted'
    <3>1. UNCHANGED <<used, proof, budget, call>> /\ handlers' = handlers \ {h}
      BY <2>8 DEF Forgets
    <3>2. From(handlers, handlers')
      BY <3>1, FromSubset DEF Safe, Requests
    <3> QED
      BY <3>1, <3>2, CountedFrom
  <2>9. CASE AccessExpires
    <3>1. UNCHANGED <<handlers, call, used, proof>> /\ budget'.calls = budget.calls
      BY <2>9 DEF AccessExpires, Fault, Safe, Known, Planned
    <3> QED
      BY <2>1, <3>1 DEF Counted
  <2>10. ASSUME NEW p \in DOMAIN Limits, WindowEnds(p)
         PROVE  Counted'
    <3>1. budget'.calls = budget.calls
      BY <2>10 DEF WindowEnds, Fault, Safe, Known, Planned
    <3> QED
      BY <2>1, <2>10, <3>1, WindowCounted
  <2> QED
    BY <1>2, <2>2, <2>3, <2>4, <2>5, <2>6, <2>7, <2>8, <2>9, <2>10 DEF Next
<1> QED
  BY <1>1, <1>2

\* The attempts the client makes of one call never use up the limit of its route, for every number of tabs, calls and
\* faults: the limiter refuses only who made more than one call in the window (sensitiveRouteLimiter 22-38, api 424).
THEOREM RetriesFitTheLimitHolds ==
    ASSUME ThreeAttempts
    PROVE  Spec => []RetriesFitTheLimit
<1>1. Init => Safe /\ Counted
  BY InitSafe, InitCounted
<1>2. (Safe /\ Counted) /\ [Next]_vars => (Safe /\ Counted)'
  BY NextSafe, NextCounted
<1>3. Safe /\ Counted => RetriesFitTheLimit
  BY DEF Counted, RetriesFitTheLimit
<1> QED
  BY <1>1, <1>2, <1>3, PTL DEF Spec

(***************************************************************************)
(* The token pairs.                                                        *)
(***************************************************************************)
\* Pairs the server made: the newest one of a session, and the others.
Issued(c, ss) == c.sid \in 0..Len(ss) /\ c.k \in Nat /\ (c.sid # 0 => c.k <= ss[c.sid].k)
Current(c, ss) == c.sid # 0 /\ c.k = ss[c.sid].k
Equal(c, d) == c.sid = d.sid /\ c.k = d.k
Carries(h) == h.heard /\ h.cookies # Keep /\ h.cookies.sid # 0
AtRotate(h) == h.todo # <<>> /\ Head(h.todo) = "rotate"
\* A reply sets cookies only if the route was served to its end.
Typed(H, j, ss) ==
    /\ ss \in Seq([alive : BOOLEAN, k : Nat])
    /\ DOMAIN j = {"access", "sid", "k"} /\ Issued(j, ss) /\ j.access \in 0..Len(ss)
    /\ \A h \in H : /\ Issued(h.jar, ss) /\ h.jar.access \in 0..Len(ss) /\ h.found \in 0..Len(ss)
                    /\ h.cookies # Keep => h.todo = <<>> /\ h.code = 200 /\ Issued(h.cookies, ss)
\* A pair on its way is the newest one of its session, it is in no jar yet, and no other reply brings it; who is about to
\* rotate has found the newest one.
Distinct(H, j, ss) ==
    /\ \A h \in H : Carries(h) =>
          /\ Current(h.cookies, ss) /\ ~Equal(j, h.cookies)
          /\ \A y \in H : /\ ~Equal(y.jar, h.cookies)
                          /\ Carries(y) /\ Equal(y.cookies, h.cookies) => y.tab = h.tab /\ y.slot = h.slot
    /\ \A y \in H : AtRotate(y) => y.found = y.jar.sid /\ Current(y.jar, ss)
Newest(H, j, ss) ==
    \/ j.sid = 0 \/ Current(j, ss)
    \/ \E h \in H : Carries(h) /\ h.route = "refresh" /\ h.cookies = [sid |-> j.sid, k |-> ss[j.sid].k]
Excused(sl) == "refresh" \in sl \/ "overlap" \in sl
Pairs ==
    /\ Typed(handlers, jar, sessions)
    /\ ~Excused(slip) => Distinct(handlers, jar, sessions) /\ Newest(handlers, jar, sessions)

LEMMA PairsFrom ==
    ASSUME NEW H, NEW I, From(H, I), NEW j, NEW ss
    PROVE  (Typed(H, j, ss) => Typed(I, j, ss)) /\ (Distinct(H, j, ss) => Distinct(I, j, ss))
<1>1. \A y \in I : \E x \in H :
         /\ x.jar = y.jar /\ x.found = y.found /\ x.cookies = y.cookies /\ x.todo = y.todo /\ x.code = y.code
         /\ x.tab = y.tab /\ x.slot = y.slot /\ (Carries(y) => Carries(x)) /\ (AtRotate(y) => AtRotate(x))
  BY DEF From, Kept, Same, Carries, AtRotate
<1>2. Typed(H, j, ss) => Typed(I, j, ss)
  BY <1>1 DEF Typed
<1>3. Distinct(H, j, ss) => Distinct(I, j, ss)
  <2> SUFFICES ASSUME Distinct(H, j, ss)  PROVE Distinct(I, j, ss)
    OBVIOUS
  <2>1. ASSUME NEW h \in I, Carries(h)
        PROVE  /\ Current(h.cookies, ss) /\ ~Equal(j, h.cookies)
               /\ \A y \in I : /\ ~Equal(y.jar, h.cookies)
                               /\ Carries(y) /\ Equal(y.cookies, h.cookies) => y.tab = h.tab /\ y.slot = h.slot
    <3>1. PICK g \in H : Carries(g) /\ g.cookies = h.cookies /\ g.tab = h.tab /\ g.slot = h.slot
      BY <1>1, <2>1
    <3>2. /\ Current(g.cookies, ss) /\ ~Equal(j, g.cookies)
          /\ \A y \in H : /\ ~Equal(y.jar, g.cookies)
                          /\ Carries(y) /\ Equal(y.cookies, g.cookies) => y.tab = g.tab /\ y.slot = g.slot
      BY <3>1 DEF Distinct
    <3> QED
      BY <1>1, <3>1, <3>2
  <2>2. ASSUME NEW y \in I, AtRotate(y)
        PROVE  y.found = y.jar.sid /\ Current(y.jar, ss)
    BY <1>1, <2>2 DEF Distinct
  <2> QED
    BY <2>1, <2>2 DEF Distinct
<1> QED
  BY <1>2, <1>3

\* The client asks with the cookies of the jar, or does not ask.
Asks(H, I) ==
    \/ I = H
    \/ \E y : /\ I = H \cup {y} /\ y.jar = jar /\ y.found = 0 /\ y.cookies = Keep /\ ~AtRotate(y)

LEMMA SendsAsk ==
    ASSUME NEW t, NEW slot, NEW c, c.route \in DOMAIN Routes, NEW H, Send(t, slot, c, H)
    PROVE  Asks(H, handlers')
<1>1. PICK y : y = Request(t, slot, c)
  OBVIOUS
<1>2. handlers' = H \cup {y} /\ y.jar = jar /\ y.found = 0 /\ y.cookies = Keep /\ y.todo = Routes[c.route]
  BY <1>1 DEF Send, Request
<1>3. ~AtRotate(y)
  BY <1>2, RoutesAssumption DEF AtRotate
<1> QED
  BY <1>2, <1>3 DEF Asks

LEMMA ReactsAsk ==
    ASSUME Safe, NEW h \in handlers, h.heard, NEW H, Reacts(h, H)
    PROVE  Asks(H, handlers')
<1>1. /\ h.tab \in Tabs /\ h.slot \in Slots /\ CallsFormed(call) /\ Formed(call[h.tab][h.slot])
      /\ Answers(h, call[h.tab][h.slot]) /\ h.route # "none" /\ h.route \in DOMAIN Routes
  BY AnswersCall DEF Safe, Requests, AllSound, Sound
<1>2. CASE Retries(h.tab, h.slot, H)
  <2>1. PICK c : c = [call[h.tab][h.slot] EXCEPT !.n = @ + 1]
    OBVIOUS
  <2>2. Send(h.tab, h.slot, c, H)
    BY <1>2, <2>1 DEF Retries
  <2>3. c.route \in DOMAIN Routes
    BY <1>1, <2>1 DEF Formed, Answers
  <2> QED
    BY <2>2, <2>3, SendsAsk
<1>3. ASSUME NEW ok, Concludes(h.tab, h.slot, ok, h, H)
      PROVE  Asks(H, handlers')
  <2>1. PICK c : c = [Idle EXCEPT !.route = "refresh", !.n = 1]
    OBVIOUS
  <2>2. c.route \in DOMAIN Routes
    BY <2>1, OnItsOwn DEF Idle
  <2>3. Send(h.tab, h.slot, c, H) \/ handlers' = H
    BY <1>3, <2>1 DEF Concludes
  <2> QED
    BY <2>2, <2>3, SendsAsk DEF Asks
<1> QED
  BY <1>2, <1>3 DEF Reacts

LEMMA PairsAsk ==
    ASSUME NEW H, NEW I, Asks(H, I), NEW ss
    PROVE  /\ Typed(H, jar, ss) => Typed(I, jar, ss)
           /\ Distinct(H, jar, ss) => Distinct(I, jar, ss)
           /\ \A y \in I : Carries(y) => y \in H
<1>1. CASE I = H
  BY <1>1
<1>2. ASSUME NEW y, I = H \cup {y}, y.jar = jar, y.found = 0, y.cookies = Keep, ~AtRotate(y)
      PROVE  /\ Typed(H, jar, ss) => Typed(I, jar, ss)
             /\ Distinct(H, jar, ss) => Distinct(I, jar, ss)
             /\ \A z \in I : Carries(z) => z \in H
  <2>1. ~Carries(y)
    BY <1>2 DEF Carries
  <2>2. Typed(H, jar, ss) => Typed(I, jar, ss)
    <3> SUFFICES ASSUME Typed(H, jar, ss)  PROVE Typed(I, jar, ss)
      OBVIOUS
    <3>1. Len(ss) \in Nat
      BY DEF Typed
    <3>2. 0 \in 0..Len(ss)
      BY <3>1
    <3> QED
      BY <1>2, <3>2 DEF Typed
  <2>3. Distinct(H, jar, ss) => Distinct(I, jar, ss)
    BY <1>2, <2>1 DEF Distinct
  <2> QED
    BY <1>2, <2>1, <2>2, <2>3
<1> QED
  BY <1>1, <1>2 DEF Asks

\* The newest pair stays on its way.
LEMMA NewestKept ==
    ASSUME NEW H, NEW I, NEW j, NEW ss, Newest(H, j, ss),
           \A x \in H : Carries(x) /\ x.route = "refresh" =>
               \E y \in I : Carries(y) /\ y.route = x.route /\ y.cookies = x.cookies
    PROVE  Newest(I, j, ss)
BY DEF Newest

\* The client: the jar stays what it was.
LEMMA JarStays ==
    ASSUME Pairs, NEW H, From(handlers, H), Asks(H, handlers'), UNCHANGED <<jar, sessions>>, slip \subseteq slip',
           \A x \in handlers : Carries(x) /\ x.route = "refresh" => x \in H \/ "refresh" \in slip'
    PROVE  Pairs'
<1>1. Typed(handlers', jar, sessions)
  BY PairsFrom, PairsAsk DEF Pairs
<1>2. ASSUME ~Excused(slip')
      PROVE  Distinct(handlers', jar, sessions) /\ Newest(handlers', jar, sessions)
  <2>1. Distinct(handlers, jar, sessions) /\ Newest(handlers, jar, sessions)
    BY <1>2 DEF Pairs, Excused
  <2>2. Distinct(handlers', jar, sessions)
    BY <2>1, PairsFrom, PairsAsk
  <2>3. \A x \in handlers : Carries(x) /\ x.route = "refresh" => x \in handlers'
    BY <1>2 DEF Asks, Excused
  <2>4. Newest(handlers', jar, sessions)
    BY <2>1, <2>3, NewestKept
  <2> QED
    BY <2>2, <2>4
<1> QED
  BY <1>1, <1>2 DEF Pairs

LEMMA PagePairs ==
    ASSUME Safe, Pairs, NEW t \in Tabs, Opens(t) \/ Reloads(t) \/ Acts(t)
    PROVE  Pairs'
<1>1. Asks(handlers, handlers')
  <2>1. \E slot, r, arg, id : Starts(t, slot, r, arg, id) /\ r \in DOMAIN Routes
    <3>1. CASE Opens(t)
      BY <3>1, OnItsOwn DEF Opens
    <3>2. CASE Reloads(t)
      BY <3>2, OnItsOwn DEF Reloads, Safe, Known, Planned
    <3>3. CASE Acts(t)
      <4>1. PICK r \in budget.routes : \E arg \in Args(r) : Starts(t, "act", r, arg, budget.calls)
        BY <3>3 DEF Acts
      <4> QED
        BY <4>1 DEF Safe, Known, Planned
    <3> QED
      BY <3>1, <3>2, <3>3
  <2>2. PICK slot, r, arg, id : Starts(t, slot, r, arg, id) /\ r \in DOMAIN Routes
    BY <2>1
  <2>3. PICK c : c = [route |-> r, arg |-> arg, n |-> 1, id |-> id]
    OBVIOUS
  <2> QED
    BY <2>2, <2>3, SendsAsk DEF Starts
<1>2. UNCHANGED <<jar, sessions, slip>>
  BY DEF Opens, Reloads, Acts
<1>3. From(handlers, handlers)
  BY FromSubset DEF Safe, Requests
<1> QED
  BY <1>1, <1>2, <1>3, JarStays

LEMMA ClosesPairs ==
    ASSUME Safe, Pairs, NEW t \in Tabs, Closes(t)
    PROVE  Pairs'
<1>1. UNCHANGED <<jar, sessions>> /\ slip \subseteq slip'
  BY DEF Closes
<1>2. From(handlers, handlers')
  BY ClosesEffect, KeptItself DEF Safe, Requests, AllSound, From
<1>3. \A x \in handlers : Carries(x) /\ x.route = "refresh" => x \in handlers' \/ "refresh" \in slip'
  <2> SUFFICES ASSUME NEW x \in handlers, Carries(x), x.route = "refresh", x \notin handlers'
               PROVE  "refresh" \in slip'
    OBVIOUS
  <2>1. x.tab = t
    BY DEF Closes
  <2> QED
    BY <2>1 DEF Closes, Carries
<1> QED
  BY <1>1, <1>2, <1>3, JarStays DEF Asks

LEMMA TimesOutPairs ==
    ASSUME Safe, Pairs, NEW h \in handlers, TimesOut(h)
    PROVE  Pairs'
<1>1. PICK H : H = (handlers \ {h}) \cup {[h EXCEPT !.heard = FALSE]}
  OBVIOUS
<1>2. From(handlers, H) /\ Asks(H, handlers') /\ slip' = slip \cup {h.route} /\ UNCHANGED <<jar, sessions>>
  BY <1>1, FromUnheard, TimesOutReacts, ReactsAsk DEF Safe, TimesOut
<1>3. \A x \in handlers : Carries(x) /\ x.route = "refresh" => x \in H \/ "refresh" \in slip'
  BY <1>1, <1>2
<1> QED
  BY <1>2, <1>3, JarStays

LEMMA ForgetsPairs ==
    ASSUME Safe, Pairs, NEW h \in handlers, Forgets(h)
    PROVE  Pairs'
<1>1. UNCHANGED <<jar, sessions, slip>> /\ handlers' = handlers \ {h} /\ ~Carries(h)
  BY DEF Forgets, Carries
<1>2. From(handlers, handlers')
  BY <1>1, FromSubset DEF Safe, Requests
<1> QED
  BY <1>1, <1>2, JarStays DEF Asks

\* A reply arrives: if it brings a pair, that pair is the newest one, and no other reply brings it.
LEMMA ReceivesPairs ==
    ASSUME Safe, Pairs, NEW h \in handlers, Receives(h)
    PROVE  Pairs'
<1>1. /\ h.heard /\ h.todo = <<>> /\ UNCHANGED <<sessions, slip>>
      /\ jar' = IF h.code = 200 THEN Store(h.cookies) ELSE jar
  BY DEF Receives
<1>2. PICK H : H = handlers \ {h}
  OBVIOUS
<1>3. From(handlers, H) /\ Asks(H, handlers')
  BY <1>2, FromSubset, ReceivesReacts, ReactsAsk DEF Safe, Requests
<1>4. Typed(handlers', jar, sessions)
  BY <1>3, PairsFrom, PairsAsk DEF Pairs
<1>5. CASE h.cookies = Keep
  <2>1. jar' = jar /\ ~Carries(h)
    BY <1>1, <1>5 DEF Store, Carries
  <2> QED
    BY <1>1, <1>2, <1>3, <2>1, JarStays
<1>6. CASE h.cookies # Keep
  <2>1. PICK sid, k : sid = h.cookies.sid /\ k = h.cookies.k
    OBVIOUS
  <2>2. jar' = [access |-> sid, sid |-> sid, k |-> k] /\ Issued(h.cookies, sessions)
    BY <1>1, <1>6, <2>1 DEF Store, Pairs, Typed
  <2>3. PICK j : j = jar'
    OBVIOUS
  <2>4. DOMAIN j = {"access", "sid", "k"} /\ j.access = sid /\ j.sid = sid /\ j.k = k
    BY <2>2, <2>3
  <2>5. Typed(handlers', j, sessions)
    BY <1>4, <2>1, <2>2, <2>4 DEF Typed, Issued
  <2>6. ASSUME ~Excused(slip)
        PROVE  Distinct(handlers', j, sessions) /\ Newest(handlers', j, sessions)
    <3>1. Distinct(handlers, jar, sessions)
      BY <2>6 DEF Pairs
    <3>2. Distinct(handlers', jar, sessions)
      BY <1>3, <3>1, PairsFrom, PairsAsk
    <3>3. ASSUME NEW g \in handlers', Carries(g)
          PROVE  ~Equal(j, g.cookies)
      <4>1. g \in handlers /\ g # h
        BY <1>2, <1>3, <3>3, PairsAsk
      <4>2. CASE sid = 0
        BY <2>4, <3>3, <4>2 DEF Equal, Carries
      <4>3. CASE sid # 0
        <5>1. Carries(h)
          BY <1>1, <1>6, <2>1, <4>3 DEF Carries
        <5>2. Equal(g.cookies, h.cookies) => g.tab = h.tab /\ g.slot = h.slot
          BY <3>1, <3>3, <4>1, <5>1 DEF Distinct
        <5>3. ~(g.tab = h.tab /\ g.slot = h.slot)
          BY <1>1, <3>3, <4>1 DEF Safe, Client, Heard, Carries
        <5> QED
          BY <2>1, <2>4, <5>2, <5>3 DEF Equal
      <4> QED
        BY <4>2, <4>3
    <3>4. Distinct(handlers', j, sessions)
      BY <3>2, <3>3 DEF Distinct
    <3>5. j.sid = 0 \/ Current(j, sessions)
      <4>1. CASE sid # 0
        <5>1. Carries(h)
          BY <1>1, <1>6, <2>1, <4>1 DEF Carries
        <5> QED
          BY <2>1, <2>4, <3>1, <5>1 DEF Distinct, Current
      <4> QED
        BY <2>4, <4>1
    <3> QED
      BY <3>4, <3>5 DEF Newest
  <2> QED
    BY <1>1, <2>3, <2>5, <2>6 DEF Pairs
<1> QED
  BY <1>5, <1>6

LEMMA ExpiryPairs ==
    ASSUME Safe, Pairs, AccessExpires
    PROVE  Pairs'
<1>1. jar' = [jar EXCEPT !.access = 0] /\ UNCHANGED <<handlers, sessions, slip>>
  BY DEF AccessExpires
<1>2. PICK j : j = jar'
  OBVIOUS
<1>3. DOMAIN j = {"access", "sid", "k"} /\ j.sid = jar.sid /\ j.k = jar.k /\ j.access = 0
  BY <1>1, <1>2 DEF Pairs, Typed
<1>4. 0 \in 0..Len(sessions)
  <2>1. Len(sessions) \in Nat
    BY DEF Pairs, Typed
  <2> QED
    BY <2>1
<1>5. Typed(handlers, j, sessions)
  BY <1>3, <1>4 DEF Pairs, Typed, Issued
<1>6. ~Excused(slip) => Distinct(handlers, j, sessions) /\ Newest(handlers, j, sessions)
  BY <1>3 DEF Pairs, Distinct, Newest, Equal, Current
<1> QED
  BY <1>1, <1>2, <1>5, <1>6 DEF Pairs

\* The server: x takes the place of h, y of each other request.
LEMMA Remain ==
    ASSUME Requests, NEW h \in handlers, NEW x, Serve(h, x)
    PROVE  \A y \in (handlers \ {h}) \cup {x} : Carries(y) =>
               \E z \in handlers' : Carries(z) /\ z.route = y.route /\ z.cookies = y.cookies
<1>1. PICK H : H = (handlers \ {h}) \cup {x}
  OBVIOUS
<1>2. \A y \in H : DOMAIN y = Fields
  BY <1>1, MovedSound DEF Requests, AllSound, Serve, Sound
<1>3. CASE handlers' = H
  BY <1>1, <1>3
<1>4. CASE handlers' = Aged(H)
  <2> SUFFICES ASSUME NEW y \in H, Carries(y)
               PROVE  \E z \in handlers' : Carries(z) /\ z.route = y.route /\ z.cookies = y.cookies
    BY <1>1
  <2>1. PICK z : z = [y EXCEPT !.view = IF y.slot \in ReloadSlots THEN Older(@) ELSE @]
    OBVIOUS
  <2>2. z.route = y.route /\ z.cookies = y.cookies /\ z.heard = y.heard
    BY <1>2, <2>1 DEF Fields
  <2> QED
    BY <1>4, <2>1, <2>2 DEF Aged, Carries
<1> QED
  BY <1>1, <1>3, <1>4 DEF Serve

\* The awaits that set no cookies and find no session, and a failure: what it takes back from a refresh is lost.
LEMMA QuietPairs ==
    ASSUME Safe, Pairs, NEW h \in handlers, NEW x, Serve(h, x), x.cookies = Keep, x.found = h.found,
           Ends(x) \/ (h.todo # <<>> /\ Head(h.todo) # "find"), h.todo = <<>> => h.route \in slip',
           UNCHANGED <<jar, sessions>>, slip \subseteq slip'
    PROVE  Pairs'
<1>1. PICK H : H = (handlers \ {h}) \cup {x}
  OBVIOUS
<1>2. Moved(h, x) /\ Sound(h)
  BY DEF Serve, Safe, Requests, AllSound
<1>3. ~AtRotate(x)
  <2>1. CASE Ends(x)
    BY <2>1 DEF Ends, AtRotate
  <2>2. CASE h.todo # <<>> /\ Head(h.todo) # "find" /\ ~Ends(x)
    <3>1. PICK s \in Seq(STRING) : s = h.todo /\ s # <<>> /\ Ordered(s, h.route)
      BY <1>2, <2>2 DEF Sound
    <3>2. Tail(s) # <<>> => (Head(Tail(s)) = "rotate" => Head(s) = "find")
      BY <3>1, RestOrdered
    <3> QED
      BY <1>2, <2>2, <3>1, <3>2 DEF Moved, GoesOn, AtRotate
  <2> QED
    BY <2>1, <2>2
<1>4. ~Carries(x) /\ x.jar = h.jar /\ x.cookies = Keep
  BY <1>2 DEF Carries, Moved
<1>5. From(H, handlers')
  BY <1>1, FromServe DEF Safe
<1>6. Typed(handlers', jar, sessions)
  <2>1. Typed(H, jar, sessions)
    BY <1>1, <1>4 DEF Pairs, Typed
  <2> QED
    BY <1>5, <2>1, PairsFrom
<1>7. ASSUME ~Excused(slip')
      PROVE  Distinct(handlers', jar, sessions) /\ Newest(handlers', jar, sessions)
  <2>1. Distinct(handlers, jar, sessions) /\ Newest(handlers, jar, sessions)
    BY <1>7 DEF Pairs, Excused
  <2>2. Distinct(H, jar, sessions)
    BY <1>1, <1>3, <1>4, <2>1 DEF Distinct
  <2>3. ~(Carries(h) /\ h.route = "refresh")
    BY <1>2, <1>7 DEF Sound, Carries, Excused
  <2>4. \A y \in handlers : Carries(y) /\ y.route = "refresh" =>
           \E z \in handlers' : Carries(z) /\ z.route = y.route /\ z.cookies = y.cookies
    BY <2>3, Remain DEF Safe
  <2> QED
    BY <1>5, <2>1, <2>2, <2>4, PairsFrom, NewestKept
<1> QED
  BY <1>6, <1>7 DEF Pairs

LEMMA Element ==
    ASSUME NEW S, NEW s \in Seq(S), NEW i \in 1..Len(s)
    PROVE  s[i] \in S
OBVIOUS

\* A new session or another rotation: what was issued stays issued.
Grows(ss, st) ==
    /\ st \in Seq([alive : BOOLEAN, k : Nat]) /\ Len(ss) <= Len(st)
    /\ \A i \in 1..Len(ss) : ss[i].k <= st[i].k
LEMMA TypedGrows ==
    ASSUME NEW H, NEW j, NEW ss, NEW st, Typed(H, j, ss), Grows(ss, st)
    PROVE  Typed(H, j, st)
<1>1. PICK m \in Nat : m = Len(ss)
  BY DEF Typed
<1>2. PICK n \in Nat : n = Len(st) /\ m <= n
  BY <1>1 DEF Grows
<1>3. \A i \in 0..m : i \in 0..n /\ (i # 0 => i \in 1..m)
  BY <1>2
<1>4. \A i \in 1..m : ss[i].k \in Nat /\ st[i].k \in Nat /\ ss[i].k <= st[i].k
  <2> SUFFICES ASSUME NEW i \in 1..m  PROVE ss[i].k \in Nat /\ st[i].k \in Nat /\ ss[i].k <= st[i].k
    OBVIOUS
  <2>1. i \in 1..Len(ss) /\ i \in 1..Len(st)
    BY <1>1, <1>2
  <2>2. ss[i] \in [alive : BOOLEAN, k : Nat] /\ st[i] \in [alive : BOOLEAN, k : Nat]
    <3>1. ss \in Seq([alive : BOOLEAN, k : Nat]) /\ st \in Seq([alive : BOOLEAN, k : Nat])
      BY DEF Typed, Grows
    <3>2. ss[i] \in [alive : BOOLEAN, k : Nat]
      BY <2>1, <3>1, Element
    <3>3. st[i] \in [alive : BOOLEAN, k : Nat]
      BY <2>1, <3>1, Element
    <3> QED
      BY <3>2, <3>3
  <2> QED
    BY <2>1, <2>2 DEF Grows
<1>5. ASSUME NEW c, Issued(c, ss)
      PROVE  Issued(c, st)
  <2>1. c.sid \in 0..m /\ c.k \in Nat /\ (c.sid # 0 => c.k <= ss[c.sid].k)
    BY <1>1, <1>5 DEF Issued
  <2>2. c.sid # 0 => c.k <= st[c.sid].k
    <3> SUFFICES ASSUME c.sid # 0  PROVE c.k <= st[c.sid].k
      OBVIOUS
    <3>1. PICK a \in Nat : a = ss[c.sid].k /\ c.k <= a
      BY <1>3, <1>4, <2>1
    <3>2. PICK b \in Nat : b = st[c.sid].k /\ a <= b
      BY <1>3, <1>4, <2>1, <3>1
    <3> QED
      BY <2>1, <3>1, <3>2
  <2> QED
    BY <1>2, <1>3, <2>1, <2>2 DEF Issued
<1>6. \A i \in 0..Len(ss) : i \in 0..Len(st)
  BY <1>1, <1>2, <1>3
<1> QED
  BY <1>5, <1>6 DEF Typed, Grows

\* A request that ends its route with a reply that sets cookies.
Replies(h, x, cookies) ==
    /\ h.todo # <<>> /\ handlers' = (handlers \ {h}) \cup {x}
    /\ Head(h.todo) \in {"create", "rotate", "revoke"} /\ x = [Proceeds(h) EXCEPT !.cookies = cookies]
LEMMA Replied ==
    ASSUME Safe, NEW h \in handlers, NEW x, NEW cookies, Replies(h, x, cookies)
    PROVE  /\ x.todo = <<>> /\ x.code = 200 /\ x.cookies = cookies /\ x.jar = h.jar /\ x.found = h.found /\ x.heard = h.heard
           /\ x.route = h.route /\ h.cookies = Keep
<1>1. Sound(h) /\ h.todo # <<>> /\ Head(h.todo) \in Commits
  BY DEF Safe, Requests, AllSound, Replies, Commits
<1>2. PICK s \in Seq(STRING) : s = h.todo /\ s # <<>> /\ Ordered(s, h.route)
  BY <1>1 DEF Sound
<1>3. Tail(h.todo) = <<>>
  BY <1>1, <1>2, RestOrdered
<1>4. DOMAIN h = Fields /\ h.code = 200 /\ h.cookies = Keep
  BY <1>1 DEF Sound
<1> QED
  BY <1>3, <1>4 DEF Replies, Proceeds, Fields

LEMMA RepliesTyped ==
    ASSUME Safe, Pairs, NEW h \in handlers, NEW x, NEW cookies, Replies(h, x, cookies), NEW ss, Grows(sessions, ss),
           Issued(cookies, ss)
    PROVE  Typed(handlers', jar, ss)
<1>1. Typed(handlers, jar, ss)
  BY TypedGrows DEF Pairs
<1>2. x.todo = <<>> /\ x.code = 200 /\ x.cookies = cookies /\ x.jar = h.jar /\ x.found = h.found
  BY Replied
<1>3. handlers' = (handlers \ {h}) \cup {x}
  BY DEF Replies
<1> QED
  BY <1>1, <1>2, <1>3 DEF Typed

LEMMA CreatesPairs ==
    ASSUME Safe, Pairs, NEW h \in handlers, CreatesSession(h)
    PROVE  Pairs'
<1>1. PICK m \in Nat : m = Len(sessions)
  BY DEF Pairs, Typed
<1>2. PICK cookies, x : cookies = [sid |-> m + 1, k |-> 0] /\ x = [Proceeds(h) EXCEPT !.cookies = cookies]
  OBVIOUS
<1>3. Replies(h, x, cookies) /\ UNCHANGED <<jar, slip>> /\ sessions' = Append(sessions, [alive |-> TRUE, k |-> 0])
  BY <1>1, <1>2 DEF CreatesSession, At, Becomes, Replies, Serving
<1>4. PICK ss : ss = sessions'
  OBVIOUS
<1>5. sessions \in Seq([alive : BOOLEAN, k : Nat]) /\ Typed(handlers, jar, sessions)
  BY DEF Pairs, Typed
<1>6. PICK r : r = [alive |-> TRUE, k |-> 0]
  OBVIOUS
<1>7. r \in [alive : BOOLEAN, k : Nat] /\ r.k = 0
  BY <1>6
<1>8. ss \in Seq([alive : BOOLEAN, k : Nat]) /\ Len(ss) = m + 1 /\ ss[m + 1] = r /\ \A i \in 1..m : ss[i] = sessions[i]
  BY <1>1, <1>3, <1>4, <1>5, <1>6, <1>7
<1>9. \A i \in 1..m : sessions[i].k \in Nat
  <2>1. \A i \in 1..m : sessions[i] \in [alive : BOOLEAN, k : Nat]
    BY <1>1, <1>5, Element
  <2> QED
    BY <2>1
<1>10. Grows(sessions, ss)
  BY <1>1, <1>8, <1>9 DEF Grows
<1>11. Issued(cookies, ss) /\ Current(cookies, ss)
  BY <1>1, <1>2, <1>7, <1>8 DEF Issued, Current
<1>12. Typed(handlers', jar, ss)
  BY <1>3, <1>10, <1>11, RepliesTyped
<1>13. \A c : Issued(c, sessions) => ~Equal(c, cookies) /\ (Current(c, sessions) => Current(c, ss))
  BY <1>1, <1>2, <1>8 DEF Issued, Equal, Current
<1>14. ASSUME ~Excused(slip)
       PROVE  Distinct(handlers', jar, ss) /\ Newest(handlers', jar, ss)
  <2>1. Distinct(handlers, jar, sessions) /\ Newest(handlers, jar, sessions)
    BY <1>14 DEF Pairs
  <2>2. /\ handlers' = (handlers \ {h}) \cup {x} /\ ~AtRotate(x) /\ x.jar = h.jar /\ x.cookies = cookies
        /\ ~Carries(h)
    <3>1. x.todo = <<>> /\ x.cookies = cookies /\ x.jar = h.jar /\ h.cookies = Keep
      BY <1>3, Replied
    <3>2. handlers' = (handlers \ {h}) \cup {x}
      BY <1>3 DEF Replies
    <3> QED
      BY <3>1, <3>2 DEF AtRotate, Carries
  <2>3. \A y \in handlers : Issued(y.jar, sessions) /\ (Carries(y) => Issued(y.cookies, sessions))
    BY <1>5 DEF Typed, Carries
  <2>4. Issued(jar, sessions)
    BY <1>5 DEF Typed
  <2>5. ASSUME NEW g \in handlers', Carries(g)
        PROVE  /\ Current(g.cookies, ss) /\ ~Equal(jar, g.cookies)
               /\ \A y \in handlers' : /\ ~Equal(y.jar, g.cookies)
                                       /\ Carries(y) /\ Equal(y.cookies, g.cookies) => y.tab = g.tab /\ y.slot = g.slot
    <3>1. CASE g = x
      <4>1. \A y \in handlers' : y = x \/ y \in handlers
        BY <2>2
      <4>2. \A y \in handlers' : ~Equal(y.jar, cookies)
        BY <1>13, <2>2, <2>3, <4>1
      <4>3. \A y \in handlers' : Carries(y) /\ Equal(y.cookies, cookies) => y = x
        BY <1>13, <2>3, <4>1
      <4> QED
        BY <1>11, <1>13, <2>2, <2>4, <3>1, <4>2, <4>3
    <3>2. CASE g \in handlers
      <4>1. /\ Current(g.cookies, sessions) /\ ~Equal(jar, g.cookies)
            /\ \A y \in handlers : /\ ~Equal(y.jar, g.cookies)
                                   /\ Carries(y) /\ Equal(y.cookies, g.cookies) => y.tab = g.tab /\ y.slot = g.slot
        BY <2>1, <2>5, <3>2 DEF Distinct
      <4>2. Current(g.cookies, ss) /\ ~Equal(g.cookies, cookies)
        BY <1>13, <2>3, <2>5, <3>2, <4>1
      <4>3. ~Equal(x.cookies, g.cookies)
        BY <2>2, <4>2 DEF Equal
      <4> QED
        BY <2>2, <4>1, <4>2, <4>3
    <3> QED
      BY <2>2, <2>5, <3>1, <3>2
  <2>6. ASSUME NEW y \in handlers', AtRotate(y)
        PROVE  y.found = y.jar.sid /\ Current(y.jar, ss)
    BY <1>13, <2>1, <2>2, <2>3, <2>6 DEF Distinct
  <2>7. Distinct(handlers', jar, ss)
    BY <2>5, <2>6 DEF Distinct
  <2>8. Newest(handlers', jar, ss)
    <3>1. CASE jar.sid = 0 \/ Current(jar, sessions)
      BY <1>13, <2>4, <3>1 DEF Newest
    <3>2. CASE jar.sid # 0 /\ ~Current(jar, sessions)
      <4>1. PICK g \in handlers :
               Carries(g) /\ g.route = "refresh" /\ g.cookies = [sid |-> jar.sid, k |-> sessions[jar.sid].k]
        BY <2>1, <3>2 DEF Newest
      <4>2. jar.sid \in 1..m
        BY <1>1, <2>4, <3>2 DEF Issued
      <4> QED
        BY <1>8, <2>2, <4>1, <4>2 DEF Newest
    <3> QED
      BY <3>1, <3>2
  <2> QED
    BY <2>7, <2>8
<1> QED
  BY <1>3, <1>4, <1>12, <1>14 DEF Pairs

LEMMA RevokesPairs ==
    ASSUME Safe, Pairs, NEW h \in handlers, Revokes(h)
    PROVE  Pairs'
<1>1. PICK m \in Nat : m = Len(sessions)
  BY DEF Pairs, Typed
<1>2. PICK cookies, x : cookies = [sid |-> 0, k |-> 0] /\ x = [Proceeds(h) EXCEPT !.cookies = cookies]
  OBVIOUS
<1>3. Replies(h, x, cookies) /\ UNCHANGED <<jar, slip>>
  BY <1>2 DEF Revokes, At, Becomes, Replies, Serving
<1>4. PICK ss : ss = sessions'
  OBVIOUS
<1>5. sessions \in Seq([alive : BOOLEAN, k : Nat]) /\ Typed(handlers, jar, sessions) /\ h.jar.access \in 0..m
  BY <1>1 DEF Pairs, Typed
<1>6. ss \in Seq([alive : BOOLEAN, k : Nat]) /\ Len(ss) = m /\ \A i \in 1..m : ss[i].k = sessions[i].k
  <2>1. CASE h.jar.access = 0
    BY <1>1, <1>4, <1>5, <2>1 DEF Revokes
  <2>2. CASE h.jar.access # 0
    <3>1. PICK i \in 1..m : i = h.jar.access
      BY <1>5, <2>2
    <3>2. PICK r : r = [sessions[i] EXCEPT !.alive = FALSE]
      OBVIOUS
    <3>3. ss = [sessions EXCEPT ![i] = r]
      BY <1>4, <2>2, <3>1, <3>2 DEF Revokes
    <3>4. sessions[i] \in [alive : BOOLEAN, k : Nat]
      BY <1>1, <1>5, Element
    <3>5. r \in [alive : BOOLEAN, k : Nat] /\ r.k = sessions[i].k
      BY <3>2, <3>4
    <3> QED
      BY <1>1, <1>5, <3>3, <3>5
  <2> QED
    BY <2>1, <2>2
<1>7. \A i \in 1..m : sessions[i].k \in Nat
  <2>1. \A i \in 1..m : sessions[i] \in [alive : BOOLEAN, k : Nat]
    BY <1>1, <1>5, Element
  <2> QED
    BY <2>1
<1>8. Grows(sessions, ss)
  BY <1>1, <1>6, <1>7 DEF Grows
<1>9. Issued(cookies, ss)
  BY <1>1, <1>2, <1>6 DEF Issued
<1>10. Typed(handlers', jar, ss)
  BY <1>3, <1>8, <1>9, RepliesTyped
<1>11. \A c : Issued(c, sessions) /\ Current(c, sessions) => Current(c, ss)
  BY <1>1, <1>6 DEF Issued, Current
<1>12. ASSUME ~Excused(slip)
       PROVE  Distinct(handlers', jar, ss) /\ Newest(handlers', jar, ss)
  <2>1. Distinct(handlers, jar, sessions) /\ Newest(handlers, jar, sessions)
    BY <1>12 DEF Pairs
  <2>2. /\ handlers' = (handlers \ {h}) \cup {x} /\ ~AtRotate(x) /\ x.jar = h.jar /\ ~Carries(x) /\ ~Carries(h)
    <3>1. x.todo = <<>> /\ x.cookies = cookies /\ x.jar = h.jar /\ h.cookies = Keep
      BY <1>3, Replied
    <3>2. handlers' = (handlers \ {h}) \cup {x} /\ x.cookies.sid = 0
      BY <1>2, <1>3, <3>1 DEF Replies
    <3> QED
      BY <3>1, <3>2 DEF AtRotate, Carries
  <2>3. \A y \in handlers : Issued(y.jar, sessions) /\ (Carries(y) => Issued(y.cookies, sessions))
    BY <1>5 DEF Typed, Carries
  <2>4. Issued(jar, sessions)
    BY <1>5 DEF Typed
  <2>5. Distinct(handlers', jar, ss)
    BY <1>11, <2>1, <2>2, <2>3 DEF Distinct
  <2>6. Newest(handlers', jar, ss)
    <3>1. CASE jar.sid = 0 \/ Current(jar, sessions)
      BY <1>11, <2>4, <3>1 DEF Newest
    <3>2. CASE jar.sid # 0 /\ ~Current(jar, sessions)
      <4>1. PICK g \in handlers :
               Carries(g) /\ g.route = "refresh" /\ g.cookies = [sid |-> jar.sid, k |-> sessions[jar.sid].k]
        BY <2>1, <3>2 DEF Newest
      <4>2. jar.sid \in 1..m
        BY <1>1, <2>4, <3>2 DEF Issued
      <4> QED
        BY <1>6, <2>2, <4>1, <4>2 DEF Newest
    <3> QED
      BY <3>1, <3>2
  <2> QED
    BY <2>5, <2>6
<1> QED
  BY <1>3, <1>4, <1>10, <1>12 DEF Pairs

\* The session that was found is the one of the cookies, and no rotation was between.
LEMMA FindsPairs ==
    ASSUME Safe, Pairs, NEW h \in handlers, FindsSession(h)
    PROVE  Pairs'
<1>1. Sound(h) /\ h.todo # <<>> /\ Head(h.todo) = "find" /\ Reading
  BY DEF Safe, Requests, AllSound, FindsSession, At
<1>2. DOMAIN h = Fields /\ UNCHANGED <<jar, sessions, slip, call, tab>>
  BY <1>1 DEF Sound, Reading, Serving
<1>3. CASE ~(Alive(h.jar.sid) /\ sessions[h.jar.sid].k = h.jar.k)
  <2>1. PICK x : x = Refused(h, 401)
    OBVIOUS
  <2>2. Becomes(h, x)
    BY <1>3, <2>1 DEF FindsSession
  <2>3. \A v : v # 200 => Moved(h, Refused(h, v))
    BY <1>1, Answered
  <2>4. 401 # 200
    OBVIOUS
  <2>5. x.cookies = Keep /\ x.found = h.found /\ x.todo = <<>> /\ x.code # 200
    BY <1>1, <1>2, <2>1 DEF Refused, Fields, Sound
  <2>6. Serve(h, x)
    BY <1>2, <2>1, <2>2, <2>3, <2>4, BecomesServes
  <2> QED
    BY <1>1, <1>2, <2>5, <2>6, QuietPairs DEF Ends
<1>4. CASE Alive(h.jar.sid) /\ sessions[h.jar.sid].k = h.jar.k
  <2>1. PICK x : x = [Proceeds(h) EXCEPT !.found = h.jar.sid]
    OBVIOUS
  <2>2. handlers' = (handlers \ {h}) \cup {x}
    BY <1>4, <2>1 DEF FindsSession, Becomes
  <2>3. /\ x.cookies = Keep /\ h.cookies = Keep /\ x.found = h.jar.sid /\ x.jar = h.jar /\ x.heard = h.heard
    BY <1>1, <1>2, <2>1 DEF Proceeds, Fields, Sound
  <2>4. ~Carries(x) /\ ~Carries(h) /\ x.jar.sid # 0 /\ Current(x.jar, sessions)
    BY <1>4, <2>3 DEF Carries, Alive, Current
  <2>5. Typed(handlers', jar, sessions)
    BY <2>2, <2>3 DEF Pairs, Typed, Issued
  <2>6. ASSUME ~Excused(slip)
        PROVE  Distinct(handlers', jar, sessions) /\ Newest(handlers', jar, sessions)
    <3>1. Distinct(handlers, jar, sessions) /\ Newest(handlers, jar, sessions)
      BY <2>6 DEF Pairs
    <3>2. Distinct(handlers', jar, sessions)
      BY <2>2, <2>3, <2>4, <3>1 DEF Distinct
    <3>3. Newest(handlers', jar, sessions)
      BY <2>2, <2>4, <3>1, NewestKept
    <3> QED
      BY <3>2, <3>3
  <2> QED
    BY <1>2, <2>5, <2>6 DEF Pairs
<1> QED
  BY <1>3, <1>4

\* The rotation: no other pair of the session is on its way, and the reply brings the newest one.
LEMMA RotatesPairs ==
    ASSUME Safe, Pairs, NEW h \in handlers, Rotates(h)
    PROVE  Pairs'
<1>1. Sound(h) /\ h.todo # <<>> /\ Head(h.todo) = "rotate" /\ UNCHANGED <<jar, call, tab>> /\ AtRotate(h)
  BY DEF Safe, Requests, AllSound, Rotates, At, AtRotate
<1>2. /\ slip \subseteq slip'
      /\ ~Excused(slip') => \A y \in handlers \ {h} : AtRotate(y) => y.found # h.found
  BY DEF Rotates, At, AtRotate, Excused
<1>3. CASE ~Alive(h.found)
  <2>1. PICK x : x = Refused(h, 401)
    OBVIOUS
  <2>2. Becomes(h, x) /\ UNCHANGED sessions
    BY <1>3, <2>1 DEF Rotates
  <2>3. \A v : v # 200 => Moved(h, Refused(h, v))
    BY <1>1, Answered
  <2>4. 401 # 200
    OBVIOUS
  <2>5. x.cookies = Keep /\ x.found = h.found /\ x.todo = <<>> /\ x.code # 200
    BY <1>1, <2>1 DEF Refused, Fields, Sound
  <2>6. Serve(h, x)
    BY <1>1, <2>1, <2>2, <2>3, <2>4, BecomesServes
  <2> QED
    BY <1>1, <1>2, <2>2, <2>5, <2>6, QuietPairs DEF Ends
<1>4. CASE Alive(h.found)
  <2>1. PICK m \in Nat : m = Len(sessions)
    BY DEF Pairs, Typed
  <2>2. sessions \in Seq([alive : BOOLEAN, k : Nat]) /\ Typed(handlers, jar, sessions)
    BY DEF Pairs, Typed
  <2>3. PICK i \in 1..m : i = h.found
    <3>1. h.found \in 0..m /\ h.found # 0
      BY <1>4, <2>1, <2>2 DEF Typed, Alive
    <3> QED
      BY <3>1
  <2>4. sessions[i] \in [alive : BOOLEAN, k : Nat]
    BY <2>1, <2>2, Element
  <2>5. PICK k \in Nat : k = sessions[i].k
    BY <2>4
  <2>6. PICK cookies, x : cookies = [sid |-> i, k |-> k + 1] /\ x = [Proceeds(h) EXCEPT !.cookies = cookies]
    OBVIOUS
  <2>7. Pair(h) = cookies
    BY <2>3, <2>5, <2>6 DEF Pair
  <2>8. Replies(h, x, cookies) /\ sessions' = [sessions EXCEPT ![i].k = @ + 1]
    BY <1>1, <1>4, <2>3, <2>6, <2>7 DEF Rotates, Becomes, Replies
  <2>9. PICK ss, r : ss = sessions' /\ r = [sessions[i] EXCEPT !.k = k + 1]
    OBVIOUS
  <2>10. ss = [sessions EXCEPT ![i] = r] /\ r \in [alive : BOOLEAN, k : Nat] /\ r.k = k + 1
    BY <2>4, <2>5, <2>8, <2>9
  <2>11. /\ ss \in Seq([alive : BOOLEAN, k : Nat]) /\ Len(ss) = m /\ ss[i].k = k + 1
         /\ \A a \in 1..m : a # i => ss[a] = sessions[a]
    BY <2>1, <2>2, <2>10
  <2>12. \A a \in 1..m : sessions[a].k \in Nat
    <3>1. \A a \in 1..m : sessions[a] \in [alive : BOOLEAN, k : Nat]
      BY <2>1, <2>2, Element
    <3> QED
      BY <3>1
  <2>13. Grows(sessions, ss)
    <3>1. \A a \in 1..m : sessions[a].k <= ss[a].k
      BY <2>5, <2>11, <2>12
    <3> QED
      BY <2>1, <2>11, <3>1 DEF Grows
  <2>14. Issued(cookies, ss) /\ Current(cookies, ss)
    BY <2>6, <2>11 DEF Issued, Current
  <2>15. Typed(handlers', jar, ss)
    BY <2>8, <2>13, <2>14, RepliesTyped
  <2>16. ASSUME NEW c, Issued(c, sessions)
         PROVE  /\ ~Equal(c, cookies)
                /\ Current(c, sessions) /\ c.sid # i => Current(c, ss)
    <3>1. c.sid \in 0..m /\ c.k \in Nat /\ (c.sid # 0 => c.k <= sessions[c.sid].k)
      BY <2>1, <2>16 DEF Issued
    <3>2. c.sid = i => c.k <= k
      BY <2>5, <3>1
    <3>3. ~Equal(c, cookies)
      BY <2>6, <3>1, <3>2 DEF Equal
    <3>4. Current(c, sessions) /\ c.sid # i => Current(c, ss)
      BY <2>11, <3>1 DEF Current
    <3> QED
      BY <3>3, <3>4
  <2>17. ASSUME ~Excused(slip')
         PROVE  Distinct(handlers', jar, ss) /\ Newest(handlers', jar, ss)
    <3>1. Distinct(handlers, jar, sessions) /\ Newest(handlers, jar, sessions)
      BY <1>2, <2>17 DEF Pairs, Excused
    <3>2. /\ handlers' = (handlers \ {h}) \cup {x} /\ ~AtRotate(x) /\ x.jar = h.jar /\ x.cookies = cookies
          /\ ~Carries(h) /\ x.heard = h.heard /\ x.route = h.route
      <4>1. /\ x.todo = <<>> /\ x.cookies = cookies /\ x.jar = h.jar /\ h.cookies = Keep /\ x.heard = h.heard
            /\ x.route = h.route
        BY <2>8, Replied
      <4>2. handlers' = (handlers \ {h}) \cup {x}
        BY <2>8 DEF Replies
      <4> QED
        BY <4>1, <4>2 DEF AtRotate, Carries
    <3>3. \A y \in handlers : Issued(y.jar, sessions) /\ (Carries(y) => Issued(y.cookies, sessions))
      BY <2>2 DEF Typed, Carries
    <3>4. Issued(jar, sessions)
      BY <2>2 DEF Typed
    <3>5. h.jar.sid = i /\ h.jar.k = k
      BY <1>1, <2>3, <2>5, <3>1 DEF Distinct, Current
    <3>6. ASSUME NEW g \in handlers, Carries(g)
          PROVE  g.cookies.sid # i
      <4>1. Current(g.cookies, sessions) /\ ~Equal(h.jar, g.cookies)
        BY <3>1, <3>6 DEF Distinct
      <4> QED
        BY <2>5, <3>5, <4>1 DEF Current, Equal
    <3>7. ASSUME NEW g \in handlers', Carries(g)
          PROVE  /\ Current(g.cookies, ss) /\ ~Equal(jar, g.cookies)
                 /\ \A y \in handlers' : /\ ~Equal(y.jar, g.cookies)
                                         /\ Carries(y) /\ Equal(y.cookies, g.cookies) => y.tab = g.tab /\ y.slot = g.slot
      <4>1. CASE g = x
        <5>1. \A y \in handlers' : y = x \/ y \in handlers
          BY <3>2
        <5>2. \A y \in handlers' : ~Equal(y.jar, cookies)
          BY <2>16, <3>2, <3>3, <5>1
        <5>3. \A y \in handlers' : Carries(y) /\ Equal(y.cookies, cookies) => y = x
          BY <2>16, <3>3, <5>1
        <5> QED
          BY <2>14, <2>16, <3>2, <3>4, <4>1, <5>2, <5>3
      <4>2. CASE g \in handlers
        <5>1. /\ Current(g.cookies, sessions) /\ ~Equal(jar, g.cookies)
              /\ \A y \in handlers : /\ ~Equal(y.jar, g.cookies)
                                     /\ Carries(y) /\ Equal(y.cookies, g.cookies) => y.tab = g.tab /\ y.slot = g.slot
          BY <3>1, <3>7, <4>2 DEF Distinct
        <5>2. Current(g.cookies, ss) /\ ~Equal(g.cookies, cookies)
          BY <2>16, <3>3, <3>6, <3>7, <4>2, <5>1
        <5>3. ~Equal(x.cookies, g.cookies)
          BY <3>2, <5>2 DEF Equal
        <5> QED
          BY <3>2, <5>1, <5>2, <5>3
      <4> QED
        BY <3>2, <3>7, <4>1, <4>2
    <3>8. ASSUME NEW y \in handlers', AtRotate(y)
          PROVE  y.found = y.jar.sid /\ Current(y.jar, ss)
      <4>1. y \in handlers \ {h}
        BY <3>2, <3>8
      <4>2. y.found = y.jar.sid /\ Current(y.jar, sessions) /\ y.found # i
        BY <1>2, <2>3, <2>17, <3>1, <3>8, <4>1 DEF Distinct
      <4> QED
        BY <2>16, <3>3, <4>1, <4>2
    <3>9. Distinct(handlers', jar, ss)
      BY <3>7, <3>8 DEF Distinct
    <3>10. Newest(handlers', jar, ss)
      <4>1. CASE jar.sid = i
        <5>1. h.route = "refresh" /\ h.heard
          <6>1. PICK s \in Seq(STRING) : s = h.todo /\ s # <<>> /\ Ordered(s, h.route)
            BY <1>1 DEF Sound
          <6>2. h.route = "refresh"
            BY <1>1, <6>1, RestOrdered
          <6>3. ~h.heard => h.route \in slip
            BY DEF Safe, Known, Lost
          <6> QED
            BY <1>2, <2>17, <6>2, <6>3 DEF Excused
        <5>2. cookies.sid = i /\ cookies # Keep
          <6>1. Keep.sid = -1 /\ cookies.sid = i
            BY <2>6 DEF Keep
          <6> QED
            BY <6>1
        <5>3. Carries(x)
          BY <3>2, <5>1, <5>2 DEF Carries
        <5>4. x.cookies = [sid |-> jar.sid, k |-> ss[jar.sid].k]
          BY <2>6, <2>11, <3>2, <4>1
        <5> QED
          BY <3>2, <5>1, <5>3, <5>4 DEF Newest
      <4>2. CASE jar.sid # i /\ (jar.sid = 0 \/ Current(jar, sessions))
        BY <2>16, <3>4, <4>2 DEF Newest
      <4>3. CASE jar.sid # i /\ jar.sid # 0 /\ ~Current(jar, sessions)
        <5>1. PICK g \in handlers :
                 Carries(g) /\ g.route = "refresh" /\ g.cookies = [sid |-> jar.sid, k |-> sessions[jar.sid].k]
          BY <3>1, <4>3 DEF Newest
        <5>2. jar.sid \in 1..m
          BY <2>1, <3>4, <4>3 DEF Issued
        <5> QED
          BY <2>11, <3>2, <4>3, <5>1, <5>2 DEF Newest
      <4> QED
        BY <4>1, <4>2, <4>3
    <3> QED
      BY <3>9, <3>10
  <2> QED
    BY <1>1, <2>9, <2>15, <2>17 DEF Pairs
<1> QED
  BY <1>3, <1>4

LEMMA ServerPairs ==
    ASSUME Safe, Pairs, NEW h \in handlers, Serves(h) \/ QueryFails(h)
    PROVE  Pairs'
<1>1. CASE CreatesSession(h) \/ FindsSession(h) \/ Rotates(h) \/ Revokes(h)
  BY <1>1, CreatesPairs, FindsPairs, RotatesPairs, RevokesPairs
<1>2. CASE QueryFails(h)
  <2>1. PICK x : x = Failed(h)
    OBVIOUS
  <2>2. Sound(h) /\ Becomes(h, x) /\ UNCHANGED <<sessions, jar, call, tab>>
    BY <1>2, <2>1 DEF QueryFails, Failed, Safe, Requests, AllSound
  <2>3. slip \subseteq slip' /\ (h.todo = <<>> => h.route \in slip')
    BY <1>2 DEF QueryFails
  <2>4. Moved(h, x) /\ Ends(x) /\ x.cookies = Keep
    BY <2>1, <2>2, FailureMoves
  <2>5. x.found = h.found
    BY <2>1, <2>2 DEF Failed, Refused, Sound, Fields
  <2>6. Serve(h, x)
    BY <2>2, <2>4, BecomesServes
  <2> QED
    BY <2>2, <2>3, <2>4, <2>5, <2>6, QuietPairs
<1>3. CASE Serves(h) /\ ~(CreatesSession(h) \/ FindsSession(h) \/ Rotates(h) \/ Revokes(h))
  <2>1. /\ UNCHANGED <<jar, sessions, slip>> /\ h.todo # <<>> /\ Head(h.todo) \notin {"create", "find", "rotate", "revoke"}
    BY <1>3 DEF Serves, Enforces, LocksHead, LinksEvent, ReadsLast, AppendsEvent, Authenticates, ChecksCsrf,
                Reauthenticates, ChecksRole, Reads, Writes, Decides, ReadsSteps, WritesStep, ChecksReadiness, SetsMode,
                MarksCheck, Reading, Serving, Changes, At
  <2>2. PICK x : Serve(h, x)
    BY <1>3, ServerStep
  <2>3. h.cookies = Keep
    BY <2>1 DEF Safe, Requests, AllSound, Sound
  <2>4. x.cookies = Keep /\ x.found = h.found
    BY <2>1, <2>2, <2>3 DEF Serve, Moved
  <2> QED
    BY <2>1, <2>2, <2>4, QuietPairs
<1> QED
  BY <1>1, <1>2, <1>3

LEMMA InitPairs == Init => Pairs
<1> SUFFICES ASSUME Init  PROVE Pairs
  OBVIOUS
<1>1. PICK r : r = [alive |-> TRUE, k |-> 0]
  OBVIOUS
<1>2. sessions = <<r>> /\ r \in [alive : BOOLEAN, k : Nat] /\ r.k = 0 /\ handlers = {} /\ slip = {}
  BY <1>1 DEF Init
<1>3. sessions \in Seq([alive : BOOLEAN, k : Nat]) /\ Len(sessions) = 1 /\ sessions[1].k = 0
  BY <1>2
<1>4. PICK a \in {0, 1} : jar = [access |-> a, sid |-> 1, k |-> 0]
  BY DEF Init
<1>5. DOMAIN jar = {"access", "sid", "k"} /\ jar.access \in 0..1 /\ jar.sid = 1 /\ jar.k = 0
  BY <1>4
<1>6. Issued(jar, sessions) /\ Current(jar, sessions)
  BY <1>3, <1>5 DEF Issued, Current
<1>7. Typed(handlers, jar, sessions)
  BY <1>2, <1>3, <1>5, <1>6 DEF Typed
<1>8. Distinct(handlers, jar, sessions) /\ Newest(handlers, jar, sessions)
  BY <1>2, <1>6 DEF Distinct, Newest
<1> QED
  BY <1>7, <1>8 DEF Pairs

LEMMA NextPairs == Safe /\ Pairs /\ [Next]_vars => Pairs'
<1> SUFFICES ASSUME Safe, Pairs, [Next]_vars  PROVE Pairs'
  OBVIOUS
<1>1. CASE UNCHANGED vars
  BY <1>1 DEF vars, Pairs
<1>2. CASE \E t \in Tabs : Opens(t) \/ Closes(t) \/ Acts(t) \/ Reloads(t)
  BY <1>2, PagePairs, ClosesPairs
<1>3. CASE \E h \in handlers : Serves(h) \/ Receives(h) \/ Forgets(h) \/ TimesOut(h) \/ QueryFails(h)
  BY <1>3, ServerPairs, ReceivesPairs, ForgetsPairs, TimesOutPairs
<1>4. CASE AccessExpires
  BY <1>4, ExpiryPairs
<1>5. CASE \E p \in DOMAIN Limits : WindowEnds(p)
  BY <1>5 DEF WindowEnds, Pairs
<1> QED
  BY <1>1, <1>2, <1>3, <1>4, <1>5 DEF Next

\* Rotation alone never locks a browser out, for every number of tabs, calls and faults: its refresh token is the newest
\* one of its session, or the reply that brings it is on its way, unless such a reply, or the database's answer to the
\* rotation, was lost or two refreshes overlapped (authService 85-92).
THEOREM LockedOutIsExplainedHolds == Spec => []LockedOutIsExplained
<1>1. Init => Safe /\ Pairs
  BY InitSafe, InitPairs
<1>2. (Safe /\ Pairs) /\ [Next]_vars => (Safe /\ Pairs)'
  BY NextSafe, NextPairs
<1>3. Safe /\ Pairs => LockedOutIsExplained
  BY DEF Pairs, Newest, Current, Carries, Excused, Alive, LockedOutIsExplained
<1> QED
  BY <1>1, <1>2, <1>3, PTL DEF Spec
=============================================================================
