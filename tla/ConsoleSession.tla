--------------------------- MODULE ConsoleSession ---------------------------
(***************************************************************************)
(* The operator's console and the routes it calls: browser tabs that share *)
(* one cookie jar, the client that gives a call up and repeats it while    *)
(* the server still works on it, and the handlers, whose awaits            *)
(* interleave.  A route is the sequence of its awaits, a step is one of    *)
(* them.  One user, one account, one approval request, one wizard run.     *)
(***************************************************************************)
EXTENDS Integers, Sequences, FiniteSets, TLC

CONSTANTS
    Tabs,         \* tabs of the browser
    Admin,        \* the user has the role admin
    Steps,        \* required steps of the wizard, required readiness checks
    Plans         \* bound: [tabs, signed, loads, routes, calls, attempts, faults], the tabs, whether they are signed in
                  \* already, what their reloads ask for, the routes the operator calls and how often, the attempts of a call
                  \* (3 in the client), and how many timeouts, failed statements, expiries and closed tabs there may be

VARIABLES
    sessions,     \* user_sessions: [alive, k], k counts the rotations and stands for the token pair
    jar,          \* the cookies: [access, sid, k], the session of each token, 0 for none
    tab,          \* what a tab holds: [stage, user, sid, k, shown], sid and k of its CSRF token
    call,         \* the calls each tab waits for: the operator's, and up to two reloads of the console's data
    handlers,     \* requests on the server, replies on their way
    store,        \* [approval, by, marks, status, checks, mode, audit, events]: the rows the routes change; audit holds
                  \* the predecessor of each event of the scope's chain, events the newest plain event each plain one saw
    used,         \* the limiter's buckets, history: the calls that filled them
    proof,        \* history: [marks, lost, live, raced, forked, late, crossed, spared]: the last mark of each step, the
                  \* steps whose last mark was overwritten, LIVE was earned, a check failed under a switch to LIVE, the
                  \* first events of the scope overlapped, the requests overtaken by another's event, their events, ...
    slip,         \* history: routes a reply of which, or of whose last statement, was lost, and "overlap"
    told,         \* history: the last answer a tab got to its decision
    budget        \* the plan, with the calls and faults left

vars == <<sessions, jar, tab, call, handlers, store, used, proof, slip, told, budget>>

\* The awaits of each route, its checks in their order.  Body checks are left out: calls are well formed.
AuthRoutes == [
    register |-> <<"limit", "create">>, login |-> <<"limit", "create">>, refresh |-> <<"find", "rotate">>,
    logout |-> <<"revoke">>, me |-> <<"auth">>]
SafeModeRoutes == [
    safeModes |-> <<"auth", "read">>, resolveSafeMode |-> <<"auth", "csrf", "reauth", "write">>,
    activateSafeMode |-> <<"auth", "csrf", "reauth", "write", "write">>]
PanelRoutes == [
    commandCenter |-> <<"auth", "admin", "read">>, portfolio |-> <<"auth", "read">>,
    createForensicCase |-> <<"auth", "csrf", "write">>, createApproval |-> <<"auth", "csrf", "write">>,
    decideApproval |-> <<"auth", "csrf", "reauth", "decide">>,
    runRecovery |-> <<"auth", "csrf", "admin", "write">>, acceptCompliance |-> <<"auth", "csrf", "write">>,
    createEvidence |-> <<"auth", "csrf", "admin", "write">>]
PanelReads == [
    forensicCases |-> <<"auth", "read">>, approvals |-> <<"auth", "read">>, recoveries |-> <<"auth", "read">>,
    compliance |-> <<"auth", "read">>, evidence |-> <<"auth", "read">>]
WizardRoutes == [
    wizard |-> <<"auth", "steps">>, markStep |-> <<"limit", "auth", "csrf", "steps", "step">>,
    passStep |-> <<"limit", "auth", "csrf", "reauthIfGiven", "steps", "step">>]
RiskRoutes == [
    putPolicy |-> <<"auth", "csrf", "read", "write", "last", "event">>,
    recalculate |-> <<"auth", "csrf", "read", "last", "event">>,
    manualLock |-> <<"auth", "csrf", "reauth", "read", "write", "last", "event">>,
    releaseLock |-> <<"limit", "auth", "csrf", "reauth", "write", "last", "event">>]
ModeRoutes == [
    goLive |-> <<"limit", "auth", "csrf", "reauth", "read", "ready", "mode", "lock", "link">>,
    setMode |-> <<"limit", "auth", "csrf", "read", "mode", "lock", "link">>]
CloseRoutes == [
    killSwitch |-> <<"limit", "auth", "csrf", "reauth", "read", "write", "write", "lock", "link">>,
    closePosition |-> <<"limit", "auth", "csrf", "reauth", "write", "last", "event">>,
    syncPosition |-> <<"limit", "auth", "csrf", "read", "last", "event">>]
RiskReads == [
    positions |-> <<"auth", "read">>, executions |-> <<"auth", "read">>, decision |-> <<"auth", "read">>,
    orders |-> <<"auth", "read">>, audit |-> <<"auth", "read">>, readiness |-> <<"auth", "read", "read">>]
CheckRoutes == [
    passCheck |-> <<"limit", "auth", "csrf", "read", "reauth", "check", "lock", "link">>,
    failCheck |-> <<"limit", "auth", "csrf", "read", "check", "lock", "link">>]
WatchReads == [
    privateStreams |-> <<"auth", "read">>, reconciliations |-> <<"auth", "read">>,
    incidents |-> <<"auth", "read">>, mismatches |-> <<"auth", "read">>]
StateReads == [riskState |-> <<"auth", "read">>, riskEvents |-> <<"auth", "read">>, policy |-> <<"auth", "read", "read">>]
ConnectRoutes == [connect |-> <<"limit", "auth", "csrf", "write", "write", "write", "read", "write">>]
OpsRoutes     == [streamMetrics |-> <<"auth", "admin", "read">>, deadLetters |-> <<"auth", "admin", "read">>,
                  metrics |-> <<"auth", "admin">>, outbox |-> <<"auth", "admin", "read">>]
EventRoutes   == [recentEvents |-> <<"auth", "read">>]
SignalRoutes  == [signals |-> <<"auth", "read">>, strategies |-> <<"auth", "read">>]
MarketRoutes  == [adapters |-> <<"auth">>]
AgentRoutes   == [analyse |-> <<"auth", "csrf", "write">>, ingest |-> <<"auth", "csrf", "write">>]

Routes == AuthRoutes @@ SafeModeRoutes @@ PanelRoutes @@ PanelReads @@ WizardRoutes @@ RiskRoutes @@ ModeRoutes @@ CloseRoutes
       @@ RiskReads @@ CheckRoutes @@ WatchReads @@ StateReads @@ ConnectRoutes @@ OpsRoutes @@ EventRoutes
       @@ SignalRoutes @@ MarketRoutes @@ AgentRoutes
SignIns == {"register", "login"}

\* The parts a reload of the console's data asks for.
SignalFetches == DOMAIN SignalRoutes
WatchFetches  == DOMAIN WatchReads \cup {"readiness", "safeModes"}
PanelFetches  == DOMAIN PanelReads \cup {"commandCenter", "portfolio", "wizard"}
RiskFetches   == {"riskState", "riskEvents"}
MoreFetches   == {"positions", "executions"} \cup DOMAIN MarketRoutes \cup {"metrics", "streamMetrics", "deadLetters"}
Fetches       == SignalFetches \cup WatchFetches \cup PanelFetches \cup RiskFetches \cup MoreFetches

\* The limiter's policies: attempts in a window, for the routes whose path starts alike.
Limits == [login |-> 8, register |-> 4, connect |-> 6, killSwitch |-> 3, manualClose |-> 12, mode |-> 4, release |-> 4,
           readiness |-> 12]
Policy(r) ==
    CASE r \in {"closePosition", "syncPosition"} -> "manualClose"
      [] r \in {"goLive", "setMode"} -> "mode"
      [] r = "releaseLock" -> "release"
      [] r \in {"passCheck", "failCheck", "passStep", "markStep"} -> "readiness"
      [] OTHER -> r
NoneUsed == [p \in DOMAIN Limits |-> [count |-> 0, ids |-> {}]]

ASSUME ConsoleAssumption ==
    /\ Tabs # {} /\ Admin \in BOOLEAN /\ Steps # {}
    /\ \A p \in Plans : DOMAIN p = {"tabs", "signed", "loads", "routes", "calls", "attempts", "faults"}
    /\ \A p \in Plans : p.attempts \in Nat \ {0} /\ p.tabs \subseteq Tabs /\ p.routes \subseteq DOMAIN Routes /\ p.loads \subseteq Fetches
       /\ p.calls \in Nat /\ p.faults \in Nat /\ \A f, g \in p.loads : f = g

\* b follows a wherever it occurs in s, but at its head.
Follows(s, a, b) == \A i \in 2..Len(s) : s[i] = b => s[i - 1] = a
\* What is left of route r: it is limited first, and what a route decides, creates, rotates or revokes comes last.
Limited == {r \in DOMAIN Routes : Head(Routes[r]) = "limit"}
Commits == {"decide", "create", "rotate", "revoke"}
Ordered(s, r) ==
    /\ \A i \in DOMAIN s : /\ s[i] \in Commits => i = Len(s)
                           /\ s[i] = "decide" => r = "decideApproval"
                           /\ s[i] = "rotate" => r = "refresh"
                           /\ s[i] = "limit" => i = 1 /\ r \in Limited
    /\ r = "decideApproval" /\ s # <<>> => s[Len(s)] = "decide"
    /\ Follows(s, "lock", "link") /\ Follows(s, "find", "rotate") /\ Follows(s, "last", "event")
    /\ r = "goLive" => Follows(s, "ready", "mode")
\* An event is linked behind a head locked just before or behind a row just read, LIVE is set on checks just seen, what
\* the page calls on its own is neither limited nor a decision; TLC evaluates it on the table.
ASSUME RoutesAssumption ==
    /\ Fetches \cup {"me", "refresh"} \subseteq DOMAIN Routes
    /\ \A r \in DOMAIN Routes :
        /\ r # "none" /\ Routes[r] \in Seq(STRING)
        /\ Routes[r] # <<>> /\ Head(Routes[r]) \notin {"link", "event", "mode", "rotate"}
        /\ Ordered(Routes[r], r)
    /\ (Fetches \cup {"me", "refresh"}) \cap (Limited \cup {"decideApproval"}) = {}
    /\ \A r \in Limited : Policy(r) \in DOMAIN Limits

Statuses == {"PENDING", "PASSED", "FAILED"}
Marks    == [Steps -> Statuses]
NoStep   == CHOOSE k \in Steps : TRUE
NoArg    == [step |-> NoStep, value |-> "none"]
Closed   == [stage |-> "closed", user |-> FALSE, sid |-> 0, k |-> 0, shown |-> "none"]
NoAnswer == [id |-> 0, value |-> "none", ok |-> FALSE]
Idle     == [route |-> "none", arg |-> NoArg, n |-> 0, id |-> 0]   \* id: which call of the operator
Pending  == [k \in Steps |-> "PENDING"]
Keep     == [sid |-> -1, k |-> 0]   \* a reply that sets no cookies
ReloadSlots == {"load", "late"}     \* bound: the reloads of a tab that are pending at a time
Slots    == {"act"} \cup ReloadSlots

\* What the operator may choose: the decision, the step or check and its new status.
Args(r) ==
    CASE r = "decideApproval" -> {[step |-> NoStep, value |-> v] : v \in {"APPROVED", "REJECTED"}}
      [] r \in {"passStep", "passCheck"} -> {[step |-> k, value |-> "PASSED"] : k \in Steps}
      [] r \in {"markStep", "failCheck"} -> {[step |-> k, value |-> "FAILED"] : k \in Steps}
      [] r = "goLive" -> {[step |-> NoStep, value |-> "LIVE"]}
      [] r = "setMode" -> {[step |-> NoStep, value |-> "PAPER"]}
      [] OTHER -> {NoArg}

-----------------------------------------------------------------------------
\* The client: one attempt of a call, sent with the cookies and the CSRF token of that moment.
Request(t, slot, c) ==
    [tab |-> t, slot |-> slot, n |-> c.n, id |-> c.id, route |-> c.route, arg |-> c.arg, todo |-> Routes[c.route], heard |-> TRUE,
     jar |-> jar, csrf |-> [sid |-> tab[t].sid, k |-> tab[t].k], found |-> 0, seen |-> Pending, prev |-> 0, view |-> "new",
     code |-> 200, cookies |-> Keep]

Send(t, slot, c, others) ==
    /\ call' = [call EXCEPT ![t][slot] = c]
    /\ handlers' = others \cup {Request(t, slot, c)}

Starts(t, slot, r, arg, id) == Send(t, slot, [route |-> r, arg |-> arg, n |-> 1, id |-> id], handlers)

\* What the hooks do with the end of a call: ok is FALSE for an error of any kind.
SignedIn(t, pair) == [tab EXCEPT ![t].stage = "ready", ![t].user = TRUE, ![t].sid = pair.sid, ![t].k = pair.k]
\* Mutant: only the first load is shown.
ShowsFirst(t, ok, view) == [tab EXCEPT ![t].shown = IF ok /\ @ = "none" THEN view ELSE @]
Shows(t, ok, view) == [tab EXCEPT ![t].shown = IF ok THEN view ELSE @]
SignedOut(t) == [tab EXCEPT ![t].user = FALSE, ![t].sid = 0, ![t].k = 0, ![t].shown = "none"]

Concludes(t, slot, ok, h, others) ==
    LET c == call[t][slot] IN
    /\ IF c.route = "me" /\ ~ok
       THEN /\ Send(t, slot, [Idle EXCEPT !.route = "refresh", !.n = 1], others)
            /\ UNCHANGED tab
       ELSE /\ call' = [call EXCEPT ![t][slot] = Idle]
            /\ handlers' = others
            /\ tab' = CASE slot \in ReloadSlots -> Shows(t, ok, h.view)
                        [] slot = "act" /\ c.route = "logout" -> SignedOut(t)
                        [] slot = "act" /\ c.route = "me" -> SignedIn(t, h.jar)
                        [] slot = "act" /\ c.route \in SignIns \cup {"refresh"} /\ ok -> SignedIn(t, h.cookies)
                        [] OTHER -> [tab EXCEPT ![t].stage = "ready"]
    /\ told' = IF c.route = "decideApproval" THEN [told EXCEPT ![t] = [id |-> c.id, value |-> c.arg.value, ok |-> ok]] ELSE told

\* An answer below 500 ends the call, a 5xx or a lost one is tried again.
Retries(t, slot, others) ==
    /\ call[t][slot].n < budget.attempts
    /\ Send(t, slot, [call[t][slot] EXCEPT !.n = @ + 1], others)
    /\ UNCHANGED <<tab, told>>
GivesUp(t, slot, h, others) == call[t][slot].n = budget.attempts /\ Concludes(t, slot, FALSE, h, others)

Store(cookies) == IF cookies = Keep THEN jar ELSE [access |-> cookies.sid, sid |-> cookies.sid, k |-> cookies.k]

Receives(h) ==
    /\ h.todo = <<>> /\ h.heard
    /\ jar' = IF h.code = 200 THEN Store(h.cookies) ELSE jar
    /\ IF h.code < 500 THEN Concludes(h.tab, h.slot, h.code = 200, h, handlers \ {h})
       ELSE Retries(h.tab, h.slot, handlers \ {h}) \/ GivesUp(h.tab, h.slot, h, handlers \ {h})
    /\ UNCHANGED <<sessions, store, used, proof, slip, budget>>
Forgets(h) ==
    /\ h.todo = <<>> /\ ~h.heard
    /\ handlers' = handlers \ {h}
    /\ UNCHANGED <<sessions, jar, tab, call, store, used, proof, slip, told, budget>>

Fault == budget.faults > 0 /\ budget' = [budget EXCEPT !.faults = @ - 1]
\* requestTimeoutMs passes: the attempt is aborted, its handler works on.
TimesOut(h) ==
    LET others == (handlers \ {h}) \cup {[h EXCEPT !.heard = FALSE]} IN
    /\ Fault /\ h.heard
    /\ slip' = slip \cup {h.route}
    /\ Retries(h.tab, h.slot, others) \/ GivesUp(h.tab, h.slot, h, others)
    /\ UNCHANGED <<sessions, jar, store, used, proof>>

-----------------------------------------------------------------------------
\* The page: it asks who is signed in, and tries a refresh if nobody is.
Opens(t) ==
    /\ tab[t].stage = "closed" /\ t \in budget.tabs
    /\ Starts(t, "act", "me", NoArg, 0)
    /\ tab' = [tab EXCEPT ![t].stage = "opening"]
    /\ UNCHANGED <<sessions, jar, store, used, proof, slip, told, budget>>
Closes(t) ==
    /\ Fault /\ tab[t].stage # "closed"
    /\ tab' = [tab EXCEPT ![t] = Closed]
    /\ call' = [call EXCEPT ![t] = [slot \in Slots |-> Idle]]
    /\ slip' = slip \cup {h.route : h \in {x \in handlers : x.tab = t /\ x.heard}}
    /\ handlers' = {IF x.tab = t THEN [x EXCEPT !.heard = FALSE] ELSE x : x \in handlers}
    /\ told' = [told EXCEPT ![t] = NoAnswer]
    /\ UNCHANGED <<sessions, jar, store, used, proof>>

\* The operator signs in or out, or calls a route of the console.
Acts(t) ==
    /\ tab[t].stage = "ready" /\ call[t].act = Idle /\ budget.calls > 0
    /\ \E r \in budget.routes : /\ IF tab[t].user THEN r \notin SignIns \cup {"me", "refresh"} ELSE r \in SignIns
                          /\ \E arg \in Args(r) : Starts(t, "act", r, arg, budget.calls)
    /\ budget' = [budget EXCEPT !.calls = @ - 1]
    /\ told' = [told EXCEPT ![t] = NoAnswer]
    /\ UNCHANGED <<sessions, jar, tab, store, used, proof, slip>>

\* The interval of useConsoleData: the tab loads the console's data again, whether or not an earlier reload is pending.
\* The parts of a reload are asked for at different moments and shown when all are there, each as it was read: the
\* part of the plan stands for any of them, the wait for the others is a slow reply.
Reloads(t) ==
    /\ tab[t].user
    /\ \E slot \in ReloadSlots :
          /\ call[t][slot] = Idle /\ (slot = "late" => call[t]["load"] # Idle)
          /\ \E r \in budget.loads : Starts(t, slot, r, NoArg, 0)
    /\ UNCHANGED <<sessions, jar, tab, store, used, proof, slip, told, budget>>

AccessExpires ==
    /\ Fault /\ jar.access # 0
    /\ jar' = [jar EXCEPT !.access = 0]
    /\ UNCHANGED <<sessions, tab, call, handlers, store, used, proof, slip, told>>

-----------------------------------------------------------------------------
\* The handlers.
At(h, await) == h.todo # <<>> /\ Head(h.todo) = await
Becomes(h, x) == handlers' = (handlers \ {h}) \cup {x}
Proceeds(h)      == [h EXCEPT !.todo = Tail(@)]
Refused(h, code) == [h EXCEPT !.todo = <<>>, !.code = code]
Alive(sid) == sid # 0 /\ sessions[sid].alive
Serving == UNCHANGED <<jar, call, used, slip, told, budget>>
Reading == Serving /\ UNCHANGED <<sessions, tab, store, proof>>

\* Mutant: the last attempt the policy allows is refused.
AllowedBelow(p, count) == count < Limits[p]
Allowed(p, count) == count <= Limits[p]
Enforces(h) ==
    LET p == Policy(h.route)
        bucket == [count |-> used[p].count + 1, ids |-> used[p].ids \cup {h.id}] IN
    /\ At(h, "limit")
    /\ used' = [used EXCEPT ![p] = bucket]
    /\ Becomes(h, IF Allowed(p, bucket.count) THEN Proceeds(h) ELSE Refused(h, 429))
    /\ proof' = [proof EXCEPT !.spared = @ /\ (Allowed(p, bucket.count) \/ Cardinality(bucket.ids) > 1)]
    /\ UNCHANGED <<sessions, jar, tab, call, store, slip, told, budget>>
WindowEnds(p) ==
    /\ Fault /\ used[p].count > 0
    /\ used' = [used EXCEPT ![p] = NoneUsed[p]]
    /\ UNCHANGED <<sessions, jar, tab, call, handlers, store, proof, slip, told>>

Authenticates(h) ==
    /\ At(h, "auth")
    /\ Becomes(h, IF Alive(h.jar.access) THEN Proceeds(h) ELSE Refused(h, 401))
    /\ Reading
ChecksCsrf(h) ==
    /\ At(h, "csrf")
    /\ Becomes(h, IF Alive(h.jar.access) /\ h.csrf = [sid |-> h.jar.access, k |-> sessions[h.jar.access].k]
                  THEN Proceeds(h) ELSE Refused(h, 401))
    /\ Reading
\* The password is asked for; a step of the wizard is accepted without one, but not with a wrong one.
Reauthenticates(h) ==
    /\ At(h, "reauth") \/ At(h, "reauthIfGiven")
    /\ \E given, right \in BOOLEAN :
          Becomes(h, IF IF given THEN right ELSE At(h, "reauthIfGiven") THEN Proceeds(h) ELSE Refused(h, 401))
    /\ Reading
ChecksRole(h) ==
    /\ At(h, "admin")
    /\ Becomes(h, IF Admin THEN Proceeds(h) ELSE Refused(h, 401))
    /\ Reading
Reads(h) == At(h, "read") /\ Becomes(h, [Proceeds(h) EXCEPT !.view = "new"]) /\ Reading

\* Every row written makes older what the tabs show and what their reloads have read.
Older(v) == IF v = "new" THEN "old" ELSE v
Changes(h, x) ==
    /\ tab' = [t \in Tabs |-> [tab[t] EXCEPT !.shown = Older(@)]]
    /\ handlers' = {[y EXCEPT !.view = IF y.slot \in ReloadSlots THEN Older(@) ELSE @] : y \in (handlers \ {h}) \cup {x}}
    /\ Serving /\ UNCHANGED sessions
Writes(h) == At(h, "write") /\ Changes(h, Proceeds(h)) /\ UNCHANGED <<store, proof>>

\* Mutant: the row is updated whatever its status.
DecidesAgain(h) ==
    /\ At(h, "decide")
    /\ store' = [store EXCEPT !.approval = h.arg.value, !.by = h.id]
    /\ Changes(h, Proceeds(h)) /\ UNCHANGED proof
Decides(h) ==
    /\ At(h, "decide")
    /\ IF store.approval = "PENDING"
       THEN /\ store' = [store EXCEPT !.approval = h.arg.value, !.by = h.id]
            /\ Changes(h, Proceeds(h)) /\ UNCHANGED proof
       ELSE Becomes(h, Refused(h, 404)) /\ Reading

ReadsSteps(h) == At(h, "steps") /\ Becomes(h, [Proceeds(h) EXCEPT !.seen = store.marks, !.view = "new"]) /\ Reading
\* Mutant: a step that failed is taken for one that is not required.
WizardStatusSkipping(marks) == IF \A k \in Steps : marks[k] # "PENDING" THEN "PASSED" ELSE "IN_PROGRESS"
WizardStatus(marks) ==
    IF \A k \in Steps : marks[k] = "PASSED" THEN "PASSED"
    ELSE IF \E k \in Steps : marks[k] = "FAILED" THEN "BLOCKED" ELSE "IN_PROGRESS"
\* All steps are written back as they were read: marks made since are lost.
Overwritten(h) == {k \in Steps : store.marks[k] # h.seen[k]}
WritesStep(h) ==
    LET marks == [h.seen EXCEPT ![h.arg.step] = h.arg.value] IN
    /\ At(h, "step")
    /\ store' = [store EXCEPT !.marks = marks, !.status = WizardStatus(marks)]
    /\ proof' = [proof EXCEPT !.marks[h.arg.step] = h.arg.value, !.lost = (@ \cup Overwritten(h)) \ {h.arg.step}]
    /\ Changes(h, Proceeds(h))

AllRequiredPassed(checks) == Steps \subseteq checks
\* Switches to LIVE that have seen the checks and not yet written the mode.
Switching == {x \in handlers : At(x, "mode") /\ x.arg.value = "LIVE"}
ChecksReadiness(h) ==
    /\ At(h, "ready")
    /\ Becomes(h, IF AllRequiredPassed(store.checks) THEN Proceeds(h) ELSE Refused(h, 403))
    /\ proof' = [proof EXCEPT !.raced = @ /\ Switching # {}]
    /\ Serving /\ UNCHANGED <<sessions, tab, store>>
SetsMode(h) ==
    /\ At(h, "mode")
    /\ store' = [store EXCEPT !.mode = h.arg.value]
    /\ proof' = [proof EXCEPT !.live = h.arg.value = "LIVE" /\ (store.checks = Steps \/ proof.raced)]
    /\ Changes(h, Proceeds(h))
MarksCheck(h) ==
    /\ At(h, "check")
    /\ store' = [store EXCEPT !.checks = IF h.arg.value = "PASSED" THEN @ \cup {h.arg.step} ELSE @ \ {h.arg.step}]
    /\ proof' = [proof EXCEPT !.raced = @ \/ (h.arg.value # "PASSED" /\ Switching # {})]
    /\ Changes(h, Proceeds(h))

\* The hash chain, one transaction: the head of the scope is locked if there is one, the event is inserted behind
\* it and becomes the head.  The lock is held until the commit, and the insert of a first head waits for it too.
Linking == {x \in handlers : At(x, "link")}
\* Mutant: the head is read without a lock.
HeadIsFree == TRUE
HeadIsUnlocked == \A x \in Linking : x.prev = 0
LocksHead(h) ==
    /\ At(h, "lock")
    /\ HeadIsUnlocked
    /\ Becomes(h, [Proceeds(h) EXCEPT !.prev = Len(store.audit)])
    /\ proof' = [proof EXCEPT !.forked = @ \/ (store.audit = <<>> /\ Linking # {})]
    /\ Serving /\ UNCHANGED <<sessions, tab, store>>
LinksEvent(h) ==
    /\ At(h, "link")
    /\ h.prev # 0 \/ HeadIsUnlocked
    /\ store' = [store EXCEPT !.audit = Append(@, h.prev)]
    /\ Changes(h, Proceeds(h)) /\ UNCHANGED proof

\* The other writer of the chained events: the newest row is read without a lock, and the event inserted behind it
\* later.  Each plain event keeps the number of plain events there were at its read: it names the last of those, or
\* an event of the scope written since.
Appending == {x \in handlers : At(x, "event")}
Attempt(h) == <<h.id, h.n>>
ReadsLast(h) == At(h, "last") /\ Becomes(h, [Proceeds(h) EXCEPT !.prev = Len(store.events)]) /\ Reading
AppendsEvent(h) ==
    /\ At(h, "event")
    /\ store' = [store EXCEPT !.events = Append(@, h.prev)]
    /\ proof' = [proof EXCEPT !.late = @ \cup {Attempt(x) : x \in Appending \ {h}},
                              !.crossed = IF Attempt(h) \in proof.late THEN @ \cup {Len(store.events) + 1} ELSE @]
    /\ Changes(h, Proceeds(h))

\* Sessions: the reply of a route that creates or rotates one carries the new tokens.
CreatesSession(h) ==
    /\ At(h, "create")
    /\ sessions' = Append(sessions, [alive |-> TRUE, k |-> 0])
    /\ Becomes(h, [Proceeds(h) EXCEPT !.cookies = [sid |-> Len(sessions) + 1, k |-> 0]])
    /\ Serving /\ UNCHANGED <<tab, store, proof>>
FindsSession(h) ==
    LET sid == h.jar.sid IN
    /\ At(h, "find")
    /\ Becomes(h, IF Alive(sid) /\ sessions[sid].k = h.jar.k THEN [Proceeds(h) EXCEPT !.found = sid] ELSE Refused(h, 401))
    /\ Reading
\* Mutant: the answer carries the tokens the browser already had.
PairBefore(h) == [sid |-> h.found, k |-> sessions[h.found].k]
Pair(h) == [sid |-> h.found, k |-> sessions[h.found].k + 1]
Rotates(h) ==
    /\ At(h, "rotate")
    /\ IF Alive(h.found)
       THEN /\ sessions' = [sessions EXCEPT ![h.found].k = @ + 1]
            /\ Becomes(h, [Proceeds(h) EXCEPT !.cookies = Pair(h)])
       ELSE Becomes(h, Refused(h, 401)) /\ UNCHANGED sessions
    /\ slip' = IF \E x \in handlers \ {h} : At(x, "rotate") /\ x.found = h.found THEN slip \cup {"overlap"} ELSE slip
    /\ UNCHANGED <<jar, call, told, budget, tab, store, used, proof>>
Revokes(h) ==
    /\ At(h, "revoke")
    /\ sessions' = IF h.jar.access = 0 THEN sessions ELSE [sessions EXCEPT ![h.jar.access].alive = FALSE]
    /\ Becomes(h, [Proceeds(h) EXCEPT !.cookies = [sid |-> 0, k |-> 0]])
    /\ Serving /\ UNCHANGED <<tab, store, proof>>

\* A statement fails, or the connection breaks when the last one has taken effect: either is answered 500.  So is a
\* refusal of the limit on all routes, whose error is no HttpError.
QueryFails(h) ==
    /\ Fault /\ ~At(h, "limit") /\ h.code = 200
    /\ Becomes(h, [Refused(h, 500) EXCEPT !.cookies = Keep])
    /\ slip' = IF h.todo = <<>> THEN slip \cup {h.route} ELSE slip
    /\ UNCHANGED <<sessions, jar, tab, call, store, used, proof, told>>

-----------------------------------------------------------------------------
Init ==
    /\ sessions = <<[alive |-> TRUE, k |-> 0]>>
    /\ \E access \in {0, 1} : jar = [access |-> access, sid |-> 1, k |-> 0]
    /\ budget \in Plans
    /\ tab = [t \in Tabs |-> IF t \in budget.tabs /\ budget.signed
                             THEN [stage |-> "ready", user |-> TRUE, sid |-> 1, k |-> 0, shown |-> "none"] ELSE Closed]
    /\ call = [t \in Tabs |-> [slot \in Slots |-> Idle]]
    /\ handlers = {}
    /\ store = [approval |-> "PENDING", by |-> 0, marks |-> Pending, status |-> "NOT_STARTED", checks |-> {}, mode |-> "PAPER",
              audit |-> <<>>, events |-> <<>>]
    /\ used = NoneUsed
    /\ proof = [marks |-> Pending, lost |-> {}, live |-> FALSE, raced |-> FALSE, forked |-> FALSE, late |-> {},
              crossed |-> {}, spared |-> TRUE]
    /\ slip = {}
    /\ told = [t \in Tabs |-> NoAnswer]

Serves(h) ==
    \/ Enforces(h) \/ LocksHead(h) \/ LinksEvent(h) \/ ReadsLast(h) \/ AppendsEvent(h)
    \/ Authenticates(h) \/ ChecksCsrf(h) \/ Reauthenticates(h) \/ ChecksRole(h) \/ Reads(h) \/ Writes(h)
    \/ Decides(h) \/ ReadsSteps(h) \/ WritesStep(h) \/ ChecksReadiness(h) \/ SetsMode(h) \/ MarksCheck(h)
    \/ CreatesSession(h) \/ FindsSession(h) \/ Rotates(h) \/ Revokes(h)

Next ==
    \/ \E t \in Tabs : Opens(t) \/ Closes(t) \/ Acts(t) \/ Reloads(t)
    \/ \E h \in handlers : Serves(h) \/ Receives(h) \/ Forgets(h) \/ TimesOut(h) \/ QueryFails(h)
    \/ AccessExpires
    \/ \E p \in DOMAIN Limits : WindowEnds(p)

\* The server goes on with every request, its replies arrive, a page loads and its interval ticks.
Fairness ==
    \A t \in Tabs :
        /\ WF_vars(Opens(t)) /\ WF_vars(Reloads(t))
        /\ \A slot \in Slots :
              WF_vars(\E h \in handlers : h.tab = t /\ h.slot = slot /\ (Serves(h) \/ Receives(h) \/ Forgets(h)))

Spec == Init /\ [][Next]_vars /\ Fairness

-----------------------------------------------------------------------------
\* The browser's refresh token is the one of the live session it was made for, or the reply that brings the
\* newer one is on its way, unless such a reply, or the database's answer to the rotation, was lost or two
\* refreshes overlapped: rotation (authService 85-92) alone never locks a browser out.
LockedOutIsExplained ==
    (Alive(jar.sid) /\ sessions[jar.sid].k # jar.k) =>
        \/ \E h \in handlers : h.heard /\ h.cookies = [sid |-> jar.sid, k |-> sessions[jar.sid].k]
        \/ slip \cap {"refresh", "overlap"} # {}

\* A tab that was told its decision was made finds it in the row, whatever other tabs and repeated calls do; a
\* tab whose own decision is in the row was told so, unless the reply, or the database's answer to the update, was
\* lost and the repetition was answered "already decided" (institutional 143-155).
ToldIsTrue ==
    \A t \in Tabs : told[t].value # "none" =>
        IF told[t].ok THEN store.approval = told[t].value
        ELSE (store.approval = told[t].value /\ store.by = told[t].id) => "decideApproval" \in slip

\* The wizard is PASSED only if the last mark of every required step was PASSED, but for a step whose last mark was
\* overwritten by an update that had read the steps before it was made (institutionalRepository 218-230): no other
\* mark is lost, and a fresh one counts again.  LIVE is switched on only with every check passed, or if one failed
\* between the reading of the checks by a switch to LIVE and its write (routes/risk 188-195).
CertifiedIsEarned ==
    /\ store.status = "PASSED" => \A k \in Steps : proof.marks[k] = "PASSED" \/ k \in proof.lost
    /\ store.mode = "LIVE" => proof.live

\* Every event of the scope names the one before it as its predecessor, unless the first events of the scope
\* overlapped, when there was no head to lock (immutableAuditRepository 19-35); a plain event names none that an
\* earlier one named, but if another's was inserted between its read and its insert (riskEventRepository 20-26).
AuditIsLinear ==
    /\ ~proof.forked => \A n \in DOMAIN store.audit : store.audit[n] = n - 1
    /\ \A n \in DOMAIN store.events : store.events[n] = n - 1 \/ n \in proof.crossed

\* The attempts the client makes of one call never use up the limit of its route: the limiter refuses an
\* attempt only when the operator made more than one call in the window (sensitiveRouteLimiter 22-38, api 424).
RetriesFitTheLimit == proof.spared

\* A tab that stays signed in with a valid access token shows the newest data again and again, whatever reloads
\* were lost, whatever was written while one was under way, and although a reload may overwrite what a later one
\* has shown (useConsoleData 40-142).
Working(t) == tab[t].user /\ Alive(jar.access)
ConsoleCatchesUp == \A t \in Tabs : []<>((budget.loads # {} /\ Working(t)) => tab[t].shown = "new")
=============================================================================
