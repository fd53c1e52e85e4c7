-------------------------- MODULE PositionLifecycle --------------------------
(***************************************************************************)
(* The life of the rows of active_positions of one trading account, and    *)
(* everything in Agent 3 that ends it: the force-close path shared by the  *)
(* timeout handler, the operator's routes and the protection supervisor,   *)
(* the kill switch, the emergency-halt loop, and Agent 6, which decides    *)
(* that a position is too old.  The exchange is reduced to what it holds   *)
(* of each position: all of it, a part that executed orders left, nothing. *)
(*                                                                         *)
(* One step is what happens between two awaits of the code.  Every worker  *)
(* is an asynchronous activity of an API process; several of them run      *)
(* interleaved in one process, or in several processes on one database.    *)
(***************************************************************************)
EXTENDS Integers, FiniteSets

CONSTANTS
    NumPositions,     \* positions 1..NumPositions, numbered by opened_at
    TimeoutWorkers,   \* consumers of agent.position.timeout (handleTimeoutEnvelope)
    Operators,        \* routes and supervisor that call Agent 3 directly
    HaltWorkers,      \* consumers of agent.risk.halt (handleRiskHaltEnvelope)
    MaxHaltAttempts,  \* maxAttempts of the halt loop (5 in the code)
    MaxDeliveries,    \* deliveries before a durable message is dead-lettered (3)
    Representable,    \* statuses that the CHECK of active_positions.status admits
    Faults,           \* kinds of fault that may happen
    MaxFaults         \* how many faults a behaviour may contain

Positions == 1..NumPositions
Closers   == TimeoutWorkers \union Operators

\* CLOSED stands for CLOSED_BY_TIMEOUT, CLOSED_BY_RISK_HALT and CLOSED_MANUALLY.
\* There is no row yet in NONE and ENTERED: the entry order has not been sent, or
\* it has filled and Agent 3 has still to record it.
OpenStatus  == {"OPENED", "FORCE_CLOSE_REQUESTED", "CLOSE_SUBMITTED", "CLOSE_FAILED_RETRYING"}
\* Mutant: the status list forgets a status that a close may start from.
RequestableNotRequested == {"OPENED", "CLOSE_FAILED_RETRYING"}

Requestable == OpenStatus \ {"CLOSE_SUBMITTED"}
Rowless     == {"NONE", "ENTERED"}
Status      == OpenStatus \union Rowless \union {"CLOSED"}

\* query: a query fails; exchange: an exchange call fails and has no effect;
\* lost: it has its effect, but the answer is lost; credentials: loadCredentials
\* throws; inactive: the account lookup does not return the account of the
\* position; crash: a worker dies where it is, or Agent 6 fails to publish;
\* trigger: the exchange fills a stop loss or a take profit by itself.
FaultKinds == {"query", "exchange", "lost", "credentials", "inactive", "crash", "trigger"}

CloserPc == {"Idle", "List", "Request", "Credentials", "Exchange", "RecordClose",
             "RecordOrder", "MarkFailed", "KillNext", "KillDone"}
HaltPc   == {"Idle", "Cancel", "List", "Request", "Exchange", "Record", "Relist",
             "Unconfirmed", "Confirmed", "Ignored", "DeadLettered"}
GuardPc  == {"Idle", "Record", "Mark", "Publish"}
Jobs     == {"none", "timeout", "direct", "kill"}

ASSUME NumPositionsAssumption == NumPositions \in Nat
ASSUME WorkersAssumption == TimeoutWorkers \intersect Operators = {}
ASSUME BoundsAssumption == MaxHaltAttempts \in Nat \ {0} /\ MaxDeliveries \in Nat \ {0}
ASSUME StatusAssumption == {"OPENED", "CLOSED"} \subseteq Representable
ASSUME FaultsAssumption == Faults \subseteq FaultKinds /\ MaxFaults \in Nat

VARIABLES
    status,      \* active_positions.status of each position
    exposure,    \* positions the exchange holds and no order has reduced yet
    remainder,   \* positions of which an executed order has left a part
    recorded,    \* positions with a FORCE_CLOSE_TIMEOUT row in position_timeout_events
    deliveries,  \* deliveries left of the timeout message of each position
    stranded,    \* history: timeouts whose message was never sent, given up, or
                 \* acknowledged without an attempt
    closer,      \* state of every run of forceClosePositionById / forceCloseAllForAccount
    halt,        \* state of every run of handleRiskHaltEnvelope
    guard,       \* state of Agent 6's runOnce
    budget       \* faults still allowed

vars == <<status, exposure, remainder, recorded, deliveries, stranded, closer, halt, guard, budget>>
rows == <<status, recorded>>
holdings == <<exposure, remainder>>
messages == <<deliveries, stranded>>

Held == exposure \union remainder

IsOpen(p)     == status[p] \in OpenStatus
Oldest(p, S)  == p \in S /\ \A q \in S : p <= q
OpenPositions == {p \in Positions : IsOpen(p)}

Closer == [pc : CloserPc, job : Jobs, pos : Positions \union {0},
           todo : SUBSET Positions, listed : SUBSET Positions,
           tried : SUBSET Positions, failed : BOOLEAN]
Halt   == [pc : HaltPc, attempt : 0..MaxHaltAttempts, left : 0..MaxDeliveries,
           todo : SUBSET Positions, listed : SUBSET Positions, tried : SUBSET Positions]
Guard  == [pc : GuardPc, pos : Positions \union {0}]

IdleCloser == [pc |-> "Idle", job |-> "none", pos |-> 0, todo |-> {}, listed |-> {},
               tried |-> {}, failed |-> FALSE]
IdleHalt   == [pc |-> "Idle", attempt |-> 0, left |-> MaxDeliveries, todo |-> {},
               listed |-> {}, tried |-> {}]
IdleGuard  == [pc |-> "Idle", pos |-> 0]

TypeOK ==
    /\ status \in [Positions -> Status]
    /\ exposure \in SUBSET Positions
    /\ remainder \in SUBSET Positions
    /\ recorded \in SUBSET Positions
    /\ deliveries \in [Positions -> 0..MaxDeliveries]
    /\ stranded \in SUBSET Positions
    /\ closer \in [Closers -> Closer]
    /\ halt \in [HaltWorkers -> Halt]
    /\ guard \in Guard
    /\ budget \in 0..MaxFaults

Init ==
    /\ status = [p \in Positions |-> "NONE"]
    /\ exposure = {} /\ remainder = {}
    /\ recorded = {}
    /\ deliveries = [p \in Positions |-> 0]
    /\ stranded = {}
    /\ closer = [c \in Closers |-> IdleCloser]
    /\ halt = [h \in HaltWorkers |-> IdleHalt]
    /\ guard = IdleGuard
    /\ budget = MaxFaults

Spend(kind) ==
    /\ kind \in Faults
    /\ budget > 0
    /\ budget' = budget - 1

(***************************************************************************)
(* PositionRepository: each operator is one UPDATE.  An UPDATE whose new   *)
(* status the CHECK constraint refuses raises an error and changes nothing.*)
(***************************************************************************)
SetStatus(p, new) == status' = [status EXCEPT ![p] = new]

\* Mutant: the UPDATE admits every open status.
RequestCloseWinsAgain(p) == IsOpen(p) /\ "CLOSE_SUBMITTED" \in Representable

RequestCloseWins(p)   == status[p] \in Requestable /\ "CLOSE_SUBMITTED" \in Representable
RequestCloseLoses(p)  == status[p] \notin Requestable
RequestCloseRaises(p) == status[p] \in Requestable /\ "CLOSE_SUBMITTED" \notin Representable

RequestClose(p) == IF RequestCloseWins(p) THEN SetStatus(p, "CLOSE_SUBMITTED")
                                          ELSE UNCHANGED status
CloseRow(p)     == IF IsOpen(p) THEN SetStatus(p, "CLOSED") ELSE UNCHANGED status
\* Mutant: a failed close is recorded as a close.
MarkClosed(p)   == SetStatus(p, "CLOSED")
MarkCloseFailed(p) == IF "CLOSE_FAILED_RETRYING" \in Representable
                        THEN SetStatus(p, "CLOSE_FAILED_RETRYING") ELSE UNCHANGED status

(***************************************************************************)
(* The exchange.  A reduce-only market order is refused when there is      *)
(* nothing to reduce.  An accepted one is for the volume of the row, which *)
(* is what the entry reported as filled and may be less than what is held, *)
(* and may be filled in part: nobody asks.  A call whose answer is lost    *)
(* may have been executed.                                                 *)
(***************************************************************************)
Executes(p) ==
    /\ p \in Held
    /\ exposure' = exposure \ {p}
    /\ remainder' \in {remainder \ {p}, remainder \union {p}}

OrderAccepted(p) == Executes(p)
OrderRefused(p)  == p \notin Held /\ UNCHANGED holdings
CallFails(p)     == \/ Spend("exchange") /\ UNCHANGED holdings
                    \/ Spend("lost") /\ (Executes(p) \/ OrderRefused(p))

EntryFills(p) ==
    /\ status[p] = "NONE"
    /\ SetStatus(p, "ENTERED")
    /\ exposure' = exposure \union {p} /\ UNCHANGED remainder
    /\ UNCHANGED <<recorded, messages, closer, halt, guard, budget>>

\* Rows appear in the order of their numbers; an entry that is never recorded
\* is passed over.
OpenPosition(p) ==
    /\ status[p] = "ENTERED"
    /\ \A q \in Positions : q > p => status[q] \in Rowless
    /\ SetStatus(p, "OPENED")
    /\ UNCHANGED <<recorded, holdings, messages, closer, halt, guard, budget>>

StopOrTargetFills(p) ==
    /\ Executes(p)
    /\ Spend("trigger")
    /\ UNCHANGED <<rows, messages, closer, halt, guard>>

(***************************************************************************)
(* Agent 6.  A candidate is read, its timeout event is inserted (once per  *)
(* position), the row is marked, and only then the message for Agent 3 is  *)
(* published.                                                              *)
(***************************************************************************)
TimeoutCandidate(p) ==
    /\ guard.pc = "Idle"
    /\ status[p] \in {"OPENED", "CLOSE_FAILED_RETRYING"}
    /\ p \notin recorded
    /\ guard' = [pc |-> "Record", pos |-> p]
    /\ UNCHANGED <<rows, holdings, messages, closer, halt, budget>>

RecordTimeoutEvent ==
    /\ guard.pc = "Record"
    /\ recorded' = recorded \union {guard.pos}
    /\ guard' = [guard EXCEPT !.pc = "Mark"]
    /\ UNCHANGED <<status, holdings, messages, closer, halt, budget>>

MarkForceClose ==
    /\ guard.pc = "Mark"
    /\ LET marks  == status[guard.pos] \in {"OPENED", "CLOSE_FAILED_RETRYING"}
           raises == marks /\ "FORCE_CLOSE_REQUESTED" \notin Representable
       IN  /\ IF marks /\ ~raises THEN SetStatus(guard.pos, "FORCE_CLOSE_REQUESTED")
                                  ELSE UNCHANGED status
           /\ guard' = IF raises THEN IdleGuard ELSE [guard EXCEPT !.pc = "Publish"]
           /\ stranded' = IF raises THEN stranded \union {guard.pos} ELSE stranded
    /\ UNCHANGED <<holdings, recorded, deliveries, closer, halt, budget>>

PublishTimeout ==
    /\ guard.pc = "Publish"
    /\ deliveries' = [deliveries EXCEPT ![guard.pos] = MaxDeliveries]
    /\ guard' = IdleGuard
    /\ UNCHANGED <<rows, holdings, stranded, closer, halt, budget>>

\* The process dies, or a query or the publication throws out of runOnce.
GuardStops ==
    /\ guard.pc # "Idle"
    /\ guard' = IdleGuard
    /\ stranded' = IF guard.pc = "Record" THEN stranded ELSE stranded \union {guard.pos}
    /\ Spend("crash")
    /\ UNCHANGED <<rows, holdings, deliveries, closer, halt>>

(***************************************************************************)
(* forceClosePositionById, run for a timeout message, for one call of a    *)
(* route or of the supervisor, or for each position of a kill switch.      *)
(***************************************************************************)
Goto(c, pc) == closer' = [closer EXCEPT ![c].pc = pc]

\* The call is over: a message is acknowledged, or redelivered after a throw
\* until its deliveries are used up; the kill switch counts and goes on.
OnTimeout(c) == closer[c].job = "timeout"

Acknowledges(c) ==
    /\ IF closer[c].job = "kill" THEN Goto(c, "KillNext")
                                 ELSE closer' = [closer EXCEPT ![c] = IdleCloser]
    /\ deliveries' = IF OnTimeout(c) THEN [deliveries EXCEPT ![closer[c].pos] = 0] ELSE deliveries

Returns(c) == Acknowledges(c) /\ UNCHANGED stranded

Throws(c) ==
    /\ closer' = [closer EXCEPT ![c] =
           IF @.job = "kill" THEN [@ EXCEPT !.pc = "KillNext", !.failed = TRUE]
                             ELSE IdleCloser]
    /\ LET p == closer[c].pos IN
         /\ deliveries' = IF OnTimeout(c) /\ deliveries[p] > 0
                            THEN [deliveries EXCEPT ![p] = @ - 1] ELSE deliveries
         /\ stranded' = IF OnTimeout(c) /\ deliveries[p] = 1
                            THEN stranded \union {p} ELSE stranded

StartTimeoutClose(c, p) ==
    /\ c \in TimeoutWorkers /\ closer[c].pc = "Idle"
    /\ deliveries[p] > 0
    /\ closer' = [closer EXCEPT ![c].pc = "List", ![c].job = "timeout", ![c].pos = p]
    /\ UNCHANGED <<rows, holdings, messages, halt, guard, budget>>

StartDirectClose(c, p) ==
    /\ c \in Operators /\ closer[c].pc = "Idle"
    /\ closer' = [closer EXCEPT ![c].pc = "List", ![c].job = "direct", ![c].pos = p]
    /\ UNCHANGED <<rows, holdings, messages, halt, guard, budget>>

\* Not open: null.  A close already submitted: the position itself, unchanged.
ListOpenForUser(c) ==
    /\ closer[c].pc = "List"
    /\ IF status[closer[c].pos] \in Requestable
         THEN Goto(c, "Request") /\ UNCHANGED messages
         ELSE Returns(c)
    /\ UNCHANGED <<rows, holdings, halt, guard, budget>>

\* requestClose may fail before or after its UPDATE.
QueryFails(c) ==
    /\ closer[c].pc \in {"List", "Request"}
    /\ Spend("query")
    /\ \/ UNCHANGED status
       \/ closer[c].pc = "Request" /\ RequestClose(closer[c].pos)
    /\ Throws(c)
    /\ UNCHANGED <<recorded, holdings, halt, guard>>

AccountInactive(c) ==
    /\ closer[c].pc = "Request"
    /\ Spend("inactive")
    /\ Acknowledges(c)
    /\ stranded' = IF OnTimeout(c) THEN stranded \union {closer[c].pos} ELSE stranded
    /\ UNCHANGED <<rows, holdings, halt, guard>>

SubmitClose(c) ==
    /\ closer[c].pc = "Request"
    /\ LET p == closer[c].pos IN
         /\ RequestClose(p)
         /\ \/ RequestCloseWins(p)   /\ Goto(c, "Credentials") /\ UNCHANGED messages
            \/ RequestCloseLoses(p)  /\ Returns(c)
            \/ RequestCloseRaises(p) /\ Throws(c)
    /\ UNCHANGED <<recorded, holdings, halt, guard, budget>>

\* loadCredentials stands outside the try block that marks a failed close.
LoadCredentials(c) ==
    /\ closer[c].pc = "Credentials"
    /\ \/ Goto(c, "Exchange") /\ UNCHANGED <<messages, budget>>
       \/ Spend("credentials") /\ Throws(c)
    /\ UNCHANGED <<rows, holdings, halt, guard>>

ClosePosition(c) ==
    /\ closer[c].pc = "Exchange"
    /\ LET p == closer[c].pos IN
         /\ \/ OrderAccepted(p) /\ UNCHANGED budget
               /\ closer' = [closer EXCEPT ![c].pc = "RecordClose", ![c].tried = @ \union {p}]
            \/ OrderRefused(p) /\ UNCHANGED budget
               /\ closer' = [closer EXCEPT ![c].pc = "MarkFailed", ![c].tried = @ \union {p}]
            \/ CallFails(p)
               /\ closer' = [closer EXCEPT ![c].pc = "MarkFailed", ![c].tried = @ \union {p}]
    /\ UNCHANGED <<rows, messages, halt, guard>>

\* close is an UPDATE and, for a row it changed, an INSERT into position_events:
\* it may fail before or after the row is closed.
RecordClose(c) ==
    /\ closer[c].pc = "RecordClose"
    /\ \/ CloseRow(closer[c].pos) /\ Goto(c, "RecordOrder") /\ UNCHANGED budget
       \/ /\ Spend("query") /\ Goto(c, "MarkFailed")
          /\ UNCHANGED status \/ CloseRow(closer[c].pos)
    /\ UNCHANGED <<recorded, holdings, messages, halt, guard>>

\* orders.record is inside the try block, after the row has been closed.
RecordOrder(c) ==
    /\ closer[c].pc = "RecordOrder"
    /\ \/ Returns(c) /\ UNCHANGED budget
       \/ Spend("query") /\ Goto(c, "MarkFailed") /\ UNCHANGED messages
    /\ UNCHANGED <<rows, holdings, halt, guard>>

CloseFailed(c) ==
    /\ closer[c].pc = "MarkFailed"
    /\ \/ MarkCloseFailed(closer[c].pos) /\ UNCHANGED budget
       \/ Spend("query") /\ UNCHANGED status
    /\ Throws(c)
    /\ UNCHANGED <<recorded, holdings, halt, guard>>

(***************************************************************************)
(* forceCloseAllForAccount.  Positions found already CLOSE_SUBMITTED and   *)
(* calls that return null do not count as failures.                        *)
(***************************************************************************)
KillSwitch(failed) ==
    [pc |-> "KillNext", job |-> "kill", pos |-> 0, todo |-> OpenPositions,
     listed |-> OpenPositions, tried |-> {}, failed |-> failed]

StartKillSwitch(c) ==
    /\ c \in Operators /\ closer[c].pc = "Idle"
    /\ \/ closer' = [closer EXCEPT ![c] = KillSwitch(FALSE)] /\ UNCHANGED budget
       \/ Spend("exchange")   \* cancelAllOrders fails and the switch goes on
          /\ closer' = [closer EXCEPT ![c] = KillSwitch(TRUE)]
    /\ UNCHANGED <<rows, holdings, messages, halt, guard>>

KillNext(c) ==
    /\ closer[c].pc = "KillNext"
    /\ \/ closer[c].todo = {} /\ Goto(c, "KillDone")
       \/ \E p \in Positions :
            /\ Oldest(p, closer[c].todo)
            /\ closer' = [closer EXCEPT ![c].pc = "List", ![c].pos = p, ![c].todo = @ \ {p}]
    /\ UNCHANGED <<rows, holdings, messages, halt, guard, budget>>

KillReport(c) ==
    /\ closer[c].pc = "KillDone"
    /\ closer' = [closer EXCEPT ![c] = IdleCloser]
    /\ UNCHANGED <<rows, holdings, messages, halt, guard, budget>>

\* The row stays as it is; an unacknowledged message is reclaimed later.
CloserCrash(c) ==
    /\ closer[c].pc # "Idle"
    /\ Spend("crash")
    /\ closer' = [closer EXCEPT ![c] = IdleCloser]
    /\ UNCHANGED <<rows, holdings, messages, halt, guard>>

(***************************************************************************)
(* handleRiskHaltEnvelope: up to MaxHaltAttempts passes over all open      *)
(* positions, oldest first; an error anywhere ends the pass.  The result   *)
(* of requestClose is not looked at.                                       *)
(***************************************************************************)
HaltGoto(h, pc) == halt' = [halt EXCEPT ![h].pc = pc]

\* Mutant: the loop tries again without counting its attempts.
AttemptFailsUncounted(h, tried) ==
    halt' = [halt EXCEPT ![h].todo = {}, ![h].tried = @ \union tried, ![h].pc = "Cancel"]

AttemptFails(h, tried) ==
    halt' = [halt EXCEPT ![h].todo = {}, ![h].tried = @ \union tried,
        ![h].pc = IF halt[h].attempt < MaxHaltAttempts THEN "Cancel" ELSE "Unconfirmed",
        ![h].attempt = IF @ < MaxHaltAttempts THEN @ + 1 ELSE @]

NextAttempt(h) == AttemptFails(h, {})

\* The handler threw: the bus delivers the message again or gives it up.
HaltThrows(h) ==
    halt' = [halt EXCEPT ![h] =
        [IdleHalt EXCEPT !.left = halt[h].left - 1,
                         !.pc = IF halt[h].left = 1 THEN "DeadLettered" ELSE "Idle"]]

StartHalt(h) ==
    /\ halt[h].pc = "Idle"
    /\ \/ halt' = [halt EXCEPT ![h].pc = "Cancel", ![h].attempt = 1] /\ UNCHANGED budget
       \/ Spend("inactive") /\ HaltGoto(h, "Ignored")
       \/ Spend("credentials") /\ HaltThrows(h)   \* loadCredentials
    /\ UNCHANGED <<rows, holdings, messages, closer, guard>>

\* What is written before a pass, the log of the halt or the incident of the pass
\* that failed, stands outside the try block: its failure ends the handler.
HaltCancel(h) ==
    /\ halt[h].pc = "Cancel"
    /\ \/ HaltGoto(h, "List") /\ UNCHANGED budget
       \/ Spend("exchange") /\ NextAttempt(h)
       \/ Spend("query") /\ HaltThrows(h)
    /\ UNCHANGED <<rows, holdings, messages, closer, guard>>

HaltList(h) ==
    /\ halt[h].pc = "List"
    /\ \/ OpenPositions = {} /\ HaltGoto(h, "Confirmed") /\ UNCHANGED budget
       \/ /\ OpenPositions # {} /\ UNCHANGED budget
          /\ halt' = [halt EXCEPT ![h].pc = "Request", ![h].todo = OpenPositions,
                                  ![h].listed = @ \union OpenPositions]
       \/ Spend("query") /\ NextAttempt(h)
    /\ UNCHANGED <<rows, holdings, messages, closer, guard>>

HaltRequest(h) ==
    /\ halt[h].pc = "Request"
    /\ \E p \in Positions :
         /\ Oldest(p, halt[h].todo)
         /\ \/ /\ RequestClose(p) /\ UNCHANGED budget
               /\ IF RequestCloseRaises(p) THEN NextAttempt(h) ELSE HaltGoto(h, "Exchange")
            \/ /\ Spend("query") /\ NextAttempt(h)
               /\ UNCHANGED status \/ RequestClose(p)
    /\ UNCHANGED <<recorded, holdings, messages, closer, guard>>

\* Mutant: an error of the call does not end the pass.
HaltClosePositionBlindly(h) ==
    /\ halt[h].pc = "Exchange"
    /\ \E p \in Positions :
         /\ Oldest(p, halt[h].todo)
         /\ \/ (OrderAccepted(p) \/ OrderRefused(p)) /\ UNCHANGED budget
            \/ CallFails(p)
         /\ halt' = [halt EXCEPT ![h].pc = "Record", ![h].tried = @ \union {p}]
    /\ UNCHANGED <<rows, messages, closer, guard>>

HaltClosePosition(h) ==
    /\ halt[h].pc = "Exchange"
    /\ \E p \in Positions :
         /\ Oldest(p, halt[h].todo)
         /\ \/ OrderAccepted(p) /\ UNCHANGED budget
               /\ halt' = [halt EXCEPT ![h].pc = "Record", ![h].tried = @ \union {p}]
            \/ OrderRefused(p) /\ UNCHANGED budget /\ AttemptFails(h, {p})
            \/ CallFails(p) /\ AttemptFails(h, {p})
    /\ UNCHANGED <<rows, messages, closer, guard>>

HaltRecord(h) ==
    /\ halt[h].pc = "Record"
    /\ \E p \in Positions :
         /\ Oldest(p, halt[h].todo)
         /\ \/ /\ CloseRow(p) /\ UNCHANGED budget
               /\ halt' = [halt EXCEPT ![h].todo = @ \ {p},
                     ![h].pc = IF halt[h].todo = {p} THEN "Relist" ELSE "Request"]
            \/ /\ Spend("query") /\ NextAttempt(h)
               /\ UNCHANGED status \/ CloseRow(p)
    /\ UNCHANGED <<recorded, holdings, messages, closer, guard>>

HaltRelist(h) ==
    /\ halt[h].pc = "Relist"
    /\ \/ /\ IF OpenPositions = {} THEN HaltGoto(h, "Confirmed") ELSE NextAttempt(h)
          /\ UNCHANGED budget
       \/ Spend("query") /\ NextAttempt(h)
    /\ UNCHANGED <<rows, holdings, messages, closer, guard>>

HaltGivesUp(h) ==
    /\ halt[h].pc = "Unconfirmed"
    /\ HaltThrows(h)
    /\ UNCHANGED <<rows, holdings, messages, closer, guard, budget>>

HaltCrash(h) ==
    /\ halt[h].pc \in {"Cancel", "List", "Request", "Exchange", "Record", "Relist"}
    /\ Spend("crash")
    /\ halt' = [halt EXCEPT ![h] = [IdleHalt EXCEPT !.left = halt[h].left]]
    /\ UNCHANGED <<rows, holdings, messages, closer, guard>>

-----------------------------------------------------------------------------
CloserStep(c) ==
    \/ ListOpenForUser(c) \/ SubmitClose(c) \/ LoadCredentials(c) \/ ClosePosition(c)
    \/ RecordClose(c) \/ RecordOrder(c) \/ CloseFailed(c) \/ KillNext(c) \/ KillReport(c)

HaltStep(h) ==
    \/ StartHalt(h) \/ HaltCancel(h) \/ HaltList(h) \/ HaltRequest(h)
    \/ HaltClosePosition(h) \/ HaltRecord(h) \/ HaltRelist(h) \/ HaltGivesUp(h)

GuardStep == RecordTimeoutEvent \/ MarkForceClose \/ PublishTimeout

Next ==
    \/ \E p \in Positions : EntryFills(p) \/ OpenPosition(p) \/ StopOrTargetFills(p) \/ TimeoutCandidate(p)
    \/ GuardStep \/ GuardStops
    \/ \E c \in Closers :
         \/ CloserStep(c) \/ QueryFails(c) \/ AccountInactive(c) \/ CloserCrash(c) \/ StartKillSwitch(c)
         \/ \E p \in Positions : StartTimeoutClose(c, p) \/ StartDirectClose(c, p)
    \/ \E h \in HaltWorkers : HaltStep(h) \/ HaltCrash(h)

Spec == Init /\ [][Next]_vars

\* The event loop runs every started activity on, the bus delivers what is
\* pending; nothing makes an operator act, a position open or time pass.
Fairness ==
    /\ WF_vars(GuardStep)
    /\ \A c \in Closers : WF_vars(CloserStep(c))
    /\ \A c \in TimeoutWorkers : WF_vars(\E p \in Positions : StartTimeoutClose(c, p))
    /\ \A h \in HaltWorkers : WF_vars(HaltStep(h))

FairSpec == Spec /\ Fairness

(***************************************************************************)
(* Properties                                                              *)
(***************************************************************************)
Submitting(c) == closer[c].pc \in {"Credentials", "Exchange", "RecordClose", "RecordOrder", "MarkFailed"}

\* The compare-and-set of requestClose works as a lock: between winning it and
\* the end of its call, no other force-close owns the same position.  Rests on
\* every status write of every other actor keeping the row out of Requestable.
SingleSubmitter ==
    \A c, d \in Closers :
        c # d /\ Submitting(c) /\ Submitting(d) => closer[c].pos # closer[d].pos

\* A row says CLOSED only after an order has reduced the position, whichever of
\* the closers, halts and exchange triggers came first.  More the code cannot
\* say: nobody asks how much of an accepted order was filled, so the row may be
\* closed over what that order left behind, but never over a whole position.
ClosedWasReduced == \A p \in Positions : status[p] = "CLOSED" => p \notin exposure

\* When the halt loop reports zero exposure, every position any of its passes
\* has listed has been reduced, also those other actors were closing.
ConfirmedHaltHasReduced ==
    \A h \in HaltWorkers : halt[h].pc = "Confirmed" => halt[h].listed \intersect exposure = {}

\* Every worker, together with the exchange and whatever fails, keeps the contract
\* of CloseContract: no step ends two positions at once, closes a row before the
\* position was reduced, or brings exposure back.
HoldingOf(p) == IF p \in exposure THEN "held" ELSE IF p \in remainder THEN "part"
                ELSE IF status[p] = "NONE" THEN "never" ELSE "flat"
RowOf(p)     == IF IsOpen(p) THEN "open" ELSE IF status[p] = "CLOSED" THEN "closed" ELSE "absent"

Contract == INSTANCE CloseContract WITH
    holding <- [p \in Positions |-> HoldingOf(p)],
    row     <- [p \in Positions |-> RowOf(p)]

KeepsCloseContract == Contract!Spec

\* A position recorded as timed out, which no close has reached yet, has its
\* message for Agent 3 on its way, although processes die between the record,
\* the mark and the publication and calls fail: nothing else would close it, for
\* Agent 6 records its event only once.  The ways to strand it are the four the
\* code has: the mark is refused or the process dies before publishing, the last
\* delivery throws, or the account is not found and the message acknowledged.
TimeoutIsPending ==
    \A p \in recorded : status[p] \in {"OPENED", "FORCE_CLOSE_REQUESTED"} =>
        \/ deliveries[p] > 0
        \/ guard.pc \in {"Mark", "Publish"} /\ guard.pos = p
        \/ p \in stranded

\* A position Agent 6 has recorded as timed out is ordered closed in the end, or
\* somebody else has closed it.
Ordered(p) == \E c \in Closers : closer[c].pos = p /\ p \in closer[c].tried
TimedOutPositionIsOrdered ==
    \A p \in Positions : p \in recorded ~> (Ordered(p) \/ ~IsOpen(p))

\* The handling of an emergency halt ends, whatever the schema refuses and
\* whatever fails: no open position is left, or the account is not there, or
\* every delivery has used up its attempts and the message is a dead letter.
HaltEnds == \A h \in HaltWorkers : <>(halt[h].pc \in {"Confirmed", "Ignored", "DeadLettered"})
=============================================================================
