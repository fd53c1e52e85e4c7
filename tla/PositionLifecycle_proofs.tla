----------------------- MODULE PositionLifecycle_proofs -----------------------
(***************************************************************************)
(* Type correctness and the safety of PositionLifecycle for any numbers of *)
(* positions, workers, attempts, deliveries and faults.                    *)
(*                                                                         *)
(* Part 1 proves the types.  Part 2 reduces every step to what it does to  *)
(* the rows and to the exposure (its effect); part 3 shows that each       *)
(* effect keeps the inductive invariant, and part 4 that each is a step of *)
(* CloseContract.  Part 5 follows the message behind a recorded timeout.   *)
(***************************************************************************)
EXTENDS PositionLifecycle, TLAPS

USE NumPositionsAssumption, WorkersAssumption, BoundsAssumption, FaultsAssumption
MessagesTyped == deliveries \in [Positions -> 0..MaxDeliveries] /\ stranded \in SUBSET Positions

USE DEF holdings, messages, MessagesTyped, Held

-----------------------------------------------------------------------------
(* Part 1: types                                                           *)

\* The places where a run of forceClosePositionById has a position.
Targeted == {"List", "Request", "Credentials", "Exchange", "RecordClose", "RecordOrder", "MarkFailed"}

RowsType ==
    /\ status \in [Positions -> Status]
    /\ exposure \in SUBSET Positions /\ remainder \in SUBSET Positions
    /\ recorded \in SUBSET Positions
    /\ MessagesTyped
    /\ budget \in 0..MaxFaults
CloserType ==
    /\ closer \in [Closers -> Closer]
    /\ \A c \in Closers : closer[c].pc \in Targeted => closer[c].pos \in Positions
\* A halt message that has not been given up has a delivery left.
HaltType ==
    /\ halt \in [HaltWorkers -> Halt]
    /\ \A h \in HaltWorkers : halt[h].pc # "DeadLettered" => halt[h].left > 0
GuardType ==
    /\ guard \in Guard
    /\ guard.pc # "Idle" => guard.pos \in Positions

TypeInv == RowsType /\ CloserType /\ HaltType /\ GuardType

\* One closer moves to the record r and the others stay.
LEMMA CloserMoves ==
    ASSUME CloserType, NEW c \in Closers, NEW r \in Closer, r.pc \in Targeted => r.pos \in Positions,
           closer' = [closer EXCEPT ![c] = r]
    PROVE  CloserType' /\ closer'[c] = r /\ \A d \in Closers \ {c} : closer'[d] = closer[d]
BY DEF CloserType

LEMMA CloserGoes ==
    ASSUME CloserType, NEW c \in Closers, NEW pc \in CloserPc,
           pc \in Targeted => closer[c].pos \in Positions, Goto(c, pc)
    PROVE  /\ CloserType'
           /\ closer'[c].pc = pc /\ closer'[c].pos = closer[c].pos
           /\ \A d \in Closers \ {c} : closer'[d] = closer[d]
<1>1. closer' = [closer EXCEPT ![c] = [closer[c] EXCEPT !.pc = pc]]
  BY DEF Goto
<1>2. /\ [closer[c] EXCEPT !.pc = pc] \in Closer
      /\ [closer[c] EXCEPT !.pc = pc].pc = pc
      /\ [closer[c] EXCEPT !.pc = pc].pos = closer[c].pos
  BY DEF CloserType, Closer
<1> QED
  BY <1>1, <1>2, CloserMoves

LEMMA IdleCloserType == IdleCloser \in Closer /\ IdleCloser.pc = "Idle"
BY DEF IdleCloser, Closer, CloserPc, Jobs

LEMMA IdleHaltType == IdleHalt \in Halt /\ IdleHalt.pc = "Idle" /\ IdleHalt.left = MaxDeliveries
BY DEF IdleHalt, Halt, HaltPc

LEMMA CloserAcknowledges ==
    ASSUME CloserType, RowsType, NEW c \in Closers, closer[c].pos \in Positions, Acknowledges(c),
           stranded' \in SUBSET Positions
    PROVE  /\ CloserType' /\ MessagesTyped'
           /\ closer'[c].pc \notin Targeted
           /\ \A d \in Closers \ {c} : closer'[d] = closer[d]
<1>1. MessagesTyped'
  BY DEF Acknowledges, RowsType, MessagesTyped
<1>2. CASE closer[c].job = "kill"
  BY <1>1, <1>2, CloserGoes DEF Acknowledges, CloserPc, Targeted
<1>3. CASE closer[c].job # "kill"
  <2>1. closer' = [closer EXCEPT ![c] = IdleCloser]
    BY <1>3 DEF Acknowledges
  <2> QED
    BY <1>1, <2>1, IdleCloserType, CloserMoves DEF Targeted
<1> QED
  BY <1>2, <1>3

LEMMA CloserReturns ==
    ASSUME CloserType, RowsType, NEW c \in Closers, closer[c].pos \in Positions, Returns(c)
    PROVE  /\ CloserType' /\ MessagesTyped'
           /\ closer'[c].pc \notin Targeted
           /\ \A d \in Closers \ {c} : closer'[d] = closer[d]
<1>1. Acknowledges(c) /\ stranded' \in SUBSET Positions
  BY DEF Returns, RowsType, MessagesTyped
<1> QED
  BY <1>1, CloserAcknowledges

LEMMA CloserThrows ==
    ASSUME CloserType, RowsType, NEW c \in Closers, closer[c].pos \in Positions, Throws(c)
    PROVE  /\ CloserType' /\ MessagesTyped'
           /\ closer'[c].pc \notin Targeted
           /\ \A d \in Closers \ {c} : closer'[d] = closer[d]
<1>1. MessagesTyped'
  BY DEF Throws, RowsType, MessagesTyped
<1>2. PICK r \in Closer : r.pc \notin Targeted /\ closer' = [closer EXCEPT ![c] = r]
  <2>1. CASE closer[c].job = "kill"
    <3>1. closer' = [closer EXCEPT ![c] = [closer[c] EXCEPT !.pc = "KillNext", !.failed = TRUE]]
      BY <2>1 DEF Throws
    <3>2. [closer[c] EXCEPT !.pc = "KillNext", !.failed = TRUE] \in Closer
      BY DEF CloserType, Closer, CloserPc
    <3>3. [closer[c] EXCEPT !.pc = "KillNext", !.failed = TRUE].pc = "KillNext"
      BY DEF CloserType, Closer
    <3> QED
      BY <3>1, <3>2, <3>3 DEF Targeted
  <2>2. CASE closer[c].job # "kill"
    <3>1. closer' = [closer EXCEPT ![c] = IdleCloser]
      BY <2>2 DEF Throws
    <3> QED
      BY <3>1, IdleCloserType DEF Targeted
  <2> QED
    BY <2>1, <2>2
<1> QED
  BY <1>1, <1>2, CloserMoves

LEMMA HaltMoves ==
    ASSUME HaltType, NEW h \in HaltWorkers, NEW r \in Halt, r.pc # "DeadLettered" => r.left > 0,
           halt' = [halt EXCEPT ![h] = r]
    PROVE  HaltType' /\ halt'[h] = r /\ \A k \in HaltWorkers \ {h} : halt'[k] = halt[k]
BY DEF HaltType

LEMMA HaltGoes ==
    ASSUME HaltType, NEW h \in HaltWorkers, NEW pc \in HaltPc,
           halt[h].pc # "DeadLettered", HaltGoto(h, pc)
    PROVE  /\ HaltType'
           /\ halt'[h].pc = pc /\ halt'[h].todo = halt[h].todo /\ halt'[h].listed = halt[h].listed
           /\ \A k \in HaltWorkers \ {h} : halt'[k] = halt[k]
<1>1. halt' = [halt EXCEPT ![h] = [halt[h] EXCEPT !.pc = pc]]
  BY DEF HaltGoto
<1>2. /\ [halt[h] EXCEPT !.pc = pc] \in Halt
      /\ [halt[h] EXCEPT !.pc = pc].pc = pc
      /\ [halt[h] EXCEPT !.pc = pc].left = halt[h].left
      /\ [halt[h] EXCEPT !.pc = pc].todo = halt[h].todo
      /\ [halt[h] EXCEPT !.pc = pc].listed = halt[h].listed
  BY DEF HaltType, Halt
<1> QED
  BY <1>1, <1>2, HaltMoves DEF HaltType

LEMMA HaltFails ==
    ASSUME HaltType, NEW h \in HaltWorkers, NEW tried \in SUBSET Positions,
           halt[h].pc # "DeadLettered", AttemptFails(h, tried)
    PROVE  /\ HaltType'
           /\ halt'[h].pc \in {"Cancel", "Unconfirmed"}
           /\ halt'[h].todo = {} /\ halt'[h].listed = halt[h].listed
           /\ \A k \in HaltWorkers \ {h} : halt'[k] = halt[k]
<1> DEFINE pc == IF halt[h].attempt < MaxHaltAttempts THEN "Cancel" ELSE "Unconfirmed"
           n  == IF halt[h].attempt < MaxHaltAttempts THEN halt[h].attempt + 1 ELSE halt[h].attempt
           r  == [halt[h] EXCEPT !.todo = {}, !.tried = @ \union tried, !.pc = pc, !.attempt = n]
<1>1. halt' = [halt EXCEPT ![h] = r]
  BY DEF AttemptFails
<1>2. halt[h] \in Halt
  BY DEF HaltType
<1>3. n \in 0..MaxHaltAttempts
  BY <1>2 DEF Halt
<1>4. pc \in {"Cancel", "Unconfirmed"}
  OBVIOUS
<1> HIDE DEF n, pc
<1>5. r \in Halt /\ r.pc = pc /\ r.left = halt[h].left /\ r.todo = {} /\ r.listed = halt[h].listed
  BY <1>2, <1>3, <1>4 DEF Halt, HaltPc
<1> QED
  BY <1>1, <1>4, <1>5, HaltMoves DEF HaltType

LEMMA HaltThrowsType ==
    ASSUME HaltType, NEW h \in HaltWorkers, halt[h].pc # "DeadLettered", HaltThrows(h)
    PROVE  /\ HaltType'
           /\ halt'[h].pc \in {"Idle", "DeadLettered"}
           /\ halt'[h].todo = {} /\ halt'[h].listed = {}
           /\ \A k \in HaltWorkers \ {h} : halt'[k] = halt[k]
<1> DEFINE pc   == IF halt[h].left = 1 THEN "DeadLettered" ELSE "Idle"
           left == halt[h].left - 1
           r    == [IdleHalt EXCEPT !.left = left, !.pc = pc]
<1>1. halt' = [halt EXCEPT ![h] = r]
  BY DEF HaltThrows
<1>2. halt[h].left \in 0..MaxDeliveries /\ halt[h].left > 0
  BY DEF HaltType, Halt
<1>3. left \in 0..MaxDeliveries
  BY <1>2
<1>4. pc # "DeadLettered" => left > 0
  BY <1>2
<1>5. pc \in {"Idle", "DeadLettered"}
  OBVIOUS
<1> HIDE DEF left, pc
<1>6. r \in Halt /\ r.pc = pc /\ r.left = left /\ r.todo = {} /\ r.listed = {}
  <2>1. IdleHalt.todo = {} /\ IdleHalt.listed = {}
    BY DEF IdleHalt
  <2> QED
    BY <1>3, <1>5, <2>1, IdleHaltType DEF Halt, HaltPc
<1> QED
  BY <1>1, <1>4, <1>5, <1>6, HaltMoves

-----------------------------------------------------------------------------
(* Part 2: the effect of each step, and the types                          *)

\* What a step of the closer c can do, at the position p it works on.
Submits(c, p) ==
    /\ closer[c].pc = "Request" /\ status[p] \in Requestable
    /\ SetStatus(p, "CLOSE_SUBMITTED") /\ UNCHANGED holdings
    /\ \/ closer'[c].pc = "Credentials" /\ closer'[c].pos = p
       \/ closer'[c].pc \notin Targeted
Orders(c, p) ==
    /\ closer[c].pc = "Exchange"
    /\ UNCHANGED status /\ (Executes(p) \/ UNCHANGED holdings)
    /\ closer'[c].pc \in {"RecordClose", "MarkFailed"} /\ closer'[c].pos = p
    /\ closer'[c].pc = "RecordClose" => p \notin exposure'
Records(c, p) ==
    /\ closer[c].pc = "RecordClose"
    /\ CloseRow(p) \/ UNCHANGED status
    /\ UNCHANGED holdings
    /\ closer'[c].pc \in {"RecordOrder", "MarkFailed"} /\ closer'[c].pos = p
Fails(c, p) ==
    /\ closer[c].pc = "MarkFailed"
    /\ MarkCloseFailed(p) \/ UNCHANGED status
    /\ UNCHANGED holdings
    /\ closer'[c].pc \notin Targeted
Passes(c) ==
    /\ UNCHANGED <<status, holdings>>
    /\ closer'[c].pc # "RecordClose"
    /\ Submitting(c)' => Submitting(c) /\ closer'[c].pos = closer[c].pos

CloserEffect(c) ==
    /\ UNCHANGED <<halt, guard>>
    /\ \A d \in Closers \ {c} : closer'[d] = closer[d]
    /\ \/ /\ closer[c].pos \in Positions
          /\ \/ Submits(c, closer[c].pos) \/ Orders(c, closer[c].pos)
             \/ Records(c, closer[c].pos) \/ Fails(c, closer[c].pos)
       \/ Passes(c)

CloserActs(c) ==
    \/ CloserStep(c) \/ QueryFails(c) \/ AccountInactive(c) \/ CloserCrash(c) \/ StartKillSwitch(c)
    \/ \E p \in Positions : StartTimeoutClose(c, p) \/ StartDirectClose(c, p)

\* Every step of a closer keeps the types and has one of these effects.
LEMMA CloserStepEffect ==
    ASSUME TypeInv, NEW c \in Closers, CloserActs(c)
    PROVE  TypeInv' /\ CloserEffect(c)
<1> USE DEF TypeInv
<1> DEFINE p == closer[c].pos
<1>a. closer[c] \in Closer /\ (closer[c].pc \in Targeted => p \in Positions)
  BY DEF CloserType
<1>b. ASSUME closer[c].pc \in {"List", "Request", "Credentials"}, UNCHANGED <<rows, holdings, halt, guard>>,
             budget' \in 0..MaxFaults,
             \/ Acknowledges(c) /\ stranded' \in SUBSET Positions
             \/ Throws(c)
             \/ /\ UNCHANGED messages
                /\ \/ closer[c].pc = "List" /\ Goto(c, "Request")
                   \/ closer[c].pc = "Credentials" /\ Goto(c, "Exchange")
      PROVE  TypeInv' /\ CloserEffect(c)
  <2>1. p \in Positions
    BY <1>a, <1>b DEF Targeted
  <2>2. CloserType' /\ MessagesTyped'
    BY <1>b, <2>1, CloserGoes, CloserAcknowledges, CloserThrows DEF CloserPc, RowsType
  <2>3. /\ \A d \in Closers \ {c} : closer'[d] = closer[d]
        /\ \/ closer'[c].pc \notin Targeted
           \/ closer'[c].pc = "Request"
           \/ closer'[c].pc = "Exchange" /\ closer[c].pc = "Credentials" /\ closer'[c].pos = p
    BY <1>b, <2>1, CloserGoes, CloserAcknowledges, CloserThrows DEF CloserPc
  <2> QED
    BY <1>b, <2>2, <2>3 DEF RowsType, HaltType, GuardType, rows, CloserEffect, Passes, Submitting, Targeted
<1>1. CASE ListOpenForUser(c)
  BY <1>1, <1>b DEF ListOpenForUser, RowsType, Returns
<1>2. CASE SubmitClose(c)
  <2>1. CASE ~RequestCloseWins(p)
    BY <1>2, <1>b, <2>1 DEF SubmitClose, RequestClose, RowsType, rows, Returns
  <2>2. CASE RequestCloseWins(p)
    <3>1. /\ Goto(c, "Credentials") /\ SetStatus(p, "CLOSE_SUBMITTED")
          /\ closer[c].pc = "Request" /\ status[p] \in Requestable
          /\ UNCHANGED <<recorded, holdings, messages, halt, guard, budget>>
      BY <1>2, <2>2 DEF SubmitClose, RequestClose, RequestCloseWins, RequestCloseLoses, RequestCloseRaises
    <3>2. p \in Positions
      BY <1>a, <3>1 DEF Targeted
    <3>3. /\ CloserType' /\ closer'[c].pc = "Credentials" /\ closer'[c].pos = p
          /\ \A d \in Closers \ {c} : closer'[d] = closer[d]
      BY <3>1, <3>2, CloserGoes DEF CloserPc
    <3>4. status' \in [Positions -> Status]
      BY <3>1, <3>2 DEF SetStatus, RowsType, Status, OpenStatus
    <3> QED
      BY <3>1, <3>2, <3>3, <3>4 DEF RowsType, HaltType, GuardType, CloserEffect, Submits
  <2> QED
    BY <2>1, <2>2
<1>3. CASE LoadCredentials(c)
  BY <1>3, <1>b DEF LoadCredentials, RowsType, Spend
<1>4. CASE QueryFails(c)
  <2>1. CASE UNCHANGED status
    BY <1>4, <1>b, <2>1 DEF QueryFails, RowsType, Spend, rows
  <2>2. CASE closer[c].pc = "Request" /\ RequestCloseWins(p) /\ SetStatus(p, "CLOSE_SUBMITTED")
    <3>1. p \in Positions /\ status[p] \in Requestable
      BY <1>a, <2>2 DEF Targeted, RequestCloseWins
    <3>2. /\ CloserType' /\ MessagesTyped'
          /\ closer'[c].pc \notin Targeted
          /\ \A d \in Closers \ {c} : closer'[d] = closer[d]
      BY <1>4, <3>1, CloserThrows DEF QueryFails, RowsType
    <3>3. status' \in [Positions -> Status]
      BY <2>2, <3>1 DEF SetStatus, RowsType, Status, OpenStatus
    <3>4. budget' \in 0..MaxFaults /\ UNCHANGED <<recorded, holdings, halt, guard>>
      BY <1>4 DEF QueryFails, Spend, RowsType
    <3> QED
      BY <2>2, <3>1, <3>2, <3>3, <3>4 DEF RowsType, HaltType, GuardType, CloserEffect, Submits
  <2> QED
    BY <1>4, <2>1, <2>2 DEF QueryFails, RequestClose
<1>5. CASE AccountInactive(c)
  <2>1. p \in Positions
    BY <1>5, <1>a DEF AccountInactive, Targeted
  <2> QED
    BY <1>5, <1>b, <2>1 DEF AccountInactive, RowsType, Spend
<1>6. CASE ClosePosition(c)
  <2>1. /\ closer[c].pc = "Exchange" /\ p \in Positions
        /\ UNCHANGED <<status, recorded, messages, halt, guard>>
    BY <1>6, <1>a DEF ClosePosition, RowsType, rows, Targeted
  <2>2. ASSUME NEW pc \in {"RecordClose", "MarkFailed"},
               closer' = [closer EXCEPT ![c].pc = pc, ![c].tried = @ \union {p}],
               (Executes(p) \/ UNCHANGED holdings),
               pc = "RecordClose" => p \notin exposure',
               budget' \in 0..MaxFaults
        PROVE  TypeInv' /\ CloserEffect(c)
    <3> DEFINE r == [closer[c] EXCEPT !.pc = pc, !.tried = closer[c].tried \union {p}]
    <3>1. r \in Closer
      BY <1>a, <2>1 DEF Closer, CloserPc
    <3>2. r.pc = pc /\ r.pos = p
      BY <1>a DEF Closer
    <3>3. closer' = [closer EXCEPT ![c] = r]
      BY <2>2
    <3>4. CloserType' /\ closer'[c] = r /\ \A d \in Closers \ {c} : closer'[d] = closer[d]
      BY <2>1, <3>1, <3>2, <3>3, CloserMoves
    <3> HIDE DEF r
    <3> QED
      BY <2>1, <2>2, <3>2, <3>4 DEF RowsType, HaltType, GuardType, CloserEffect, Orders, Executes
  <2>3. CASE OrderAccepted(p) /\ UNCHANGED budget
    BY <1>6, <2>2, <2>3 DEF ClosePosition, OrderAccepted, OrderRefused, CallFails, Executes, RowsType
  <2>4. CASE OrderRefused(p) \/ CallFails(p)
    BY <1>6, <2>2, <2>4 DEF ClosePosition, OrderAccepted, OrderRefused, CallFails, Executes, Spend, RowsType
  <2> QED
    BY <1>6, <2>3, <2>4 DEF ClosePosition
<1>7. CASE RecordClose(c)
  <2>1. closer[c].pc = "RecordClose" /\ p \in Positions
    BY <1>7, <1>a DEF RecordClose, Targeted
  <2>2. PICK pc \in {"RecordOrder", "MarkFailed"} : Goto(c, pc)
    BY <1>7 DEF RecordClose
  <2>3. /\ CloserType' /\ closer'[c].pc = pc /\ closer'[c].pos = p
        /\ \A d \in Closers \ {c} : closer'[d] = closer[d]
    BY <2>1, <2>2, CloserGoes DEF CloserPc
  <2>4. /\ CloseRow(p) \/ UNCHANGED status
        /\ budget' \in 0..MaxFaults
        /\ UNCHANGED <<recorded, holdings, messages, halt, guard>>
    BY <1>7 DEF RecordClose, Spend, RowsType
  <2>5. status' \in [Positions -> Status]
    BY <2>1, <2>4 DEF CloseRow, SetStatus, RowsType, Status
  <2> QED
    BY <2>1, <2>3, <2>4, <2>5 DEF RowsType, HaltType, GuardType, CloserEffect, Records
<1>8. CASE RecordOrder(c)
  <2>1. closer[c].pc = "RecordOrder" /\ p \in Positions
    BY <1>8, <1>a DEF RecordOrder, Targeted
  <2>2. CloserType' /\ MessagesTyped'
    BY <1>8, <2>1, CloserGoes, CloserReturns DEF RecordOrder, CloserPc, RowsType
  <2>3. /\ \A d \in Closers \ {c} : closer'[d] = closer[d]
        /\ \/ closer'[c].pc \notin Targeted
           \/ closer'[c].pc = "MarkFailed" /\ closer'[c].pos = p
    BY <1>8, <2>1, CloserGoes, CloserReturns DEF RecordOrder, CloserPc, Targeted
  <2>4. budget' \in 0..MaxFaults /\ UNCHANGED <<rows, holdings, halt, guard>>
    BY <1>8 DEF RecordOrder, Spend, RowsType
  <2> QED
    BY <2>1, <2>2, <2>3, <2>4 DEF RowsType, HaltType, GuardType, rows, CloserEffect, Passes, Submitting, Targeted
<1>9. CASE CloseFailed(c)
  <2>1. closer[c].pc = "MarkFailed" /\ p \in Positions
    BY <1>9, <1>a DEF CloseFailed, Targeted
  <2>2. /\ CloserType' /\ MessagesTyped'
        /\ closer'[c].pc \notin Targeted
        /\ \A d \in Closers \ {c} : closer'[d] = closer[d]
    BY <1>9, <2>1, CloserThrows DEF CloseFailed
  <2>3. /\ MarkCloseFailed(p) \/ UNCHANGED status
        /\ budget' \in 0..MaxFaults
        /\ UNCHANGED <<recorded, holdings, halt, guard>>
    BY <1>9 DEF CloseFailed, Spend, RowsType
  <2>4. status' \in [Positions -> Status]
    BY <2>1, <2>3 DEF MarkCloseFailed, SetStatus, RowsType, Status, OpenStatus
  <2> QED
    BY <2>1, <2>2, <2>3, <2>4 DEF RowsType, HaltType, GuardType, CloserEffect, Fails
<1>c. ASSUME NEW r \in Closer, r.pc \in {"Idle", "KillNext", "KillDone", "List"},
             r.pc = "List" => r.pos \in Positions,
             closer' = [closer EXCEPT ![c] = r], budget' \in 0..MaxFaults,
             UNCHANGED <<rows, holdings, messages, halt, guard>>
      PROVE  TypeInv' /\ CloserEffect(c)
  <2>1. CloserType' /\ closer'[c] = r /\ \A d \in Closers \ {c} : closer'[d] = closer[d]
    BY <1>c, CloserMoves DEF Targeted
  <2> QED
    BY <1>c, <2>1 DEF RowsType, HaltType, GuardType, rows, CloserEffect, Passes, Submitting
<1>10. CASE KillNext(c)
  <2>1. CASE closer' = [closer EXCEPT ![c].pc = "KillDone"]
    <3> DEFINE r == [closer[c] EXCEPT !.pc = "KillDone"]
    <3>1. r \in Closer /\ r.pc = "KillDone" /\ closer' = [closer EXCEPT ![c] = r]
      BY <1>a, <2>1 DEF Closer, CloserPc
    <3> QED
      BY <1>10, <1>c, <3>1 DEF KillNext, RowsType
  <2>2. ASSUME NEW q \in Positions,
               closer' = [closer EXCEPT ![c].pc = "List", ![c].pos = q, ![c].todo = @ \ {q}]
        PROVE  TypeInv' /\ CloserEffect(c)
    <3> DEFINE r == [closer[c] EXCEPT !.pc = "List", !.pos = q, !.todo = closer[c].todo \ {q}]
    <3>1. r \in Closer /\ r.pc = "List" /\ r.pos = q
      BY <1>a DEF Closer, CloserPc
    <3>2. closer' = [closer EXCEPT ![c] = r]
      BY <2>2
    <3> HIDE DEF r
    <3> QED
      BY <1>10, <1>c, <3>1, <3>2 DEF KillNext, RowsType
  <2> QED
    BY <1>10, <2>1, <2>2 DEF KillNext, Goto
<1>11. CASE KillReport(c) \/ CloserCrash(c)
  BY <1>11, <1>c, IdleCloserType DEF KillReport, CloserCrash, RowsType, Spend
<1>12. CASE StartKillSwitch(c)
  <2>1. OpenPositions \in SUBSET Positions
    BY DEF OpenPositions
  <2>2. \A f \in BOOLEAN : KillSwitch(f) \in Closer /\ KillSwitch(f).pc = "KillNext"
    BY <2>1 DEF KillSwitch, Closer, CloserPc, Jobs
  <2>3. PICK f \in BOOLEAN : closer' = [closer EXCEPT ![c] = KillSwitch(f)]
    BY <1>12 DEF StartKillSwitch
  <2>4. UNCHANGED <<rows, holdings, messages, halt, guard>>
    BY <1>12 DEF StartKillSwitch
  <2>5. UNCHANGED budget \/ Spend("exchange")
    BY <1>12 DEF StartKillSwitch
  <2>6. budget' \in 0..MaxFaults
    BY <2>5 DEF RowsType, Spend
  <2> QED
    BY <1>c, <2>2, <2>3, <2>4, <2>6
<1>13. ASSUME NEW q \in Positions, StartTimeoutClose(c, q) \/ StartDirectClose(c, q)
       PROVE  TypeInv' /\ CloserEffect(c)
  <2>1. PICK j \in Jobs : closer' = [closer EXCEPT ![c] = [@ EXCEPT !.pc = "List", !.job = j, !.pos = q]]
    BY <1>13 DEF StartTimeoutClose, StartDirectClose, Jobs
  <2> DEFINE r == [closer[c] EXCEPT !.pc = "List", !.job = j, !.pos = q]
  <2>2. r \in Closer /\ r.pc = "List" /\ r.pos = q
    BY <1>a DEF Closer, CloserPc
  <2>3. closer' = [closer EXCEPT ![c] = r]
    BY <2>1
  <2> QED
    BY <1>13, <1>c, <2>2, <2>3 DEF StartTimeoutClose, StartDirectClose, RowsType
<1> QED
  BY <1>1, <1>2, <1>3, <1>4, <1>5, <1>6, <1>7, <1>8, <1>9, <1>10, <1>11, <1>12, <1>13
  DEF CloserActs, CloserStep

\* What a step of the halt worker h can do, at the position p it works on.
HaltSubmits(h, p) ==
    /\ halt[h].pc = "Request" /\ Oldest(p, halt[h].todo)
    /\ RequestClose(p) \/ UNCHANGED status
    /\ UNCHANGED holdings
    /\ halt'[h].pc \in {"Exchange", "Cancel", "Unconfirmed"}
HaltOrders(h, p) ==
    /\ halt[h].pc = "Exchange" /\ Oldest(p, halt[h].todo)
    /\ UNCHANGED status /\ (Executes(p) \/ UNCHANGED holdings)
    /\ halt'[h].pc \in {"Record", "Cancel", "Unconfirmed"}
    /\ halt'[h].pc = "Record" => p \notin exposure' /\ halt'[h].todo = halt[h].todo
HaltRecords(h, p) ==
    /\ halt[h].pc = "Record" /\ Oldest(p, halt[h].todo)
    /\ CloseRow(p) \/ UNCHANGED status
    /\ UNCHANGED holdings
    /\ halt'[h].pc \notin {"Record", "Confirmed"}
HaltPasses(h) ==
    /\ UNCHANGED <<status, holdings>>
    /\ halt'[h].pc # "Record"
    /\ halt'[h].pc = "Confirmed" => OpenPositions = {}

HaltEffect(h) ==
    /\ UNCHANGED <<closer, guard>>
    /\ \A k \in HaltWorkers \ {h} : halt'[k] = halt[k]
    /\ halt'[h].todo \subseteq halt[h].todo \union OpenPositions
    /\ halt'[h].listed \subseteq halt[h].listed \union OpenPositions
    /\ \/ \E p \in Positions : HaltSubmits(h, p) \/ HaltOrders(h, p) \/ HaltRecords(h, p)
       \/ HaltPasses(h)

\* Every step of a halt worker keeps the types and has one of these effects.
LEMMA HaltStepEffect ==
    ASSUME TypeInv, NEW h \in HaltWorkers, HaltStep(h) \/ HaltCrash(h)
    PROVE  TypeInv' /\ HaltEffect(h)
<1> USE DEF TypeInv
<1>a. halt[h] \in Halt
  BY DEF HaltType
<1>b. ASSUME UNCHANGED <<rows, holdings, messages, closer, guard>>, budget' \in 0..MaxFaults,
             halt[h].pc # "DeadLettered",
             \/ NextAttempt(h) \/ HaltThrows(h)
             \/ \E pc \in {"Cancel", "List", "Ignored"} : HaltGoto(h, pc)
             \/ HaltGoto(h, "Confirmed") /\ OpenPositions = {}
      PROVE  TypeInv' /\ HaltEffect(h)
  <2>1. /\ HaltType' /\ \A k \in HaltWorkers \ {h} : halt'[k] = halt[k]
        /\ halt'[h].pc # "Record"
        /\ halt'[h].pc = "Confirmed" => OpenPositions = {}
        /\ halt'[h].todo \subseteq halt[h].todo /\ halt'[h].listed \subseteq halt[h].listed
    BY <1>b, HaltFails, HaltThrowsType, HaltGoes DEF NextAttempt, HaltPc
  <2> QED
    BY <1>b, <2>1 DEF RowsType, CloserType, GuardType, rows, HaltEffect, HaltPasses
<1>1. CASE StartHalt(h)
  <2>1. CASE halt' = [halt EXCEPT ![h].pc = "Cancel", ![h].attempt = 1]
    <3> DEFINE r == [halt[h] EXCEPT !.pc = "Cancel", !.attempt = 1]
    <3>1. 1 \in 0..MaxHaltAttempts
      OBVIOUS
    <3>2. r \in Halt
      BY <1>a, <3>1 DEF Halt, HaltPc
    <3>3. r.pc = "Cancel" /\ r.left = halt[h].left /\ r.todo = halt[h].todo /\ r.listed = halt[h].listed
      BY <1>a DEF Halt
    <3>4. halt' = [halt EXCEPT ![h] = r] /\ halt[h].left > 0
      BY <1>1, <2>1 DEF StartHalt, HaltType
    <3> HIDE DEF r
    <3>5. HaltType' /\ halt'[h] = r /\ \A k \in HaltWorkers \ {h} : halt'[k] = halt[k]
      BY <3>2, <3>3, <3>4, HaltMoves
    <3>6. budget' \in 0..MaxFaults /\ UNCHANGED <<rows, holdings, messages, closer, guard>>
      BY <1>1 DEF StartHalt, Spend, RowsType
    <3> QED
      BY <3>3, <3>5, <3>6 DEF RowsType, CloserType, GuardType, rows, HaltEffect, HaltPasses
  <2>2. CASE HaltGoto(h, "Ignored") \/ HaltThrows(h)
    <3>1. /\ budget' \in 0..MaxFaults /\ halt[h].pc # "DeadLettered"
          /\ UNCHANGED <<rows, holdings, messages, closer, guard>>
      BY <1>1 DEF StartHalt, Spend, RowsType
    <3> QED
      BY <1>b, <2>2, <3>1
  <2> QED
    BY <1>1, <2>1, <2>2 DEF StartHalt
<1>2. CASE HaltCancel(h)
  BY <1>2, <1>b DEF HaltCancel, Spend, RowsType
<1>3. CASE HaltList(h)
  <2>1. CASE \/ OpenPositions = {} /\ HaltGoto(h, "Confirmed") /\ UNCHANGED budget
             \/ Spend("query") /\ NextAttempt(h)
    BY <1>3, <1>b, <2>1 DEF HaltList, RowsType, Spend
  <2>2. CASE /\ UNCHANGED budget
             /\ halt' = [halt EXCEPT ![h].pc = "Request", ![h].todo = OpenPositions,
                                     ![h].listed = @ \union OpenPositions]
    <3> DEFINE r == [halt[h] EXCEPT !.pc = "Request", !.todo = OpenPositions,
                                    !.listed = halt[h].listed \union OpenPositions]
    <3>1. OpenPositions \in SUBSET Positions
      BY DEF OpenPositions
    <3>2. r \in Halt
      BY <1>a, <3>1 DEF Halt, HaltPc
    <3>3. /\ r.pc = "Request" /\ r.left = halt[h].left /\ r.todo = OpenPositions
          /\ r.listed = halt[h].listed \union OpenPositions
      BY <1>a DEF Halt
    <3>4. halt' = [halt EXCEPT ![h] = r] /\ halt[h].left > 0
      BY <1>3, <2>2 DEF HaltList, HaltType
    <3> HIDE DEF r
    <3>5. HaltType' /\ halt'[h] = r /\ \A k \in HaltWorkers \ {h} : halt'[k] = halt[k]
      BY <3>2, <3>3, <3>4, HaltMoves
    <3> QED
      BY <1>3, <2>2, <3>3, <3>5 DEF HaltList, RowsType, CloserType, GuardType, rows, HaltEffect, HaltPasses
  <2> QED
    BY <1>3, <2>1, <2>2 DEF HaltList
<1>4. CASE HaltRequest(h)
  <2>1. PICK p \in Positions :
          /\ Oldest(p, halt[h].todo)
          /\ RequestClose(p) \/ UNCHANGED status
          /\ budget' \in 0..MaxFaults
          /\ NextAttempt(h) \/ HaltGoto(h, "Exchange")
    BY <1>4 DEF HaltRequest, Spend, RowsType
  <2>2. halt[h].pc = "Request" /\ UNCHANGED <<recorded, holdings, messages, closer, guard>>
    BY <1>4 DEF HaltRequest
  <2>3. /\ HaltType' /\ \A k \in HaltWorkers \ {h} : halt'[k] = halt[k]
        /\ halt'[h].pc \in {"Exchange", "Cancel", "Unconfirmed"}
        /\ halt'[h].todo \subseteq halt[h].todo /\ halt'[h].listed \subseteq halt[h].listed
    BY <2>1, <2>2, HaltFails, HaltGoes DEF NextAttempt, HaltPc
  <2>4. status' \in [Positions -> Status]
    BY <2>1 DEF RequestClose, SetStatus, RowsType, Status, OpenStatus
  <2> QED
    BY <2>1, <2>2, <2>3, <2>4 DEF RowsType, CloserType, GuardType, HaltEffect, HaltSubmits
<1>5. CASE HaltClosePosition(h)
  <2>1. PICK p \in Positions :
          /\ Oldest(p, halt[h].todo)
          /\ \/ OrderAccepted(p) /\ UNCHANGED budget
                /\ halt' = [halt EXCEPT ![h].pc = "Record", ![h].tried = @ \union {p}]
             \/ OrderRefused(p) /\ UNCHANGED budget /\ AttemptFails(h, {p})
             \/ CallFails(p) /\ AttemptFails(h, {p})
    BY <1>5 DEF HaltClosePosition
  <2>2. halt[h].pc = "Exchange" /\ UNCHANGED <<status, recorded, messages, closer, guard>>
    BY <1>5 DEF HaltClosePosition, rows
  <2>3. CASE OrderAccepted(p) /\ UNCHANGED budget
               /\ halt' = [halt EXCEPT ![h].pc = "Record", ![h].tried = @ \union {p}]
    <3> DEFINE r == [halt[h] EXCEPT !.pc = "Record", !.tried = halt[h].tried \union {p}]
    <3>1. r \in Halt
      BY <1>a DEF Halt, HaltPc
    <3>2. r.pc = "Record" /\ r.left = halt[h].left /\ r.todo = halt[h].todo /\ r.listed = halt[h].listed
      BY <1>a DEF Halt
    <3>3. halt' = [halt EXCEPT ![h] = r] /\ halt[h].left > 0
      BY <2>2, <2>3 DEF HaltType
    <3> HIDE DEF r
    <3>4. HaltType' /\ halt'[h] = r /\ \A k \in HaltWorkers \ {h} : halt'[k] = halt[k]
      BY <3>1, <3>2, <3>3, HaltMoves
    <3> QED
      BY <2>1, <2>2, <2>3, <3>2, <3>4 DEF RowsType, CloserType, GuardType, HaltEffect, HaltOrders, OrderAccepted, Executes
  <2>4. CASE ((OrderRefused(p) /\ UNCHANGED budget) \/ CallFails(p)) /\ AttemptFails(h, {p})
    <3>1. /\ HaltType' /\ \A k \in HaltWorkers \ {h} : halt'[k] = halt[k]
          /\ halt'[h].pc \in {"Cancel", "Unconfirmed"}
          /\ halt'[h].todo \subseteq halt[h].todo /\ halt'[h].listed \subseteq halt[h].listed
      BY <2>2, <2>4, HaltFails
    <3>2. (Executes(p) \/ UNCHANGED holdings) /\ budget' \in 0..MaxFaults
      BY <2>4 DEF OrderRefused, CallFails, Spend, RowsType
    <3> QED
      BY <2>1, <2>2, <3>1, <3>2 DEF RowsType, CloserType, GuardType, HaltEffect, HaltOrders, Executes
  <2> QED
    BY <2>1, <2>3, <2>4
<1>6. CASE HaltRecord(h)
  <2>1. PICK p \in Positions :
          /\ Oldest(p, halt[h].todo)
          /\ CloseRow(p) \/ UNCHANGED status
          /\ UNCHANGED budget \/ Spend("query")
          /\ \/ NextAttempt(h)
             \/ halt' = [halt EXCEPT ![h].todo = @ \ {p},
                                     ![h].pc = IF halt[h].todo = {p} THEN "Relist" ELSE "Request"]
    BY <1>6 DEF HaltRecord
  <2>2. budget' \in 0..MaxFaults
    BY <2>1 DEF Spend, RowsType
  <2>3. halt[h].pc = "Record" /\ UNCHANGED <<recorded, holdings, messages, closer, guard>>
    BY <1>6 DEF HaltRecord
  <2>4. /\ HaltType' /\ \A k \in HaltWorkers \ {h} : halt'[k] = halt[k]
        /\ halt'[h].pc \notin {"Record", "Confirmed"}
        /\ halt'[h].todo \subseteq halt[h].todo /\ halt'[h].listed \subseteq halt[h].listed
    <3>1. CASE NextAttempt(h)
      BY <2>3, <3>1, HaltFails DEF NextAttempt
    <3>2. CASE halt' = [halt EXCEPT ![h].todo = @ \ {p},
                                    ![h].pc = IF halt[h].todo = {p} THEN "Relist" ELSE "Request"]
      <4> DEFINE pc == IF halt[h].todo = {p} THEN "Relist" ELSE "Request"
                 r  == [halt[h] EXCEPT !.todo = halt[h].todo \ {p}, !.pc = pc]
      <4>1. halt' = [halt EXCEPT ![h] = r] /\ halt[h].left > 0
        BY <2>3, <3>2 DEF HaltType
      <4>2. pc \in {"Relist", "Request"}
        OBVIOUS
      <4> HIDE DEF pc
      <4>3. r \in Halt
        BY <1>a, <4>2 DEF Halt, HaltPc
      <4>4. r.pc = pc /\ r.left = halt[h].left /\ r.todo = halt[h].todo \ {p} /\ r.listed = halt[h].listed
        BY <1>a DEF Halt
      <4> HIDE DEF r
      <4> QED
        BY <4>1, <4>2, <4>3, <4>4, HaltMoves
    <3> QED
      BY <2>1, <3>1, <3>2
  <2>5. status' \in [Positions -> Status]
    BY <2>1 DEF CloseRow, SetStatus, RowsType, Status, OpenStatus
  <2> QED
    BY <2>1, <2>3, <2>4, <2>5, <2>2 DEF RowsType, CloserType, GuardType, HaltEffect, HaltRecords
<1>7. CASE HaltRelist(h)
  BY <1>7, <1>b DEF HaltRelist, Spend, RowsType
<1>8. CASE HaltGivesUp(h)
  BY <1>8, <1>b DEF HaltGivesUp, RowsType
<1>9. CASE HaltCrash(h)
  <2> DEFINE r == [IdleHalt EXCEPT !.left = halt[h].left]
  <2>1. r \in Halt /\ r.pc = "Idle" /\ r.left = halt[h].left
    BY <1>a, IdleHaltType DEF Halt
  <2>2. r.todo = {} /\ r.listed = {}
    BY DEF IdleHalt
  <2>3. halt' = [halt EXCEPT ![h] = r] /\ halt[h].left > 0
    BY <1>9 DEF HaltCrash, HaltType
  <2> HIDE DEF r
  <2>4. HaltType' /\ halt'[h] = r /\ \A k \in HaltWorkers \ {h} : halt'[k] = halt[k]
    BY <2>1, <2>3, HaltMoves
  <2>5. budget' \in 0..MaxFaults /\ UNCHANGED <<rows, holdings, messages, closer, guard>>
    BY <1>9 DEF HaltCrash, Spend, RowsType
  <2> QED
    BY <2>1, <2>2, <2>4, <2>5 DEF RowsType, CloserType, GuardType, rows, HaltEffect, HaltPasses
<1> QED
  BY <1>1, <1>2, <1>3, <1>4, <1>5, <1>6, <1>7, <1>8, <1>9 DEF HaltStep

\* What the exchange, Agent 3's recording of entries and Agent 6 can do.
RowEffect ==
    /\ UNCHANGED <<closer, halt>>
    /\ \/ \E p \in Positions :
            \/ /\ status[p] = "NONE" /\ SetStatus(p, "ENTERED")
               /\ exposure' = exposure \union {p} /\ UNCHANGED remainder
            \/ /\ status[p] = "ENTERED" /\ SetStatus(p, "OPENED")
               /\ UNCHANGED holdings
            \/ /\ Executes(p)
               /\ UNCHANGED status
            \/ /\ status[p] \in {"OPENED", "CLOSE_FAILED_RETRYING"}
               /\ SetStatus(p, "FORCE_CLOSE_REQUESTED") /\ UNCHANGED holdings
       \/ UNCHANGED <<status, holdings>>

RowActs ==
    \/ \E p \in Positions : EntryFills(p) \/ OpenPosition(p) \/ StopOrTargetFills(p) \/ TimeoutCandidate(p)
    \/ GuardStep \/ GuardStops

LEMMA RowStepEffect ==
    ASSUME TypeInv, RowActs
    PROVE  TypeInv' /\ RowEffect
<1> USE DEF TypeInv, RowsType, CloserType, HaltType, RowEffect
<1>1. ASSUME NEW p \in Positions, EntryFills(p) PROVE TypeInv' /\ RowEffect
  BY <1>1 DEF EntryFills, SetStatus, Status, Rowless, GuardType
<1>2. ASSUME NEW p \in Positions, OpenPosition(p) PROVE TypeInv' /\ RowEffect
  BY <1>2 DEF OpenPosition, SetStatus, Status, OpenStatus, GuardType
<1>3. ASSUME NEW p \in Positions, StopOrTargetFills(p) PROVE TypeInv' /\ RowEffect
  BY <1>3 DEF StopOrTargetFills, Executes, Spend, rows, GuardType
<1>4. ASSUME NEW p \in Positions, TimeoutCandidate(p) PROVE TypeInv' /\ RowEffect
  BY <1>4 DEF TimeoutCandidate, rows, GuardType, Guard, GuardPc
<1>5. CASE RecordTimeoutEvent
  BY <1>5 DEF RecordTimeoutEvent, GuardType, Guard, GuardPc
<1>6. CASE MarkForceClose
  <2>1. guard.pos \in Positions /\ GuardType'
    BY <1>6 DEF MarkForceClose, GuardType, Guard, GuardPc, IdleGuard
  <2> QED
    BY <1>6, <2>1 DEF MarkForceClose, SetStatus, Status, OpenStatus
<1>7. CASE PublishTimeout
  BY <1>7 DEF PublishTimeout, rows, GuardType, Guard, GuardPc, IdleGuard
<1>8. CASE GuardStops
  BY <1>8 DEF GuardStops, Spend, rows, GuardType, Guard, GuardPc, IdleGuard
<1> QED
  BY <1>1, <1>2, <1>3, <1>4, <1>5, <1>6, <1>7, <1>8 DEF RowActs, GuardStep

LEMMA NextActs ==
    Next <=> \/ RowActs
             \/ \E c \in Closers : CloserActs(c)
             \/ \E h \in HaltWorkers : HaltStep(h) \/ HaltCrash(h)
BY DEF Next, RowActs, CloserActs

LEMMA InitType == Init => TypeInv
<1> SUFFICES ASSUME Init PROVE TypeInv
  OBVIOUS
<1>1. RowsType
  BY DEF Init, RowsType, Status, Rowless
<1>2. CloserType
  BY IdleCloserType DEF Init, CloserType, Targeted
<1>3. HaltType
  BY IdleHaltType DEF Init, HaltType
<1>4. GuardType
  BY DEF Init, GuardType, Guard, GuardPc, IdleGuard
<1> QED
  BY <1>1, <1>2, <1>3, <1>4 DEF TypeInv

LEMMA StutterType == ASSUME TypeInv, UNCHANGED vars PROVE TypeInv'
BY DEF TypeInv, RowsType, CloserType, HaltType, GuardType, vars

LEMMA TypeInvariance == Spec => []TypeInv
<1>1. TypeInv /\ [Next]_vars => TypeInv'
  BY NextActs, RowStepEffect, CloserStepEffect, HaltStepEffect, StutterType
<1> QED
  BY InitType, <1>1, PTL DEF Spec

\* Every variable keeps its type, whatever fails and in whatever order the
\* workers, Agent 6 and the exchange act.
THEOREM TypeCorrect == Spec => []TypeOK
<1>1. TypeInv => TypeOK
  BY DEF TypeInv, TypeOK, RowsType, CloserType, HaltType, GuardType
<1> QED
  BY <1>1, TypeInvariance, PTL

-----------------------------------------------------------------------------
(* Part 3: the inductive invariant                                         *)

\* While a closer owns a row, the row is submitted or already closed.
Owned ==
    \A c \in Closers : Submitting(c) => status[closer[c].pos] \in {"CLOSE_SUBMITTED", "CLOSED"}
\* Whoever is about to close a row has flattened its position.
ReducedBeforeRecord ==
    /\ \A c \in Closers : closer[c].pc = "RecordClose" => closer[c].pos \notin exposure
    /\ \A h \in HaltWorkers, p \in Positions :
          halt[h].pc = "Record" /\ Oldest(p, halt[h].todo) => p \notin exposure
ListedHaveRows ==
    \A h \in HaltWorkers : \A p \in halt[h].todo \union halt[h].listed : status[p] \notin Rowless
NothingBeforeEntry == \A p \in Positions : status[p] = "NONE" => p \notin Held

Safe ==
    /\ SingleSubmitter /\ ClosedWasReduced /\ ConfirmedHaltHasReduced
    /\ Owned /\ ReducedBeforeRecord /\ ListedHaveRows /\ NothingBeforeEntry

Effect ==
    \/ RowEffect
    \/ \E c \in Closers : CloserEffect(c)
    \/ \E h \in HaltWorkers : HaltEffect(h)

LEMMA NextEffect ==
    ASSUME TypeInv, Next
    PROVE  TypeInv' /\ Effect
BY NextActs, RowStepEffect, CloserStepEffect, HaltStepEffect DEF Effect

\* What no step does to a row or to the exposure.
Monotone ==
    \A p \in Positions :
        /\ status[p] \notin Rowless => status'[p] \notin Rowless
        /\ p \in exposure' /\ p \notin exposure => status[p] = "NONE"
        /\ status'[p] = "CLOSED" /\ status[p] # "CLOSED" => p \notin exposure'
        /\ status'[p] = "NONE" => status[p] = "NONE" /\ (p \in Held' => p \in Held)

LEMMA EffectMonotone ==
    ASSUME TypeInv, Safe, Effect
    PROVE  Monotone
<1> USE DEF Monotone, Rowless, SetStatus, TypeInv, RowsType
<1>1. CASE RowEffect
  BY <1>1 DEF RowEffect, Executes
<1>2. ASSUME NEW c \in Closers, CloserEffect(c) PROVE Monotone
  <2> DEFINE q == closer[c].pos
  <2>1. CASE q \in Positions /\ (Submits(c, q) \/ Orders(c, q) \/ Fails(c, q))
    <3>1. CASE Submits(c, q)
      BY <2>1, <3>1 DEF Submits, Requestable, OpenStatus
    <3>2. CASE Orders(c, q)
      BY <2>1, <3>2 DEF Orders, Executes
    <3>3. CASE Fails(c, q)
      <4>1. status[q] \in {"CLOSE_SUBMITTED", "CLOSED"}
        BY <3>3 DEF Fails, Safe, Owned, Submitting
      <4> QED
        BY <2>1, <3>3, <4>1 DEF Fails, MarkCloseFailed
    <3> QED
      BY <2>1, <3>1, <3>2, <3>3
  <2>2. CASE q \in Positions /\ Records(c, q)
    <3>1. q \notin exposure
      BY <2>2 DEF Records, Safe, ReducedBeforeRecord
    <3> QED
      BY <2>2, <3>1 DEF Records, CloseRow, IsOpen, OpenStatus
  <2>3. CASE Passes(c)
    BY <2>3 DEF Passes
  <2> QED
    BY <1>2, <2>1, <2>2, <2>3 DEF CloserEffect
<1>3. ASSUME NEW h \in HaltWorkers, HaltEffect(h) PROVE Monotone
  <2>1. ASSUME NEW p \in Positions, HaltSubmits(h, p) PROVE Monotone
    BY <2>1 DEF HaltSubmits, RequestClose, RequestCloseWins, Requestable, OpenStatus
  <2>2. ASSUME NEW p \in Positions, HaltOrders(h, p) PROVE Monotone
    BY <2>2 DEF HaltOrders, Executes
  <2>3. ASSUME NEW p \in Positions, HaltRecords(h, p) PROVE Monotone
    <3>1. p \notin exposure
      BY <2>3 DEF HaltRecords, Safe, ReducedBeforeRecord
    <3> QED
      BY <2>3, <3>1 DEF HaltRecords, CloseRow, IsOpen, OpenStatus
  <2>4. CASE HaltPasses(h)
    BY <2>4 DEF HaltPasses
  <2> QED
    BY <1>3, <2>1, <2>2, <2>3, <2>4 DEF HaltEffect
<1> QED
  BY <1>1, <1>2, <1>3 DEF Effect

LEMMA RowsSafe ==
    ASSUME TypeInv, Safe, Effect
    PROVE  ClosedWasReduced' /\ NothingBeforeEntry'
<1>1. Monotone
  BY EffectMonotone
<1>2. ClosedWasReduced'
  BY <1>1 DEF Safe, ClosedWasReduced, Monotone
<1>3. NothingBeforeEntry'
  BY <1>1 DEF Safe, NothingBeforeEntry, Monotone
<1> QED
  BY <1>2, <1>3

\* No step of anyone but its owner takes a row out of CLOSE_SUBMITTED and CLOSED.
LEMMA OthersKeepOwned ==
    ASSUME TypeInv, Safe, Effect, NEW d \in Closers, Submitting(d), closer'[d] = closer[d]
    PROVE  status'[closer[d].pos] \in {"CLOSE_SUBMITTED", "CLOSED"}
<1> DEFINE p == closer[d].pos
<1>1. p \in Positions /\ status[p] \in {"CLOSE_SUBMITTED", "CLOSED"}
  BY DEF TypeInv, CloserType, Submitting, Targeted, Safe, Owned
<1> USE DEF SetStatus, TypeInv, RowsType
<1>2. CASE RowEffect
  BY <1>1, <1>2 DEF RowEffect
<1>3. ASSUME NEW c \in Closers, CloserEffect(c) PROVE status'[p] \in {"CLOSE_SUBMITTED", "CLOSED"}
  <2>1. CASE Passes(c)
    BY <1>1, <2>1 DEF Passes
  <2>2. CASE closer[c].pos \in Positions /\ Submits(c, closer[c].pos)
    BY <1>1, <2>2 DEF Submits
  <2>3. CASE closer[c].pos \in Positions /\ Orders(c, closer[c].pos)
    BY <1>1, <2>3 DEF Orders
  <2>4. CASE closer[c].pos \in Positions /\ Records(c, closer[c].pos)
    BY <1>1, <2>4 DEF Records, CloseRow
  <2>5. CASE closer[c].pos \in Positions /\ Fails(c, closer[c].pos)
    <3>1. c # d
      BY <2>5 DEF Fails, Targeted, Submitting
    <3>2. closer[c].pos # p
      BY <2>5, <3>1 DEF Fails, Safe, SingleSubmitter, Submitting
    <3> QED
      BY <1>1, <2>5, <3>2 DEF Fails, MarkCloseFailed
  <2> QED
    BY <1>3, <2>1, <2>2, <2>3, <2>4, <2>5 DEF CloserEffect
<1>4. ASSUME NEW h \in HaltWorkers, HaltEffect(h) PROVE status'[p] \in {"CLOSE_SUBMITTED", "CLOSED"}
  BY <1>1, <1>4 DEF HaltEffect, HaltSubmits, HaltOrders, HaltRecords, HaltPasses, RequestClose,
     RequestCloseWins, Requestable, OpenStatus, CloseRow
<1> QED
  BY <1>2, <1>3, <1>4 DEF Effect

LEMMA ClosersSafe ==
    ASSUME TypeInv, Safe, Effect
    PROVE  /\ SingleSubmitter' /\ Owned'
           /\ \A c \in Closers : (closer[c].pc = "RecordClose" => closer[c].pos \notin exposure)'
<1>1. Monotone
  BY EffectMonotone
<1>2. ASSUME NEW d \in Closers, closer'[d] = closer[d], closer[d].pc = "RecordClose"
      PROVE  closer[d].pos \notin exposure'
  <2>1. /\ closer[d].pos \in Positions /\ closer[d].pos \notin exposure
        /\ status[closer[d].pos] # "NONE"
    BY <1>2 DEF Safe, ReducedBeforeRecord, Owned, Submitting, TypeInv, CloserType, Targeted
  <2> QED
    BY <1>1, <2>1 DEF Monotone
<1>3. CASE UNCHANGED closer
  <2>1. SingleSubmitter'
    BY <1>3 DEF Safe, SingleSubmitter, Submitting
  <2>2. Owned'
    BY <1>3, OthersKeepOwned DEF Owned, Submitting
  <2> QED
    BY <1>2, <1>3, <2>1, <2>2
<1>4. ASSUME NEW c \in Closers, CloserEffect(c)
      PROVE  /\ SingleSubmitter' /\ Owned'
             /\ \A d \in Closers : (closer[d].pc = "RecordClose" => closer[d].pos \notin exposure)'
  <2> DEFINE p == closer[c].pos
  <2>1. \A d \in Closers \ {c} : closer'[d] = closer[d]
    BY <1>4 DEF CloserEffect
  <2>2. /\ closer'[c].pc = "RecordClose" => closer'[c].pos \notin exposure'
        /\ Submitting(c)' => /\ Submitting(c) \/ (p \in Positions /\ Submits(c, p))
                             /\ closer'[c].pos = p
    BY <1>4 DEF CloserEffect, Submits, Orders, Records, Fails, Passes, Submitting, Targeted
  <2>3. ASSUME Submitting(c)', NEW d \in Closers \ {c}, Submitting(d)
        PROVE  closer[d].pos # closer'[c].pos
    <3>1. CASE Submitting(c)
      BY <2>2, <2>3, <3>1 DEF Safe, SingleSubmitter
    <3>2. CASE Submits(c, p)
      BY <2>2, <2>3, <3>2 DEF Submits, Safe, Owned, Requestable, OpenStatus
    <3> QED
      BY <2>2, <2>3, <3>1, <3>2
  <2>4. SingleSubmitter'
    <3> SUFFICES ASSUME NEW d \in Closers, NEW e \in Closers, d # e, Submitting(d)', Submitting(e)'
                 PROVE  closer'[d].pos # closer'[e].pos
      BY DEF SingleSubmitter
    <3>1. CASE d = c
      BY <2>1, <2>3, <3>1 DEF Submitting
    <3>2. CASE e = c
      BY <2>1, <2>3, <3>2 DEF Submitting
    <3>3. CASE d # c /\ e # c
      BY <2>1, <3>3 DEF Safe, SingleSubmitter, Submitting
    <3> QED
      BY <3>1, <3>2, <3>3
  <2>5. Owned'
    <3> SUFFICES ASSUME NEW d \in Closers, Submitting(d)'
                 PROVE  status'[closer'[d].pos] \in {"CLOSE_SUBMITTED", "CLOSED"}
      BY DEF Owned
    <3>1. CASE d # c
      BY <2>1, <3>1, OthersKeepOwned DEF Submitting
    <3>2. CASE d = c /\ Submitting(c)
      <4>1. p \in Positions /\ status[p] \in {"CLOSE_SUBMITTED", "CLOSED"} /\ closer'[c].pos = p
        BY <2>2, <3>2 DEF Safe, Owned, TypeInv, CloserType, Submitting, Targeted
      <4>2. ~Fails(c, p)
        BY <3>2 DEF Fails, Submitting, Targeted
      <4>3. ~Submits(c, p)
        BY <3>2 DEF Submits, Submitting
      <4> QED
        BY <1>4, <3>2, <4>1, <4>2, <4>3
        DEF CloserEffect, Orders, Records, Passes, CloseRow, SetStatus, TypeInv, RowsType
    <3>3. CASE d = c /\ p \in Positions /\ Submits(c, p)
      <4>1. closer'[c].pos = p
        BY <2>2, <3>3
      <4> QED
        BY <3>3, <4>1 DEF Submits, SetStatus, TypeInv, RowsType
    <3> QED
      BY <2>2, <3>1, <3>2, <3>3
  <2> QED
    BY <1>2, <2>1, <2>2, <2>4, <2>5
<1> QED
  BY <1>3, <1>4 DEF Effect, RowEffect, HaltEffect

LEMMA HaltsSafe ==
    ASSUME TypeInv, Safe, Effect
    PROVE  /\ ConfirmedHaltHasReduced' /\ ListedHaveRows'
           /\ \A h \in HaltWorkers, p \in Positions :
                 (halt[h].pc = "Record" /\ Oldest(p, halt[h].todo) => p \notin exposure)'
<1>1. Monotone
  BY EffectMonotone
<1>2. \A h \in HaltWorkers : halt[h].todo \subseteq Positions /\ halt[h].listed \subseteq Positions
  BY DEF TypeInv, HaltType, Halt
<1>3. \A p, q \in Positions, S \in SUBSET Positions : Oldest(p, S) /\ Oldest(q, S) => p = q
  BY DEF Oldest, Positions
<1>4. ASSUME NEW h \in HaltWorkers, halt'[h] = halt[h]
      PROVE  /\ halt'[h].pc = "Confirmed" => halt'[h].listed \intersect exposure' = {}
             /\ \A p \in halt'[h].todo \union halt'[h].listed : status'[p] \notin Rowless
             /\ \A p \in Positions : halt'[h].pc = "Record" /\ Oldest(p, halt'[h].todo) => p \notin exposure'
  <2>1. \A p \in halt[h].todo \union halt[h].listed : p \in Positions /\ status[p] \notin Rowless
    BY <1>2 DEF Safe, ListedHaveRows
  <2>2. \A p \in Positions : Oldest(p, halt[h].todo) => status[p] # "NONE"
    BY <2>1 DEF Oldest, Rowless
  <2> QED
    BY <1>1, <1>4, <2>1, <2>2 DEF Monotone, Safe, ConfirmedHaltHasReduced, ReducedBeforeRecord, Rowless
<1>5. ASSUME NEW h \in HaltWorkers, HaltEffect(h)
      PROVE  /\ halt'[h].pc = "Confirmed" => halt'[h].listed \intersect exposure' = {}
             /\ \A p \in halt'[h].todo \union halt'[h].listed : status'[p] \notin Rowless
             /\ \A p \in Positions : halt'[h].pc = "Record" /\ Oldest(p, halt'[h].todo) => p \notin exposure'
  <2>1. \A p \in halt'[h].todo \union halt'[h].listed : p \in Positions /\ status[p] \notin Rowless
    BY <1>2, <1>5 DEF HaltEffect, Safe, ListedHaveRows, OpenPositions, IsOpen, OpenStatus, Rowless
  <2>2. \A p \in halt'[h].todo \union halt'[h].listed : status'[p] \notin Rowless
    BY <1>1, <2>1 DEF Monotone
  <2>3. halt'[h].pc = "Confirmed" => halt'[h].listed \intersect exposure' = {}
    <3> SUFFICES ASSUME halt'[h].pc = "Confirmed", NEW p \in halt'[h].listed
                 PROVE  p \notin exposure'
      OBVIOUS
    <3>1. HaltPasses(h)
      BY <1>5 DEF HaltEffect, HaltSubmits, HaltOrders, HaltRecords
    <3>2. p \in Positions /\ status[p] \notin Rowless /\ p \notin OpenPositions
      BY <2>1, <3>1 DEF HaltPasses
    <3>3. status[p] = "CLOSED"
      BY <3>2 DEF OpenPositions, IsOpen, TypeInv, RowsType, Status
    <3> QED
      BY <3>1, <3>2, <3>3 DEF HaltPasses, Safe, ClosedWasReduced
  <2>4. \A p \in Positions : halt'[h].pc = "Record" /\ Oldest(p, halt'[h].todo) => p \notin exposure'
    BY <1>2, <1>3, <1>5 DEF HaltEffect, HaltSubmits, HaltOrders, HaltRecords, HaltPasses
  <2> QED
    BY <2>2, <2>3, <2>4
<1>6. \A h \in HaltWorkers : halt'[h] = halt[h] \/ HaltEffect(h)
  BY DEF Effect, RowEffect, CloserEffect, HaltEffect
<1> QED
  BY <1>4, <1>5, <1>6 DEF ConfirmedHaltHasReduced, ListedHaveRows

LEMMA InitSafe == Init => Safe
BY DEF Init, Safe, SingleSubmitter, ClosedWasReduced, ConfirmedHaltHasReduced, Owned, ReducedBeforeRecord,
   ListedHaveRows, NothingBeforeEntry, Submitting, IdleCloser, IdleHalt, Rowless

LEMMA StutterSafe == ASSUME Safe, UNCHANGED vars PROVE Safe'
BY DEF Safe, SingleSubmitter, ClosedWasReduced, ConfirmedHaltHasReduced, Owned, ReducedBeforeRecord,
   ListedHaveRows, NothingBeforeEntry, Submitting, Oldest, vars

LEMMA Safety == Spec => [](TypeInv /\ Safe)
<1>1. TypeInv /\ Safe /\ [Next]_vars => (TypeInv /\ Safe)'
  <2> SUFFICES ASSUME TypeInv, Safe, Next PROVE TypeInv' /\ Safe'
    BY StutterType, StutterSafe
  <2>1. TypeInv' /\ Effect
    BY NextEffect
  <2> QED
    BY <2>1, RowsSafe, ClosersSafe, HaltsSafe DEF Safe, ReducedBeforeRecord
<1> QED
  BY InitType, InitSafe, <1>1, PTL DEF Spec

\* The compare-and-set of requestClose serialises the force-close calls on a row.
THEOREM SingleSubmitterHolds == Spec => []SingleSubmitter
BY Safety, PTL DEF Safe

\* No row is called closed while the exchange holds its position.
THEOREM ClosedWasReducedHolds == Spec => []ClosedWasReduced
BY Safety, PTL DEF Safe

\* A confirmed halt has left nothing of what it listed on the exchange.
THEOREM ConfirmedHaltHasReducedHolds == Spec => []ConfirmedHaltHasReduced
BY Safety, PTL DEF Safe

-----------------------------------------------------------------------------
(* Part 4: refinement of CloseContract                                     *)

Holding == [p \in Positions |-> HoldingOf(p)]
RowView == [p \in Positions |-> RowOf(p)]

ContractStep == UNCHANGED <<Holding, RowView>> \/ Contract!Next

\* A step that leaves the exposure alone and moves one row as the contract allows.
LEMMA RowStepRefines ==
    ASSUME TypeInv, NEW p \in Positions, NEW new \in Status, SetStatus(p, new), UNCHANGED holdings,
           status[p] # "NONE" /\ new # "NONE",
           \/ status[p] \in OpenStatus /\ new \in OpenStatus
           \/ status[p] = "ENTERED" /\ new = "OPENED"
           \/ status[p] \in OpenStatus /\ new = "CLOSED" /\ p \notin exposure
           \/ status[p] = "CLOSED" /\ new \in OpenStatus
    PROVE  ContractStep
<1> USE DEF HoldingOf, RowOf, IsOpen
<1>1. /\ status \in [Positions -> Status] /\ status' = [status EXCEPT ![p] = new]
  BY DEF TypeInv, RowsType, SetStatus
<1>2. Holding' = Holding
  BY <1>1 DEF Holding
<1>3. CASE status[p] \in OpenStatus /\ new \in OpenStatus
  <2>1. RowView' = RowView
    BY <1>1, <1>3 DEF RowView
  <2> QED
    BY <1>2, <2>1 DEF ContractStep
<1>4. CASE status[p] = "ENTERED" /\ new = "OPENED"
  <2>1. RowView' = [RowView EXCEPT ![p] = "open"] /\ RowView[p] = "absent" /\ Holding[p] # "never"
    BY <1>1, <1>4 DEF RowView, Holding, OpenStatus
  <2>2. Contract!Record(p)
    BY <1>2, <2>1 DEF Contract!Record, Holding, RowView
  <2> QED
    BY <2>2 DEF ContractStep, Contract!Next
<1>5. CASE status[p] \in OpenStatus /\ new = "CLOSED" /\ p \notin exposure
  <2>1. RowView' = [RowView EXCEPT ![p] = "closed"] /\ RowView[p] = "open" /\ Holding[p] \in {"part", "flat"}
    BY <1>1, <1>5 DEF RowView, Holding, OpenStatus
  <2>2. Contract!Close(p)
    BY <1>2, <2>1 DEF Contract!Close, Holding, RowView
  <2> QED
    BY <2>2 DEF ContractStep, Contract!Next
<1>6. CASE status[p] = "CLOSED" /\ new \in OpenStatus
  <2>1. RowView' = [RowView EXCEPT ![p] = "open"] /\ RowView[p] = "closed"
    BY <1>1, <1>6 DEF RowView, OpenStatus
  <2>2. Contract!Reopen(p)
    BY <1>2, <2>1 DEF Contract!Reopen, Holding, RowView
  <2> QED
    BY <2>2 DEF ContractStep, Contract!Next
<1> QED
  BY <1>3, <1>4, <1>5, <1>6

\* A step that leaves the rows alone and can reduce one position.
LEMMA ExposureStepRefines ==
    ASSUME TypeInv, Safe, NEW p \in Positions, UNCHANGED status, Executes(p) \/ UNCHANGED holdings
    PROVE  ContractStep
<1> USE DEF HoldingOf, RowOf, IsOpen
<1>1. RowView' = RowView
  BY DEF RowView
<1>2. CASE Executes(p)
  <2>1. status[p] # "NONE"
    BY <1>2 DEF Safe, NothingBeforeEntry, Executes
  <2>2. p \in Held /\ p \notin exposure'
        /\ \A q \in Positions \ {p} : (q \in exposure' <=> q \in exposure) /\ (q \in remainder' <=> q \in remainder)
    BY <1>2 DEF Executes
  <2>3. PICK left \in {"part", "flat"} : Holding' = [Holding EXCEPT ![p] = left]
    <3>1. Holding' = [Holding EXCEPT ![p] = IF p \in remainder' THEN "part" ELSE "flat"]
      BY <2>1, <2>2 DEF Holding
    <3> QED
      BY <3>1
  <2>4. Holding[p] \in {"held", "part"}
    BY <2>2 DEF Holding, Held
  <2>5. Contract!Reduce(p)
    BY <1>1, <2>3, <2>4 DEF Contract!Reduce, Holding, RowView
  <2> QED
    BY <2>5 DEF ContractStep, Contract!Next
<1>3. CASE UNCHANGED holdings
  <2>1. Holding' = Holding
    BY <1>3 DEF Holding
  <2> QED
    BY <1>1, <2>1 DEF ContractStep
<1> QED
  BY <1>2, <1>3

LEMMA IdleStepRefines == ASSUME UNCHANGED <<status, holdings>> PROVE ContractStep
BY DEF ContractStep, Holding, RowView, HoldingOf, RowOf, IsOpen

LEMMA EntryRefines ==
    ASSUME TypeInv, Safe, NEW p \in Positions, status[p] = "NONE", SetStatus(p, "ENTERED"),
           exposure' = exposure \union {p}, UNCHANGED remainder
    PROVE  ContractStep
<1> USE DEF HoldingOf, RowOf, IsOpen
<1>1. /\ status \in [Positions -> Status] /\ status' = [status EXCEPT ![p] = "ENTERED"]
      /\ p \notin exposure /\ p \notin remainder
  BY DEF TypeInv, RowsType, SetStatus, Safe, NothingBeforeEntry, Held
<1>2. RowView' = RowView
  BY <1>1 DEF RowView, OpenStatus
<1>3. Holding' = [Holding EXCEPT ![p] = "held"] /\ Holding[p] = "never"
  BY <1>1 DEF Holding
<1>4. Contract!Fill(p)
  BY <1>2, <1>3 DEF Contract!Fill, Holding, RowView
<1> QED
  BY <1>4 DEF ContractStep, Contract!Next

LEMMA EffectRefines ==
    ASSUME TypeInv, Safe, Effect
    PROVE  ContractStep
<1> USE DEF OpenStatus, Status, Rowless
<1>1. CASE RowEffect
  BY <1>1, EntryRefines, RowStepRefines, ExposureStepRefines, IdleStepRefines DEF RowEffect
<1>a. ASSUME NEW p \in Positions, UNCHANGED holdings, CloseRow(p) \/ UNCHANGED status, p \notin exposure
      PROVE  ContractStep
  BY <1>a, RowStepRefines, IdleStepRefines DEF CloseRow, IsOpen
<1>2. ASSUME NEW c \in Closers, CloserEffect(c) PROVE ContractStep
  <2> DEFINE q == closer[c].pos
  <2>1. CASE q \in Positions /\ Submits(c, q)
    BY <2>1, RowStepRefines DEF Submits, Requestable
  <2>2. CASE q \in Positions /\ Orders(c, q)
    BY <2>2, ExposureStepRefines DEF Orders
  <2>3. CASE q \in Positions /\ Records(c, q)
    BY <2>3, <1>a DEF Records, Safe, ReducedBeforeRecord
  <2>4. CASE q \in Positions /\ Fails(c, q)
    <3>1. status[q] \in {"CLOSE_SUBMITTED", "CLOSED"}
      BY <2>4 DEF Fails, Safe, Owned, Submitting
    <3> QED
      BY <2>4, <3>1, RowStepRefines, IdleStepRefines DEF Fails, MarkCloseFailed
  <2>5. CASE Passes(c)
    BY <2>5, IdleStepRefines DEF Passes
  <2> QED
    BY <1>2, <2>1, <2>2, <2>3, <2>4, <2>5 DEF CloserEffect
<1>3. ASSUME NEW h \in HaltWorkers, HaltEffect(h) PROVE ContractStep
  <2>1. ASSUME NEW p \in Positions, HaltSubmits(h, p) PROVE ContractStep
    BY <2>1, RowStepRefines, IdleStepRefines DEF HaltSubmits, RequestClose, RequestCloseWins, Requestable
  <2>2. ASSUME NEW p \in Positions, HaltOrders(h, p) PROVE ContractStep
    BY <2>2, ExposureStepRefines DEF HaltOrders
  <2>3. ASSUME NEW p \in Positions, HaltRecords(h, p) PROVE ContractStep
    BY <2>3, <1>a DEF HaltRecords, Safe, ReducedBeforeRecord
  <2>4. CASE HaltPasses(h)
    BY <2>4, IdleStepRefines DEF HaltPasses
  <2> QED
    BY <1>3, <2>1, <2>2, <2>3, <2>4 DEF HaltEffect
<1> QED
  BY <1>1, <1>2, <1>3 DEF Effect

\* The closing machinery implements CloseContract: fill, flatten, record, close
\* and reopen are all that the rows and the exposure ever do.
THEOREM RefinesCloseContract == Spec => KeepsCloseContract
<1>1. Init => Contract!Init
  BY DEF Init, Contract!Init, HoldingOf, RowOf, IsOpen, OpenStatus
<1>2. TypeInv /\ Safe /\ [Next]_vars => [Contract!Next]_<<Holding, RowView>>
  BY NextEffect, EffectRefines, IdleStepRefines DEF ContractStep, vars
<1> QED
  BY <1>1, <1>2, Safety, PTL DEF Spec, KeepsCloseContract, Contract!Spec, Holding, RowView
-----------------------------------------------------------------------------
(* Part 5: the message behind a recorded timeout                           *)

Untouched(p) == status[p] \in {"OPENED", "FORCE_CLOSE_REQUESTED"}

\* Agent 6 works on a row that exists, and records each position once.
Recording ==
    /\ guard.pc # "Idle" => status[guard.pos] \notin Rowless
    /\ guard.pc = "Record" => guard.pos \notin recorded
    /\ guard.pc \in {"Mark", "Publish"} => guard.pos \in recorded
    /\ \A p \in recorded : status[p] \notin Rowless

\* A step that keeps the message of every untouched row, or strands it for one
\* of the reasons TimeoutIsPending names.
KeepsMessages ==
    /\ UNCHANGED <<recorded, guard>>
    /\ stranded \subseteq stranded'
    /\ \A p \in Positions : Untouched(p)' =>
          Untouched(p) /\ (deliveries[p] > 0 => deliveries'[p] > 0 \/ p \in stranded')

LEMMA KeepsPending ==
    ASSUME TypeInv, Recording, Monotone, TimeoutIsPending, KeepsMessages
    PROVE  Recording' /\ TimeoutIsPending'
<1>1. recorded \in SUBSET Positions /\ (guard.pc # "Idle" => guard.pos \in Positions)
  BY DEF TypeInv, RowsType, GuardType
<1>2. Recording'
  BY <1>1 DEF Recording, Monotone, KeepsMessages
<1>3. TimeoutIsPending'
  BY <1>1 DEF TimeoutIsPending, KeepsMessages, Untouched
<1> QED
  BY <1>2, <1>3

\* No closer and no halt opens or marks a row.
LEMMA WorkersMarkNothing ==
    ASSUME TypeInv, NEW p \in Positions, Untouched(p)',
           (\E c \in Closers : CloserEffect(c)) \/ (\E h \in HaltWorkers : HaltEffect(h))
    PROVE  Untouched(p)
<1> USE DEF Untouched, SetStatus, TypeInv, RowsType
<1>1. ASSUME NEW c \in Closers, CloserEffect(c) PROVE Untouched(p)
  BY <1>1 DEF CloserEffect, Submits, Orders, Records, CloseRow, Fails, MarkCloseFailed, Passes
<1>2. ASSUME NEW h \in HaltWorkers, HaltEffect(h) PROVE Untouched(p)
  BY <1>2 DEF HaltEffect, HaltSubmits, RequestClose, HaltOrders, HaltRecords, CloseRow, HaltPasses
<1> QED
  BY <1>1, <1>2

\* A call that throws takes the last delivery of no message it does not strand.
LEMMA ThrowStrandsLast ==
    ASSUME TypeInv, NEW c \in Closers, NEW p \in Positions, Throws(c), closer[c].pos \in Positions,
           deliveries[p] > 0
    PROVE  (deliveries'[p] > 0 \/ p \in stranded') /\ stranded \subseteq stranded'
<1> DEFINE q == closer[c].pos
<1>1. deliveries \in [Positions -> 0..MaxDeliveries]
  BY DEF TypeInv, RowsType, MessagesTyped
<1>2. CASE OnTimeout(c) /\ q = p
  <2>1. /\ deliveries' = [deliveries EXCEPT ![p] = @ - 1]
        /\ stranded' = IF deliveries[p] = 1 THEN stranded \union {p} ELSE stranded
    BY <1>2 DEF Throws
  <2>2. deliveries[p] \in Nat /\ deliveries'[p] = deliveries[p] - 1
    BY <1>1, <2>1
  <2> QED
    BY <2>1, <2>2
<1>3. CASE ~(OnTimeout(c) /\ q = p)
  <2>1. deliveries'[p] = deliveries[p] /\ stranded \subseteq stranded'
    BY <1>1, <1>3 DEF Throws
  <2> QED
    BY <2>1
<1> QED
  BY <1>2, <1>3

LEMMA ThrowStrandsMore ==
    ASSUME NEW c \in Closers, Throws(c)
    PROVE  stranded \subseteq stranded'
BY DEF Throws

\* A call that returns acknowledges the message of its own position only.
LEMMA ReturnTakesOwn ==
    ASSUME TypeInv, NEW c \in Closers, NEW p \in Positions, Acknowledges(c), closer[c].pos # p
    PROVE  deliveries'[p] = deliveries[p]
BY DEF Acknowledges, TypeInv, RowsType, MessagesTyped

LEMMA CloserKeepsMessages ==
    ASSUME TypeInv, Safe, NEW c \in Closers, CloserActs(c)
    PROVE  KeepsMessages
<1>1. CloserEffect(c)
  BY CloserStepEffect
<1>2. UNCHANGED <<recorded, guard>>
  BY DEF CloserActs, CloserStep, ListOpenForUser, SubmitClose, LoadCredentials, ClosePosition, RecordClose,
     RecordOrder, CloseFailed, KillNext, KillReport, QueryFails, AccountInactive, CloserCrash, StartKillSwitch,
     StartTimeoutClose, StartDirectClose, rows
<1> DEFINE q == closer[c].pos
           Keeps(p) == deliveries'[p] > 0 \/ p \in stranded'
<1>3. closer[c].pc \in Targeted => q \in Positions
  BY DEF TypeInv, CloserType
<1>4. CASE UNCHANGED messages
  BY <1>1, <1>2, <1>4, WorkersMarkNothing DEF KeepsMessages
<1>5. CASE Throws(c) /\ closer[c].pc \in Targeted
  <2>1. stranded \subseteq stranded'
    BY <1>5, ThrowStrandsMore
  <2>2. \A p \in Positions : deliveries[p] > 0 => Keeps(p)
    BY <1>3, <1>5, ThrowStrandsLast
  <2> QED
    BY <1>1, <1>2, <2>1, <2>2, WorkersMarkNothing DEF KeepsMessages
<1>6. ASSUME Acknowledges(c), closer[c].pc \in Targeted, stranded \subseteq stranded',
             \A p \in Positions : p = q /\ Untouched(p)' => p \in stranded' \/ ~OnTimeout(c)
      PROVE  KeepsMessages
  <2>1. ASSUME NEW p \in Positions, Untouched(p)', deliveries[p] > 0 PROVE Keeps(p)
    <3>1. CASE q = p /\ OnTimeout(c)
      BY <1>6, <2>1, <3>1
    <3>2. CASE q # p
      BY <1>6, <2>1, <3>2, ReturnTakesOwn
    <3>3. CASE ~OnTimeout(c)
      BY <1>6, <2>1, <3>3 DEF Acknowledges
    <3> QED
      BY <3>1, <3>2, <3>3
  <2> QED
    BY <1>1, <1>2, <1>6, <2>1, WorkersMarkNothing DEF KeepsMessages
<1>7. CASE ListOpenForUser(c)
  <2>1. CASE status[q] \in Requestable
    BY <1>4, <1>7, <2>1 DEF ListOpenForUser
  <2>2. CASE status[q] \notin Requestable
    <3>1. \A p \in Positions : p = q => ~Untouched(p)'
      BY <1>7, <2>2 DEF ListOpenForUser, rows, Untouched, Requestable, OpenStatus
    <3> QED
      BY <1>6, <1>7, <2>2, <3>1 DEF ListOpenForUser, Returns, Targeted
  <2> QED
    BY <2>1, <2>2
<1>8. CASE SubmitClose(c)
  <2>1. CASE RequestCloseWins(q)
    BY <1>4, <1>8, <2>1 DEF SubmitClose, RequestCloseWins, RequestCloseLoses, RequestCloseRaises
  <2>2. CASE RequestCloseLoses(q)
    <3>1. /\ \A p \in Positions : p = q => ~Untouched(p)'
          /\ Returns(c) /\ closer[c].pc = "Request"
      BY <1>8, <2>2 DEF SubmitClose, RequestClose, RequestCloseWins, RequestCloseLoses, RequestCloseRaises,
         Untouched, Requestable, OpenStatus
    <3> QED
      BY <1>6, <3>1 DEF Returns, Targeted
  <2>3. CASE RequestCloseRaises(q)
    BY <1>5, <1>8, <2>3 DEF SubmitClose, RequestCloseWins, RequestCloseLoses, RequestCloseRaises, Targeted
  <2> QED
    BY <2>1, <2>2, <2>3 DEF RequestCloseWins, RequestCloseLoses, RequestCloseRaises
<1>9. CASE LoadCredentials(c)
  BY <1>4, <1>5, <1>9 DEF LoadCredentials, Targeted
<1>10. CASE ClosePosition(c)
  BY <1>4, <1>10 DEF ClosePosition
<1>11. CASE RecordClose(c)
  BY <1>4, <1>11 DEF RecordClose
<1>12. CASE RecordOrder(c)
  <2>1. CASE Returns(c)
    <3>1. Submitting(c) /\ UNCHANGED status
      BY <1>12 DEF RecordOrder, Submitting, rows
    <3>2. \A p \in Positions : p = q => ~Untouched(p)'
      BY <3>1 DEF Safe, Owned, Untouched
    <3> QED
      BY <1>6, <1>12, <2>1, <3>2 DEF RecordOrder, Returns, Targeted
  <2> QED
    BY <1>4, <1>12, <2>1 DEF RecordOrder
<1>13. CASE CloseFailed(c)
  BY <1>5, <1>13 DEF CloseFailed, Targeted
<1>14. CASE KillNext(c) \/ KillReport(c) \/ StartKillSwitch(c) \/ CloserCrash(c)
  BY <1>4, <1>14 DEF KillNext, KillReport, StartKillSwitch, CloserCrash
<1>15. CASE QueryFails(c)
  BY <1>5, <1>15 DEF QueryFails, Targeted
<1>16. CASE AccountInactive(c)
  BY <1>6, <1>16 DEF AccountInactive, Targeted
<1>17. ASSUME NEW r \in Positions, StartTimeoutClose(c, r) \/ StartDirectClose(c, r)
       PROVE  KeepsMessages
  BY <1>4, <1>17 DEF StartTimeoutClose, StartDirectClose
<1> QED
  BY <1>7, <1>8, <1>9, <1>10, <1>11, <1>12, <1>13, <1>14, <1>15, <1>16, <1>17 DEF CloserActs, CloserStep

LEMMA HaltKeepsMessages ==
    ASSUME TypeInv, NEW h \in HaltWorkers, HaltStep(h) \/ HaltCrash(h)
    PROVE  KeepsMessages
<1>1. HaltEffect(h)
  BY HaltStepEffect
<1>2. UNCHANGED <<recorded, messages, guard>>
  BY DEF HaltStep, HaltCrash, StartHalt, HaltCancel, HaltList, HaltRequest, HaltClosePosition,
     HaltRecord, HaltRelist, HaltGivesUp, rows
<1> QED
  BY <1>1, <1>2, WorkersMarkNothing DEF KeepsMessages

\* Agent 6 marks a row on its way to publishing, publishes a full message, and
\* strands what it leaves between the two.
LEMMA RowsKeepPending ==
    ASSUME TypeInv, Recording, Monotone, TimeoutIsPending, RowActs
    PROVE  Recording' /\ TimeoutIsPending'
<1> USE DEF Untouched
<1>1. /\ recorded \in SUBSET Positions /\ (guard.pc # "Idle" => guard.pos \in Positions)
      /\ status \in [Positions -> Status]
      /\ guard.pc \in GuardPc
  BY DEF TypeInv, RowsType, GuardType, Guard
<1>2. ASSUME NEW p \in Positions, EntryFills(p) \/ OpenPosition(p)
      PROVE  Recording' /\ TimeoutIsPending'
  <2>1. p \notin recorded /\ UNCHANGED <<recorded, messages, guard>>
    BY <1>2 DEF EntryFills, OpenPosition, Recording, Rowless
  <2>2. \A q \in recorded : status'[q] = status[q]
    BY <1>1, <1>2, <2>1 DEF EntryFills, OpenPosition, SetStatus
  <2>3. Recording'
    BY <1>1, <2>1, <2>2 DEF Recording, Monotone
  <2> QED
    BY <2>1, <2>2, <2>3 DEF TimeoutIsPending
<1>3. ASSUME NEW p \in Positions, StopOrTargetFills(p) PROVE Recording' /\ TimeoutIsPending'
  BY <1>3 DEF StopOrTargetFills, rows, Recording, TimeoutIsPending
<1>4. ASSUME NEW p \in Positions, TimeoutCandidate(p) PROVE Recording' /\ TimeoutIsPending'
  BY <1>4 DEF TimeoutCandidate, rows, Recording, TimeoutIsPending, Rowless
<1>5. CASE RecordTimeoutEvent
  <2>1. /\ guard.pc = "Record" /\ guard'.pc = "Mark" /\ guard'.pos = guard.pos
        /\ recorded' = recorded \union {guard.pos} /\ UNCHANGED <<status, messages>>
    BY <1>5 DEF RecordTimeoutEvent, TypeInv, GuardType, Guard
  <2> QED
    BY <2>1 DEF Recording, TimeoutIsPending
<1>6. CASE MarkForceClose
  <2>1. guard.pc = "Mark" /\ UNCHANGED <<recorded, deliveries>>
    BY <1>6 DEF MarkForceClose
  <2>2. CASE UNCHANGED status /\ guard' = IdleGuard /\ stranded' = stranded \union {guard.pos}
    BY <2>1, <2>2 DEF Recording, TimeoutIsPending, IdleGuard
  <2>3. CASE guard' = [guard EXCEPT !.pc = "Publish"] /\ UNCHANGED stranded
    <3>1. guard'.pc = "Publish" /\ guard'.pos = guard.pos
      BY <2>3 DEF TypeInv, GuardType, Guard
    <3>2. \A q \in Positions \ {guard.pos} : status'[q] = status[q]
      BY <1>1, <1>6 DEF MarkForceClose, SetStatus
    <3>3. Recording'
      BY <1>1, <2>1, <3>1 DEF Recording, Monotone
    <3>4. TimeoutIsPending'
      BY <1>1, <2>1, <2>3, <3>1, <3>2 DEF TimeoutIsPending
    <3> QED
      BY <3>3, <3>4
  <2> QED
    BY <1>6, <2>2, <2>3 DEF MarkForceClose
<1>7. CASE PublishTimeout
  <2>1. /\ guard.pc = "Publish" /\ guard' = IdleGuard /\ UNCHANGED <<status, recorded, stranded>>
        /\ deliveries' = [deliveries EXCEPT ![guard.pos] = MaxDeliveries]
    BY <1>7 DEF PublishTimeout, rows
  <2>2. /\ deliveries'[guard.pos] > 0
        /\ \A q \in Positions \ {guard.pos} : deliveries'[q] = deliveries[q]
    BY <1>1, <2>1 DEF TypeInv, RowsType, MessagesTyped
  <2> QED
    BY <1>1, <2>1, <2>2 DEF Recording, TimeoutIsPending, IdleGuard
<1>8. CASE GuardStops
  <2>1. /\ guard' = IdleGuard /\ UNCHANGED <<status, recorded, deliveries>>
        /\ stranded \subseteq stranded'
        /\ guard.pc \in {"Mark", "Publish"} => guard.pos \in stranded'
    BY <1>8 DEF GuardStops, rows
  <2> QED
    BY <2>1 DEF Recording, TimeoutIsPending, IdleGuard
<1> QED
  BY <1>2, <1>3, <1>4, <1>5, <1>6, <1>7, <1>8 DEF RowActs, GuardStep

\* Whatever fails, a recorded timeout that no close has reached has its message
\* on its way, or was stranded in one of the four ways TimeoutIsPending names.
THEOREM TimeoutIsPendingHolds == Spec => []TimeoutIsPending
<1>1. Init => Recording /\ TimeoutIsPending
  BY DEF Init, Recording, TimeoutIsPending, IdleGuard
<1>2. TypeInv /\ Safe /\ Recording /\ TimeoutIsPending /\ [Next]_vars => (Recording /\ TimeoutIsPending)'
  <2>1. ASSUME TypeInv, Safe, Recording, TimeoutIsPending, Next PROVE (Recording /\ TimeoutIsPending)'
    <3>1. Monotone
      BY <2>1, NextEffect, EffectMonotone
    <3> QED
      BY <2>1, <3>1, NextActs, RowsKeepPending, CloserKeepsMessages, HaltKeepsMessages, KeepsPending
  <2>2. ASSUME Recording, TimeoutIsPending, UNCHANGED vars PROVE (Recording /\ TimeoutIsPending)'
    BY <2>2 DEF Recording, TimeoutIsPending, vars
  <2> QED
    BY <2>1, <2>2
<1> QED
  BY <1>1, <1>2, Safety, PTL DEF Spec
=============================================================================
