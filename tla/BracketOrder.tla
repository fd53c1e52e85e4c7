---------------------------- MODULE BracketOrder ----------------------------
(***************************************************************************)
(* From a signal to a protected position: the size of the order, the calls *)
(* that place it on either exchange, the rollback of an entry that cannot  *)
(* be protected and the audit of every call, while an emergency halt       *)
(* cancels the orders of the account.  Prices and quantities are whole     *)
(* numbers of a smallest unit; division rounds down, as the floor of the   *)
(* code does.                                                              *)
(***************************************************************************)
EXTENDS Integers, FiniteSetsExt

CONSTANTS
    Venues,      \* "BINANCE": three orders; "BYBIT": one that carries its protection
    Prices,      \* prices the market and the levels of a signal may have
    Equities,    \* equity of the account, in USDT
    NetShare,    \* percent of it risked on a trade, net of fees and slippage
    Leverage,
    Step, MinQty, MaxQty, MinNotional, Tick,    \* the symbol's trading rule
    Faults,      \* kinds of fault that may happen
    MaxFaults    \* bound: faults in a behaviour

\* reject: a call fails; reply: it is done and its answer lost; query: a statement fails;
\* crash: the process of the executor stops.
FaultKinds == {"reject", "reply", "query", "crash"}
ASSUME VenuesAssumption == Venues \subseteq {"BINANCE", "BYBIT"}
ASSUME RuleAssumption ==
    /\ Prices \subseteq Nat \ {0} /\ Equities \subseteq Nat /\ NetShare \in 0..100 /\ Leverage \in Nat \ {0}
    /\ {Step, MinQty, MaxQty, Tick} \subseteq Nat \ {0} /\ MinQty <= MaxQty /\ MinNotional \in Nat
ASSUME BracketFaultsAssumption == Faults \subseteq FaultKinds /\ MaxFaults \in Nat

VARIABLES
    signal,     \* what is traded: venue, direction, levels, price and equity
    order,      \* the calculated order, or none
    call,       \* where the executor is in its calls
    book,       \* the exchange: quantity held, stop loss and take profit resting
    fill,       \* quantity the entry was executed for
    answer,     \* what placeBracketOrder told the executor
    row,        \* whether the executor has opened the row of the position
    halt,       \* where an emergency halt is: "Idle", "Listed", "Done"
    canceled,   \* history: the halt cancelled the orders between the entry and the answer
    partly,     \* history: the reducing order of the rollback was filled in part
    suffered,   \* history: the faults, each with the call it hit
    budget      \* faults still allowed

vars    == <<signal, order, call, book, fill, answer, row, halt, canceled, partly, suffered, budget>>
history == <<canceled, partly, suffered>>

None    == [none |-> TRUE]
Signals == [venue : Venues, direction : {"LONG", "SHORT"}, min : Prices, max : Prices,
            stop : Prices, take : Prices, price : Prices, equity : Equities]
Order   == [qty : 1..MaxQty, stop : Nat, take : Nat, margin : Nat]
Calls   == {"Size", "Margin", "Leverage", "Entry", "Stop", "Take", "Confirm", "Cancel", "Reduce",
            "Audit", "AuditError", "Open", "Done"}
Book    == [qty : 0..MaxQty, stop : BOOLEAN, take : BOOLEAN]
Flat    == [qty |-> 0, stop |-> FALSE, take |-> FALSE]
Answer  == [placed : {TRUE}, qty : 1..MaxQty] \union [placed : {FALSE}]

TypeOK ==
    /\ signal \in Signals /\ order \in Order \union {None}
    /\ call \in Calls /\ book \in Book /\ fill \in 0..MaxQty /\ answer \in Answer \union {None}
    /\ row \in BOOLEAN /\ halt \in {"Idle", "Listed", "Done"} /\ canceled \in BOOLEAN /\ partly \in BOOLEAN
    /\ suffered \in SUBSET (FaultKinds \X Calls) /\ budget \in 0..MaxFaults

\* IncomingSignalPayloadSchema: the levels lie on their sides of the entry range.
WellFormed(s) ==
    /\ s.min < s.max
    /\ s.direction = "LONG"  => s.stop < s.min /\ s.take > s.max
    /\ s.direction = "SHORT" => s.stop > s.max /\ s.take < s.min
\* isPriceInsideEntryRange.
InsideRange(s) == s.price \in s.min..s.max

Init ==
    /\ signal \in {s \in Signals : WellFormed(s) /\ InsideRange(s)}
    /\ order = None /\ call = "Size"
    /\ book = Flat /\ fill = 0
    /\ answer = None /\ row = FALSE /\ halt = "Idle"
    /\ canceled = FALSE /\ partly = FALSE
    /\ suffered = {} /\ budget = MaxFaults

(***************************************************************************)
(* The size.                                                               *)
(***************************************************************************)
Between(a, b) == IF a >= b THEN a - b ELSE b - a
Distance(s) == Between(s.price, s.stop)
NetRisk(s)  == (s.equity * NetShare) \div 100
ByNotional(s) == MinNotional \div s.price
\* Mutant: the notional bound is taken in money, not in quantity.
BoundedByMoney(s) == Min({MaxQty, Max({NetRisk(s) \div Distance(s), MinNotional, MinQty})})
\* The quantity that risks the share, raised to the minimum notional, within the symbol's bounds.
Bounded(s) == Min({MaxQty, Max({NetRisk(s) \div Distance(s), ByNotional(s), MinQty})})
RoundToStep(qty)   == (qty \div Step) * Step
RoundToTick(price) == ((2 * price + Tick) \div (2 * Tick)) * Tick
Qty(s) == RoundToStep(Bounded(s))
\* Mutant: the order is sent whatever rounding leaves of it.
SizeUnchecked ==
    /\ call = "Size"
    /\ order' = [qty |-> Qty(signal), stop |-> RoundToTick(signal.stop), take |-> RoundToTick(signal.take),
                 margin |-> (Qty(signal) * signal.price) \div Leverage]
    /\ call' = "Margin"
    /\ UNCHANGED <<signal, book, fill, answer, row, halt, history, budget>>

Goto(c) == call' = c
Size ==
    /\ call = "Size"
    /\ IF signal.equity = 0 \/ Qty(signal) = 0
       THEN Goto("Done") /\ UNCHANGED order
       ELSE /\ order' = [qty |-> Qty(signal), stop |-> RoundToTick(signal.stop), take |-> RoundToTick(signal.take),
                         margin |-> (Qty(signal) * signal.price) \div Leverage]
            /\ Goto("Margin")
    /\ UNCHANGED <<signal, book, fill, answer, row, halt, history, budget>>

\* REJECTED_BY_BALANCE; nothing else is open here, so the free balance is the equity.
CheckMargin ==
    /\ call = "Margin"
    /\ Goto(IF signal.equity < order.margin THEN "Done" ELSE "Leverage")
    /\ UNCHANGED <<signal, order, book, fill, answer, row, halt, history, budget>>

SetLeverage ==
    /\ call = "Leverage"
    /\ Goto("Entry")
    /\ UNCHANGED <<signal, order, book, fill, answer, row, halt, history, budget>>

(***************************************************************************)
(* The calls of placeBracketOrder.  A trigger on the wrong side of the     *)
(* price is refused by the exchange, and so is an order that only reduces  *)
(* when nothing is held.                                                   *)
(***************************************************************************)
StopIsSound == IF signal.direction = "LONG" THEN order.stop < signal.price ELSE order.stop > signal.price
TakeIsSound == IF signal.direction = "LONG" THEN order.take > signal.price ELSE order.take < signal.price
Accepts(c) ==
    CASE c = "Entry"  -> signal.venue = "BYBIT" => StopIsSound /\ TakeIsSound
      [] c = "Stop"   -> StopIsSound /\ book.qty > 0
      [] c = "Take"   -> TakeIsSound /\ book.qty > 0
      [] c = "Reduce" -> book.qty > 0
      [] OTHER        -> TRUE
\* A market order may be filled in part; Bybit's carries its protection.
Fills(n) ==
    /\ fill' = n
    /\ book' = [qty |-> n, stop |-> signal.venue = "BYBIT", take |-> signal.venue = "BYBIT"]
\* What is left after a reducing market order for n was filled, all or part of it; its fill is not confirmed.
Remainders(n) == {IF m = book.qty THEN Flat ELSE [book EXCEPT !.qty = @ - m] : m \in 1..Min({n, book.qty})}
Effect(c) ==
    CASE c = "Entry"  -> /\ \E n \in 1..order.qty : Fills(n)
                         /\ UNCHANGED partly
      [] c = "Reduce" -> /\ book' \in Remainders(order.qty)
                         /\ partly' = (partly \/ book'.qty > 0)
                         /\ UNCHANGED fill
      [] OTHER        -> /\ book' = CASE c = "Stop"   -> [book EXCEPT !.stop = TRUE]
                                       [] c = "Take"   -> [book EXCEPT !.take = TRUE]
                                       [] c = "Cancel" -> [book EXCEPT !.stop = FALSE, !.take = FALSE]
                         /\ UNCHANGED <<fill, partly>>

\* Mutant: the take profit is not placed.
AfterWithoutTake(c) ==
    CASE c = "Entry"  -> IF signal.venue = "BINANCE" THEN "Stop" ELSE "Confirm"
      [] c = "Stop"   -> "Confirm"
      [] c = "Cancel" -> "Reduce"
      [] OTHER        -> "AuditError"
After(c) ==
    CASE c = "Entry"  -> IF signal.venue = "BINANCE" THEN "Stop" ELSE "Confirm"
      [] c = "Stop"   -> "Take"
      [] c = "Take"   -> "Confirm"
      [] c = "Cancel" -> "Reduce"
      [] c = "Reduce" -> "AuditError"
\* Mutant: the rollback ends when the cancellation of the orders fails.
OnErrorEndsRollback(c) ==
    IF signal.venue = "BINANCE" /\ c \in {"Stop", "Take", "Confirm"} THEN "Cancel" ELSE "AuditError"
\* An error after Binance's entry rolls it back; the rollback goes on when the cancellation fails.
OnError(c) ==
    IF signal.venue = "BINANCE" /\ c \in {"Stop", "Take", "Confirm"} THEN "Cancel"
    ELSE IF c = "Cancel" THEN "Reduce" ELSE "AuditError"

Call(c) ==
    /\ call = c
    /\ IF Accepts(c) THEN Effect(c) /\ Goto(After(c)) ELSE Goto(OnError(c)) /\ UNCHANGED <<book, fill, partly>>
    /\ UNCHANGED <<signal, order, answer, row, halt, canceled, suffered, budget>>
PlaceEntry  == Call("Entry")
PlaceStop   == Call("Stop")
PlaceTake   == Call("Take")
CancelAll   == Call("Cancel")
ReduceEntry == Call("Reduce")

\* The fill must be confirmed.  Binance's answer to the entry carries the executed quantity; where it
\* does not, what was ordered is taken for it.  Bybit is asked for the executions of the order: of
\* several the first one found is taken for the whole.
Confirmed == IF signal.venue = "BINANCE" THEN {fill, order.qty} ELSE 1..fill
ConfirmFill ==
    /\ call = "Confirm"
    /\ \/ /\ \E n \in Confirmed : answer' = [placed |-> TRUE, qty |-> n]
          /\ Goto("Audit")
       \/ Goto(OnError("Confirm")) /\ UNCHANGED answer
    /\ UNCHANGED <<signal, order, book, fill, row, halt, history, budget>>

(***************************************************************************)
(* AuditedExecutionClient: the audit of a call that succeeded may fail,    *)
(* and the caller is then told that the call failed.                       *)
(***************************************************************************)
AuditOk ==
    /\ call = "Audit"
    /\ Goto("Open")
    /\ UNCHANGED <<signal, order, book, fill, answer, row, halt, history, budget>>
AuditError ==
    /\ call = "AuditError"
    /\ answer' = [placed |-> FALSE] /\ Goto("Done")
    /\ UNCHANGED <<signal, order, book, fill, row, halt, history, budget>>
\* Back in the executor, which opens the row of the position (OrderEntry).
OpenPosition ==
    /\ call = "Open"
    /\ row' = TRUE /\ Goto("Done")
    /\ UNCHANGED <<signal, order, book, fill, answer, halt, history, budget>>

(***************************************************************************)
(* The emergency halt: cancel, list the positions of the database, close   *)
(* them.  A position whose row is not there yet is not closed, nor is one  *)
(* whose status the schema refuses to change (PositionLifecycle).          *)
(***************************************************************************)
HaltCancels ==
    /\ halt = "Idle"
    /\ halt' = "Listed"
    /\ book' = [book EXCEPT !.stop = FALSE, !.take = FALSE]
    /\ canceled' = (canceled \/ book.stop \/ book.take)
    /\ UNCHANGED <<signal, order, call, fill, answer, row, partly, suffered, budget>>
HaltCloses ==
    /\ halt = "Listed"
    /\ halt' = "Done"
    /\ \/ row /\ book.qty > 0 /\ book' \in Remainders(answer.qty)
       \/ UNCHANGED book
    /\ UNCHANGED <<signal, order, call, fill, answer, row, history, budget>>

\* The market reaches a level: the position is closed and its other order goes with it.
LevelReached ==
    /\ book.qty > 0 /\ (book.stop \/ book.take)
    /\ book' = Flat
    /\ UNCHANGED <<signal, order, call, fill, answer, row, halt, history, budget>>

(***************************************************************************)
(* Faults.                                                                 *)
(***************************************************************************)
Suffers(kind) ==
    /\ kind \in Faults /\ budget > 0 /\ budget' = budget - 1
    /\ suffered' = suffered \union {<<kind, call>>}
Remote == {"Leverage", "Entry", "Stop", "Take", "Confirm", "Cancel", "Reduce"}

CallFails ==
    /\ call \in Remote /\ Suffers("reject")
    /\ Goto(OnError(call))
    /\ UNCHANGED <<signal, order, book, fill, answer, row, halt, canceled, partly>>
ReplyLost ==
    /\ call \in {"Entry", "Stop", "Take", "Cancel", "Reduce"} /\ Accepts(call) /\ Suffers("reply")
    /\ Effect(call) /\ Goto(OnError(call))
    /\ UNCHANGED <<signal, order, answer, row, halt, canceled>>
AuditFails ==
    /\ call \in {"Audit", "AuditError"} /\ Suffers("query")
    /\ IF call = "Audit" THEN Goto("AuditError") /\ UNCHANGED answer
       ELSE answer' = [placed |-> FALSE] /\ Goto("Done")
    /\ UNCHANGED <<signal, order, book, fill, row, halt, canceled, partly>>
Crash ==
    /\ call # "Done" /\ Suffers("crash")
    /\ Goto("Done")
    /\ UNCHANGED <<signal, order, book, fill, answer, row, halt, canceled, partly>>

Next ==
    \/ Size \/ CheckMargin \/ SetLeverage
    \/ PlaceEntry \/ PlaceStop \/ PlaceTake \/ ConfirmFill \/ CancelAll \/ ReduceEntry
    \/ AuditOk \/ AuditError \/ OpenPosition
    \/ HaltCancels \/ HaltCloses \/ LevelReached
    \/ CallFails \/ ReplyLost \/ AuditFails \/ Crash

Spec == Init /\ [][Next]_vars

(***************************************************************************)
(* Properties.                                                             *)
(***************************************************************************)
\* What an order would lose at the stop it carries is within the share of the equity the policy risks,
\* unless the exchange's minimum itself is more, but for the rounding of the stop to a tick, which may
\* take half a tick more of each unit: no other bound or rounding raises it.
Loss == order.qty * Between(signal.price, order.stop)
RiskIsHeld ==
    order # None =>
        2 * Loss <= 2 * Max({NetRisk(signal), Max({ByNotional(signal), MinQty}) * Distance(signal)}) + order.qty * Tick

\* A position that the executor was told is placed or has a row of, and that is still there, has its stop loss and
\* its take profit, however the fill, the calls and the market ordered themselves, unless a halt
\* cancelled the orders of the account; and its row never claims more than the entry was executed for,
\* but where Binance's answer names no quantity and the one that was ordered is taken.
PlacedIsProtected ==
    (answer # None /\ answer.placed /\ (call \in {"Audit", "Open"} \/ row) /\ book.qty > 0) =>
        /\ answer.qty <= fill \/ (signal.venue = "BINANCE" /\ answer.qty = order.qty)
        /\ canceled \/ (book.stop /\ book.take)

\* A call that has ended and leaves a position without a stop loss is explained by a halt, by a
\* stopped process, by an entry whose answer was lost, or by the reducing order of the rollback, which
\* was refused or filled in part: one failing call after the entry is otherwise always covered.
Unprotected == call = "Done" /\ book.qty > 0 /\ ~book.stop
NakedIsExplained ==
    Unprotected =>
        \/ canceled \/ \E c \in Calls : <<"crash", c>> \in suffered
        \/ <<"reply", "Entry">> \in suffered
        \/ <<"reject", "Reduce">> \in suffered \/ partly
=============================================================================
