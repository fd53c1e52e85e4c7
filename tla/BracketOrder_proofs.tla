------------------------ MODULE BracketOrder_proofs ------------------------
(***************************************************************************)
(* Proofs about BracketOrder and about MarketPipeline, whose signals the   *)
(* orders are made of.  Of the first: a placed position is protected, an   *)
(* unprotected one is explained, and what an order risks is bounded, for   *)
(* every trading rule, set of prices and number of faults.  Of the second: *)
(* a vector that hides an old price is explained, and no idea, row or      *)
(* event is lost between the sources and the signals, for every value of   *)
(* its constants.                                                          *)
(***************************************************************************)
EXTENDS BracketOrder, MarketPipeline, TLAPS

(***************************************************************************)
(* Arithmetic of the size.                                                 *)
(***************************************************************************)
LEMMA MaxOfThree ==
    ASSUME NEW a \in Int, NEW b \in Int, NEW c \in Int
    PROVE  Max({a, b, c}) \in {a, b, c} /\ Max({a, b, c}) >= a /\ Max({a, b, c}) >= b /\ Max({a, b, c}) >= c
<1>1. \E x \in {a, b, c} : \A y \in {a, b, c} : x >= y
  <2>1. CASE a >= b /\ a >= c
    BY <2>1
  <2>2. CASE b >= a /\ b >= c
    BY <2>2
  <2>3. CASE c >= a /\ c >= b
    BY <2>3
  <2> QED
    BY <2>1, <2>2, <2>3
<1> QED
  BY <1>1 DEF Max

LEMMA MaxOfTwo ==
    ASSUME NEW a \in Int, NEW b \in Int
    PROVE  Max({a, b}) \in {a, b} /\ Max({a, b}) >= a /\ Max({a, b}) >= b
<1>1. \E x \in {a, b} : \A y \in {a, b} : x >= y
  <2>1. CASE a >= b
    BY <2>1
  <2>2. CASE b >= a
    BY <2>2
  <2> QED
    BY <2>1, <2>2
<1> QED
  BY <1>1 DEF Max

LEMMA MinOfTwo ==
    ASSUME NEW a \in Int, NEW b \in Int
    PROVE  Min({a, b}) \in {a, b} /\ Min({a, b}) <= a /\ Min({a, b}) <= b
<1>1. \E x \in {a, b} : \A y \in {a, b} : x <= y
  <2>1. CASE a >= b
    BY <2>1
  <2>2. CASE b >= a
    BY <2>2
  <2> QED
    BY <2>1, <2>2
<1> QED
  BY <1>1 DEF Min

\* Division rounds down.
LEMMA Division ==
    ASSUME NEW n \in Nat, NEW d \in Nat \ {0}
    PROVE  n \div d \in Nat /\ (n \div d) * d <= n /\ n < (n \div d) * d + d
OBVIOUS

LEMMA Grows ==
    ASSUME NEW m \in Nat, NEW n \in Nat, NEW d \in Nat, m <= n
    PROVE  m * d <= n * d
<1>1. PICK k \in Nat : n = m + k
  <2>1. n - m \in Nat /\ n = m + (n - m)
    OBVIOUS
  <2> QED
    BY <2>1
<1>2. n * d = m * d + k * d
  BY <1>1
<1>3. k * d \in Nat /\ m * d \in Nat
  BY <1>1
<1> QED
  BY <1>2, <1>3

Levels(s) == WellFormed(s) /\ InsideRange(s)

LEMMA SizeFacts ==
    ASSUME NEW s \in Signals, Levels(s)
    PROVE  /\ Distance(s) \in Nat \ {0} /\ NetRisk(s) \in Nat /\ ByNotional(s) \in Nat /\ MinQty \in Nat
           /\ NetRisk(s) \div Distance(s) \in Nat
<1>1. s.price \in Nat \ {0} /\ s.stop \in Nat /\ s.min \in Nat /\ s.max \in Nat /\ s.equity \in Nat
  BY RuleAssumption DEF Signals
<1>2. s.direction = "LONG" \/ s.direction = "SHORT"
  BY DEF Signals
<1>3. Distance(s) \in Nat \ {0}
  BY <1>1, <1>2 DEF Levels, WellFormed, InsideRange, Distance, Between
<1>4. s.equity * NetShare \in Nat /\ MinQty \in Nat /\ MinNotional \in Nat
  BY <1>1, RuleAssumption
<1>5. NetRisk(s) \in Nat
  BY <1>4, Division DEF NetRisk
<1>6. ByNotional(s) \in Nat
  BY <1>1, <1>4, Division DEF ByNotional
<1> QED
  BY <1>3, <1>4, <1>5, <1>6, Division

\* The size of an order is within the bounds it was cut to.
LEMMA SizeIsBounded ==
    ASSUME NEW s \in Signals, Levels(s)
    PROVE  /\ Qty(s) \in 0..MaxQty
           /\ Qty(s) <= NetRisk(s) \div Distance(s) \/ Qty(s) <= ByNotional(s) \/ Qty(s) <= MinQty
<1>1. PICK a \in Nat, b \in Nat, c \in Nat : a = NetRisk(s) \div Distance(s) /\ b = ByNotional(s) /\ c = MinQty
  BY SizeFacts
<1>2. PICK top : top = Max({a, b, c})
  OBVIOUS
<1>3. top \in {a, b, c}
  <2>1. a \in Int /\ b \in Int /\ c \in Int
    OBVIOUS
  <2>2. Max({a, b, c}) \in {a, b, c}
    BY <2>1, MaxOfThree, Zenon
  <2> QED
    BY <1>2, <2>2
<1>4. MaxQty \in Nat /\ Step \in Nat \ {0}
  BY RuleAssumption
<1>5. PICK cut : cut = Min({MaxQty, top})
  OBVIOUS
<1>6. cut \in Nat /\ cut <= MaxQty /\ cut <= top
  BY <1>3, <1>4, <1>5, MinOfTwo
<1>7. Bounded(s) = cut
  BY <1>1, <1>2, <1>5 DEF Bounded
<1>8. cut \div Step \in Nat /\ (cut \div Step) * Step <= cut
  BY <1>4, <1>6, Division
<1>9. Qty(s) = (cut \div Step) * Step
  BY <1>7 DEF Qty, RoundToStep
<1>10. (cut \div Step) * Step \in Nat
  BY <1>4, <1>8
<1> QED
  BY <1>1, <1>3, <1>4, <1>6, <1>8, <1>9, <1>10

\* What is lost at the stop is the share of the equity, or what the exchange's minimum takes.
LEMMA SizeHoldsRisk ==
    ASSUME NEW s \in Signals, Levels(s)
    PROVE  Qty(s) * Distance(s) <= Max({NetRisk(s), Max({ByNotional(s), MinQty}) * Distance(s)})
<1>1. PICK n \in Nat, d \in Nat \ {0}, b \in Nat, c \in Nat, q \in Nat :
         n = NetRisk(s) /\ d = Distance(s) /\ b = ByNotional(s) /\ c = MinQty /\ q = Qty(s)
  BY SizeFacts, SizeIsBounded
<1>2. PICK share : share = n \div d
  OBVIOUS
<1>3. share \in Nat /\ share * d <= n
  BY <1>2, Division
<1>4. PICK least : least = Max({b, c})
  OBVIOUS
<1>5. least \in Nat /\ b <= least /\ c <= least
  <2>1. b \in Int /\ c \in Int
    OBVIOUS
  <2>2. Max({b, c}) \in {b, c} /\ Max({b, c}) >= b /\ Max({b, c}) >= c
    BY <2>1, MaxOfTwo, Zenon
  <2> QED
    BY <1>4, <2>2
<1>6. q <= share \/ q <= b \/ q <= c
  BY <1>1, <1>2, SizeIsBounded
<1>7. PICK floor : floor = least * d
  OBVIOUS
<1>8. floor \in Nat /\ share * d \in Nat /\ q * d \in Nat
  BY <1>3, <1>5, <1>7
<1>9. q * d <= share * d \/ q * d <= floor
  <2>1. CASE q <= share
    BY <2>1, <1>3, Grows
  <2>2. CASE q <= least
    BY <2>2, <1>5, <1>7, Grows
  <2> QED
    BY <2>1, <2>2, <1>3, <1>5, <1>6
<1>10. PICK top : top = Max({n, floor})
  OBVIOUS
<1>11. top \in Nat /\ n <= top /\ floor <= top
  <2>1. n \in Int /\ floor \in Int
    BY <1>8
  <2>2. Max({n, floor}) \in {n, floor} /\ Max({n, floor}) >= n /\ Max({n, floor}) >= floor
    BY <2>1, MaxOfTwo, Zenon
  <2> QED
    BY <1>8, <1>10, <2>2
<1>12. q * d <= top
  BY <1>3, <1>8, <1>9, <1>11
<1> QED
  BY <1>1, <1>4, <1>7, <1>10, <1>12

\* A price rounded to a tick is at most half a tick away from itself.
LEMMA RoundFacts ==
    ASSUME NEW x \in Nat
    PROVE  RoundToTick(x) \in Nat /\ 2 * RoundToTick(x) <= 2 * x + Tick /\ 2 * x <= 2 * RoundToTick(x) + Tick
<1>1. PICK t \in Nat \ {0} : t = Tick
  BY RuleAssumption
<1>2. PICK n \in Nat, d \in Nat \ {0} : n = 2 * x + t /\ d = 2 * t
  <2>1. 2 * x + t \in Nat /\ 2 * t \in Nat \ {0}
    BY <1>1
  <2> QED
    BY <2>1
<1>3. PICK q \in Nat : q = n \div d
  BY <1>2, Division
<1>4. q * d <= n /\ n < q * d + d
  BY <1>3, Division
<1>5. RoundToTick(x) = q * t
  BY <1>1, <1>2, <1>3 DEF RoundToTick
<1>6. PICK z \in Nat : z = q * t
  BY <1>1, <1>3
<1>7. q * d = 2 * z
  BY <1>1, <1>2, <1>3, <1>6
<1> QED
  BY <1>1, <1>2, <1>4, <1>5, <1>6, <1>7

\* So is the loss of a unit at a stop that is rounded, from what it is at the stop of the signal.
LEMMA RoundedDistance ==
    ASSUME NEW s \in Signals, Levels(s)
    PROVE  /\ Between(s.price, RoundToTick(s.stop)) \in Nat
           /\ 2 * Between(s.price, RoundToTick(s.stop)) <= 2 * Distance(s) + Tick
<1>1. s.price \in Nat /\ s.stop \in Nat /\ Tick \in Nat
  BY RuleAssumption DEF Signals
<1>2. PICK z \in Nat : z = RoundToTick(s.stop)
  BY <1>1, RoundFacts
<1>3. 2 * z <= 2 * s.stop + Tick /\ 2 * s.stop <= 2 * z + Tick
  BY <1>1, <1>2, RoundFacts
<1> QED
  BY <1>1, <1>2, <1>3 DEF Between, Distance

\* What the order loses at the stop it carries.
LEMMA OrderHoldsRisk ==
    ASSUME NEW s \in Signals, Levels(s)
    PROVE  2 * (Qty(s) * Between(s.price, RoundToTick(s.stop)))
             <= 2 * Max({NetRisk(s), Max({ByNotional(s), MinQty}) * Distance(s)}) + Qty(s) * Tick
<1>1. PICK q \in Nat, d \in Nat, z \in Nat, t \in Nat :
         q = Qty(s) /\ d = Distance(s) /\ z = Between(s.price, RoundToTick(s.stop)) /\ t = Tick
  BY SizeFacts, SizeIsBounded, RoundedDistance, RuleAssumption
<1>2. 2 * z \in Nat /\ 2 * d + t \in Nat /\ 2 * z <= 2 * d + t
  BY <1>1, RoundedDistance
<1>3. (2 * z) * q <= (2 * d + t) * q
  BY <1>1, <1>2, Grows
<1>4. PICK m : m = Max({NetRisk(s), Max({ByNotional(s), MinQty}) * Distance(s)})
  OBVIOUS
<1>5. m \in Nat
  <2>1. PICK n \in Nat, b \in Nat, c \in Nat : n = NetRisk(s) /\ b = ByNotional(s) /\ c = MinQty
    BY SizeFacts
  <2>2. b \in Int /\ c \in Int
    OBVIOUS
  <2>3. PICK least : least = Max({b, c})
    OBVIOUS
  <2>4. least \in Nat
    <3>1. Max({b, c}) \in {b, c}
      BY <2>2, MaxOfTwo, Zenon
    <3> QED
      BY <2>3, <3>1
  <2>5. PICK f \in Nat : f = least * d
    BY <2>4
  <2>6. n \in Int /\ f \in Int
    BY <2>1, <2>5
  <2>7. Max({n, f}) \in {n, f}
    BY <2>6, MaxOfTwo, Zenon
  <2>8. m = Max({n, f})
    BY <1>1, <1>4, <2>1, <2>3, <2>5
  <2> QED
    BY <2>7, <2>8
<1>6. q * d <= m
  BY <1>1, <1>4, SizeHoldsRisk
<1>7. PICK x \in Nat, y \in Nat, w \in Nat : x = q * z /\ y = q * d /\ w = q * t
  BY <1>1
<1>8. (2 * z) * q = 2 * x /\ (2 * d + t) * q = 2 * y + w
  BY <1>1, <1>7
<1>9. 2 * x <= 2 * m + w
  BY <1>3, <1>5, <1>6, <1>7, <1>8
<1> QED
  BY <1>1, <1>4, <1>7, <1>9

(***************************************************************************)
(* The inductive invariant: the phases of the calls.                       *)
(***************************************************************************)
\* Before the entry nothing is held.
Early == {"Size", "Margin", "Leverage", "Entry"}
Explained ==
    \/ canceled \/ \E c \in Calls : <<"crash", c>> \in suffered
    \/ <<"reply", "Entry">> \in suffered
    \/ <<"reject", "Reduce">> \in suffered \/ partly

Sized ==
    /\ signal \in Signals /\ Levels(signal)
    /\ order = None \/ (order \in Order /\ order.qty = Qty(signal) /\ order.stop = RoundToTick(signal.stop))
Typed ==
    /\ call \in Calls /\ book \in Book /\ fill \in 0..MaxQty /\ answer \in Answer \union {None}
    /\ row \in BOOLEAN /\ halt \in {"Idle", "Listed", "Done"} /\ canceled \in BOOLEAN /\ partly \in BOOLEAN
    /\ suffered \in SUBSET (FaultKinds \X Calls) /\ budget \in 0..MaxFaults
Ordered == call \in Calls \ {"Size", "Done"} => order \in Order
Held    == call \in Early => book = Flat
Claims(qty) == qty <= fill \/ (signal.venue = "BINANCE" /\ qty = order.qty)
Claimed == (answer # None /\ answer.placed) => Claims(answer.qty)
Opened  == row => call = "Done" /\ answer # None /\ answer.placed
Guarded ==
    book.qty > 0 =>
        /\ call = "Take" => canceled \/ book.stop
        /\ call \in {"Confirm", "Audit", "Open"} \/ row => canceled \/ (book.stop /\ book.take)
Sound == (book.qty > 0 /\ ~book.stop /\ call \in {"AuditError", "Done"}) => Explained
\* Binance's orders follow one another; no answer is given before the fill is confirmed.
Placing    == call \in {"Stop", "Take"} => signal.venue = "BINANCE"
Unanswered == call \in Early \union {"Stop", "Take", "Confirm"} => answer = None
Answered   == call \in {"Audit", "Open"} => answer # None /\ answer.placed
Filled     == call \in {"Stop", "Take", "Confirm", "Cancel", "Reduce"} => fill > 0
Phases == Sized /\ Typed /\ Ordered /\ Held /\ Claimed /\ Opened /\ Guarded /\ Sound /\ Placing /\ Unanswered /\ Answered /\ Filled

LEMMA InitPhases == Init => Phases
<1> SUFFICES ASSUME Init PROVE Phases
  OBVIOUS
<1>1. Flat \in Book
  BY RuleAssumption DEF Flat, Book
<1>2. signal \in Signals /\ Levels(signal)
  BY DEF Init, Levels
<1>3. 0 \in 0..MaxQty /\ budget \in 0..MaxFaults
  BY RuleAssumption, BracketFaultsAssumption DEF Init
<1> QED
  BY <1>1, <1>2, <1>3 DEF Init, Phases, Sized, Typed, Ordered, Held, Claimed, Claims, Opened, Guarded, Sound, Placing, Unanswered, Answered, Filled, Calls, Early, Flat

(***************************************************************************)
(* The steps.                                                              *)
(***************************************************************************)
ParametersTyped == MaxQty \in Nat /\ MaxFaults \in Nat
LEMMA Parameters == ParametersTyped /\ Flat \in Book
BY RuleAssumption, BracketFaultsAssumption DEF ParametersTyped, Flat, Book

\* What an entry that is filled for n leaves.
LEMMA FillsFacts ==
    ASSUME Phases, NEW n \in 1..order.qty, Fills(n), order \in Order
    PROVE  /\ book' \in Book /\ fill' \in 0..MaxQty /\ fill' = n /\ book'.qty = n
           /\ book'.stop = (signal.venue = "BYBIT") /\ book'.take = (signal.venue = "BYBIT")
<1>1. n \in 0..MaxQty
  BY Parameters DEF Order, ParametersTyped
<1>2. (signal.venue = "BYBIT") \in BOOLEAN
  OBVIOUS
<1> QED
  BY <1>1, <1>2 DEF Fills, Book

\* What a reducing order leaves, filled in full or in part: less of the same, or nothing.
LEMMA RemainderFacts ==
    ASSUME NEW n \in Nat, book \in Book, NEW b \in Remainders(n)
    PROVE  /\ b \in Book
           /\ b = Flat \/ (b.qty > 0 /\ book.qty > 0 /\ b.stop = book.stop /\ b.take = book.take)
<1>1. PICK m \in 1..Min({n, book.qty}) : b = IF m = book.qty THEN Flat ELSE [book EXCEPT !.qty = @ - m]
  BY DEF Remainders
<1>2. PICK q \in 0..MaxQty : q = book.qty
  BY DEF Book
<1>3. m \in Nat \ {0} /\ m <= q
  <2>1. q \in Int /\ n \in Int
    BY <1>2
  <2>2. Min({n, q}) \in {n, q} /\ Min({n, q}) <= q
    BY <2>1, MinOfTwo, Zenon
  <2> QED
    BY <1>1, <1>2, <2>1, <2>2
<1>4. CASE m = q
  BY <1>1, <1>2, <1>4, Parameters
<1>5. CASE m # q
  <2>1. q - m \in 0..MaxQty /\ q - m > 0
    BY <1>2, <1>3, <1>5, Parameters DEF ParametersTyped
  <2>2. b = [book EXCEPT !.qty = q - m]
    BY <1>1, <1>2, <1>5
  <2> QED
    BY <1>2, <2>1, <2>2 DEF Book
<1> QED
  BY <1>4, <1>5

\* The levels an order is sent with are natural numbers, and so is its margin.
LEMMA OrderTyped ==
    ASSUME Phases, Qty(signal) # 0
    PROVE  [qty |-> Qty(signal), stop |-> RoundToTick(signal.stop), take |-> RoundToTick(signal.take),
            margin |-> (Qty(signal) * signal.price) \div Leverage] \in Order
<1>1. PICK q \in 1..MaxQty : q = Qty(signal)
  BY SizeIsBounded, Parameters DEF Phases, Sized, ParametersTyped
<1>2. PICK stop \in Nat, take \in Nat, price \in Nat : stop = signal.stop /\ take = signal.take /\ price = signal.price
  BY RuleAssumption DEF Phases, Sized, Signals
<1>3. Tick \in Nat \ {0} /\ Leverage \in Nat \ {0}
  BY RuleAssumption
<1>4. 2 * stop + Tick \in Nat /\ 2 * take + Tick \in Nat /\ 2 * Tick \in Nat \ {0} /\ q * price \in Nat
  BY <1>1, <1>2, <1>3, Parameters DEF ParametersTyped
<1>5. (2 * stop + Tick) \div (2 * Tick) \in Nat /\ (2 * take + Tick) \div (2 * Tick) \in Nat /\ (q * price) \div Leverage \in Nat
  BY <1>3, <1>4, Division
<1>6. ((2 * stop + Tick) \div (2 * Tick)) * Tick \in Nat /\ ((2 * take + Tick) \div (2 * Tick)) * Tick \in Nat
  BY <1>3, <1>5
<1> QED
  BY <1>1, <1>2, <1>5, <1>6 DEF Order, RoundToTick

\* Only faults, cancellations and the calls change what explains an open position; none takes it back.
LEMMA SuffersFacts ==
    ASSUME Phases, NEW kind \in FaultKinds, Suffers(kind)
    PROVE  /\ budget' \in 0..MaxFaults /\ suffered' \in SUBSET (FaultKinds \X Calls)
           /\ suffered \subseteq suffered' /\ <<kind, call>> \in suffered'
BY Parameters DEF Phases, Typed, Suffers, ParametersTyped

LEMMA OnErrorFacts ==
    \A c \in Calls : OnError(c) \in {"Cancel", "Reduce", "AuditError"}
                     /\ (OnError(c) = "AuditError" => c \notin {"Cancel"} /\ (signal.venue = "BINANCE" => c \notin {"Stop", "Take", "Confirm"}))
BY DEF OnError, Calls

\* Only Size changes the order, and nothing the signal.
LEMMA SizedKept == Phases /\ signal' = signal /\ order' = order => Sized'
BY DEF Phases, Sized, Levels, WellFormed, InsideRange

LEMMA SizeStep == Phases /\ Size => Phases'
<1> SUFFICES ASSUME Phases, Size PROVE Phases'
  OBVIOUS
<1>1. /\ call = "Size" /\ signal' = signal /\ book' = book /\ fill' = fill /\ answer' = answer
      /\ row' = row /\ halt' = halt /\ canceled' = canceled /\ partly' = partly /\ suffered' = suffered /\ budget' = budget
  BY DEF Size, history
<1>2. book = Flat
  BY <1>1 DEF Phases, Held, Early
<1>3. Sized'
  <2>1. CASE Qty(signal) # 0 /\ order' # order
    <3>1. order' \in Order /\ order'.qty = Qty(signal) /\ order'.stop = RoundToTick(signal.stop)
      BY <2>1, OrderTyped DEF Size
    <3>2. signal' \in Signals /\ Levels(signal)' /\ Qty(signal)' = Qty(signal) /\ RoundToTick(signal.stop)' = RoundToTick(signal.stop)
      BY <1>1 DEF Phases, Sized, Levels, WellFormed, InsideRange
    <3> QED
      BY <3>1, <3>2 DEF Sized
  <2>2. CASE order' = order
    BY <2>2, <1>1, SizedKept
  <2> QED
    BY <2>1, <2>2 DEF Size
<1>4. call' = "Done" \/ (call' = "Margin" /\ order' \in Order)
  BY OrderTyped DEF Size, Goto
<1> QED
  BY <1>1, <1>2, <1>3, <1>4 DEF Phases, Typed, Ordered, Held, Claimed, Claims, Opened, Guarded, Sound, Placing, Unanswered, Answered, Filled, Explained, Early, Calls, Flat

\* A step of the calls that places nothing at the exchange.
Quiet == UNCHANGED <<signal, order, book, fill, answer, row, halt, canceled, partly, suffered, budget>>
LEMMA QuietStep ==
    ASSUME Phases, Quiet,
           \/ call = "Margin" /\ call' \in {"Leverage", "Done"}
           \/ call = "Leverage" /\ call' = "Entry"
           \/ call = "Audit" /\ call' = "Open"
    PROVE  Phases'
<1>1. Sized'
  BY SizedKept DEF Quiet
<1> QED
  BY <1>1 DEF Quiet, Phases, Typed, Ordered, Held, Claimed, Claims, Opened, Guarded, Sound, Placing, Unanswered, Answered, Filled, Explained, Early, Calls, Flat

\* The row is opened while nothing is left to be placed.
LEMMA OpenStep == Phases /\ OpenPosition => Phases'
<1> SUFFICES ASSUME Phases, OpenPosition PROVE Phases'
  OBVIOUS
<1>1. /\ call = "Open" /\ call' = "Done" /\ row' = TRUE
      /\ UNCHANGED <<signal, order, book, fill, answer, halt, canceled, partly, suffered, budget>>
  BY DEF OpenPosition, Goto, history
<1>2. Sized'
  BY <1>1, SizedKept
<1>3. answer # None /\ answer.placed
  BY <1>1 DEF Phases, Answered
<1>4. Typed' /\ Ordered' /\ Held' /\ Claimed' /\ Opened'
  BY <1>1, <1>3 DEF Phases, Typed, Ordered, Held, Claimed, Claims, Opened, Calls, Early
<1>5. Guarded' /\ Sound'
  BY <1>1 DEF Phases, Guarded, Sound, Explained
<1>6. Placing' /\ Unanswered' /\ Filled' /\ Answered'
  BY <1>1 DEF Placing, Unanswered, Answered, Filled, Early
<1> QED
  BY <1>2, <1>4, <1>5, <1>6 DEF Phases

\* What a call does at the exchange when it is done, and where the executor goes on: after it, or to the
\* handling of an error when the answer is lost.
LEMMA DoneStep ==
    ASSUME Phases, NEW c \in {"Entry", "Stop", "Take", "Cancel", "Reduce"}, call = c, Accepts(c), Effect(c),
           UNCHANGED <<signal, order, answer, row, halt, canceled>>,
           \/ call' = After(c) /\ UNCHANGED <<suffered, budget>>
           \/ call' = OnError(c) /\ Suffers("reply")
    PROVE  Phases'
<1>1. Sized'
  BY SizedKept
<1>2. /\ budget' \in 0..MaxFaults /\ suffered' \in SUBSET (FaultKinds \X Calls) /\ suffered \subseteq suffered'
      /\ call' = OnError(c) => <<"reply", c>> \in suffered' \/ call' = After(c)
  BY SuffersFacts DEF Phases, Typed, FaultKinds
<1>3. order \in Order
  BY DEF Phases, Ordered, Calls
<1>4. CASE c = "Entry"
  <2>1. PICK n \in 1..order.qty : Fills(n) /\ partly' = partly
    BY <1>4 DEF Effect
  <2>2. /\ book' \in Book /\ fill' \in 0..MaxQty /\ fill' = n /\ book'.qty = n
        /\ book'.stop = (signal.venue = "BYBIT") /\ book'.take = (signal.venue = "BYBIT")
    BY <1>3, <2>1, FillsFacts
  <2>3. call' = (IF signal.venue = "BINANCE" THEN "Stop" ELSE "Confirm") \/ (call' = "AuditError" /\ <<"reply", "Entry">> \in suffered')
    BY <1>2, <1>4 DEF After, OnError
  <2>4. signal.venue = "BINANCE" \/ signal.venue = "BYBIT"
    BY VenuesAssumption DEF Phases, Sized, Signals
  <2>5. answer = None
    BY <1>4 DEF Phases, Unanswered, Early
  <2>6. Typed'
    <3>1. call' \in Calls /\ answer' \in Answer \union {None}
      BY <2>3, <2>4, <2>5 DEF Calls
    <3>2. halt' \in {"Idle", "Listed", "Done"} /\ canceled' \in BOOLEAN /\ row' \in BOOLEAN /\ partly' \in BOOLEAN
      BY <2>1, Zenon DEF Phases, Typed
    <3> QED
      BY <1>2, <2>2, <3>1, <3>2 DEF Typed
  <2>7. call' \in {"Stop", "Confirm", "AuditError"} /\ answer' = None
    BY <2>3, <2>4, <2>5
  <2>10. ~row /\ ~row'
    BY <1>4 DEF Phases, Opened
  <2>8. Ordered' /\ Held' /\ Claimed' /\ Opened' /\ Placing' /\ Unanswered' /\ Answered' /\ Filled'
    BY <1>3, <2>2, <2>3, <2>4, <2>7, <2>10 DEF Ordered, Held, Claimed, Claims, Opened, Placing, Unanswered, Answered, Filled, Early, Order
  <2>9. Guarded' /\ Sound'
    BY <2>2, <2>3, <2>4, <2>7, <2>10 DEF Guarded, Sound, Explained
  <2> QED
    BY <1>1, <2>6, <2>8, <2>9 DEF Phases
<1>5. CASE c # "Entry"
  <2>10. partly' \in BOOLEAN /\ (partly => partly') /\ (c = "Reduce" /\ book'.qty > 0 => partly')
    <3>1. partly \in BOOLEAN /\ partly' \in {partly, partly \/ book'.qty > 0} /\ (c = "Reduce" => partly' = (partly \/ book'.qty > 0))
      BY <1>5 DEF Effect, Phases, Typed
    <3> QED
      BY <3>1
  <2>1. /\ fill' = fill /\ book' \in Book
        /\ c = "Stop" => book'.stop /\ book'.qty = book.qty
        /\ c = "Take" => book'.take /\ book'.stop = book.stop /\ book'.qty = book.qty
    <3>1. book \in Book /\ fill' = fill
      BY <1>5 DEF Effect, Phases, Typed
    <3>2. CASE c = "Stop"
      <4>1. book' = [book EXCEPT !.stop = TRUE]
        BY <3>2 DEF Effect
      <4> QED
        BY <3>1, <3>2, <4>1 DEF Book
    <3>3. CASE c = "Take"
      <4>1. book' = [book EXCEPT !.take = TRUE]
        BY <3>3 DEF Effect
      <4> QED
        BY <3>1, <3>3, <4>1 DEF Book
    <3>4. CASE c = "Cancel"
      <4>1. book' = [book EXCEPT !.stop = FALSE, !.take = FALSE]
        BY <3>4 DEF Effect
      <4> QED
        BY <3>1, <3>4, <4>1 DEF Book
    <3>5. CASE c = "Reduce"
      <4>1. book' \in Remainders(order.qty) /\ order.qty \in Nat
        BY <1>3, <3>5 DEF Effect, Order
      <4> QED
        BY <3>1, <3>5, <4>1, RemainderFacts
    <3> QED
      BY <1>5, <3>2, <3>3, <3>4, <3>5
  <2>2. \/ c = "Stop" /\ call' \in {"Take", "Cancel", "AuditError"}
        \/ c = "Take" /\ call' \in {"Confirm", "Cancel", "AuditError"}
        \/ c = "Cancel" /\ call' = "Reduce"
        \/ c = "Reduce" /\ call' = "AuditError"
    BY <1>5 DEF After, OnError
  <2>3. c \in {"Stop", "Take"} => signal.venue = "BINANCE"
    BY DEF Phases, Placing
  <2>4. c \in {"Stop", "Take"} => call' # "AuditError"
    BY <2>3 DEF After, OnError
  <2>5. call = c /\ c \in {"Stop", "Take", "Cancel", "Reduce"}
    BY <1>5
  <2>6. Typed'
    <3>1. call' \in Calls
      BY <2>2 DEF Calls
    <3> QED
      BY <1>2, <2>1, <2>10, <3>1 DEF Phases, Typed
  <2>7. Ordered' /\ Claimed' /\ Opened' /\ Placing' /\ Unanswered' /\ Answered' /\ Filled'
    BY <1>3, <2>1, <2>2, <2>3, <2>5 DEF Phases, Ordered, Claimed, Claims, Opened, Placing, Unanswered, Answered, Filled, Early
  <2>8. Held'
    BY <2>1, <2>2 DEF Phases, Held, Early
  <2>11. book \in Book /\ book'.qty \in Nat /\ ~row /\ ~row'
    BY <2>1, <2>5 DEF Phases, Typed, Opened, Book
  <2>12. Guarded'
    BY <2>1, <2>2, <2>4, <2>5, <2>11 DEF Phases, Guarded
  <2>9. Sound'
    BY <1>2, <2>1, <2>2, <2>4, <2>5, <2>10, <2>11 DEF Phases, Guarded, Sound, Explained
  <2> QED
    BY <1>1, <2>6, <2>7, <2>8, <2>9, <2>12 DEF Phases
<1> QED
  BY <1>4, <1>5

\* An error: the executor rolls Binance's entry back or reports it.
LEMMA ErrorStep ==
    ASSUME Phases, call \in Remote, call' = OnError(call), Suffers("reject") \/ UNCHANGED <<suffered, budget>>,
           Suffers("reject") \/ call = "Confirm" \/ (call \in {"Entry", "Stop", "Take", "Cancel", "Reduce"} /\ ~Accepts(call)),
           UNCHANGED <<signal, order, book, fill, answer, row, halt, canceled, partly>>
    PROVE  Phases'
<1>1. Sized'
  BY SizedKept
<1>2. /\ budget' \in 0..MaxFaults /\ suffered' \in SUBSET (FaultKinds \X Calls) /\ suffered \subseteq suffered'
      /\ Suffers("reject") => <<"reject", call>> \in suffered'
  BY SuffersFacts DEF Phases, Typed, FaultKinds
<1>3. call' \in {"Cancel", "Reduce", "AuditError"} /\ (call' = "AuditError" => call \notin {"Cancel", "Stop", "Take"})
  BY DEF OnError, Phases, Placing, Remote
<1>4. call' # "Reduce" \/ call = "Cancel"
  BY DEF OnError
<1>5. call = "Reduce" /\ book.qty > 0 => <<"reject", "Reduce">> \in suffered'
  BY <1>2 DEF Accepts
<1>6. call \in {"Leverage", "Entry"} => book.qty = 0
  BY DEF Phases, Held, Early, Flat
<1>7. Sound'
  BY <1>2, <1>3, <1>5, <1>6 DEF Phases, Sound, Explained, Guarded, Remote
<1>8. Ordered'
  BY <1>3 DEF Phases, Ordered, Remote, Calls
<1>9. Held' /\ Claimed' /\ Opened' /\ Guarded' /\ Placing' /\ Unanswered' /\ Answered' /\ Filled'
  BY <1>3, <1>4 DEF Phases, Held, Claimed, Claims, Opened, Guarded, Placing, Unanswered, Answered, Filled, Early, Remote, OnError
<1>10. Typed'
  BY <1>2, <1>3 DEF Phases, Typed, Calls
<1> QED
  BY <1>1, <1>7, <1>8, <1>9, <1>10 DEF Phases

LEMMA ConfirmStep == Phases /\ ConfirmFill => Phases'
<1> SUFFICES ASSUME Phases, ConfirmFill PROVE Phases'
  OBVIOUS
<1>1. call = "Confirm" /\ UNCHANGED <<signal, order, book, fill, row, halt, canceled, partly, suffered, budget>>
  BY DEF ConfirmFill, history
<1>2. CASE call' = OnError("Confirm") /\ answer' = answer
  BY <1>1, <1>2, ErrorStep DEF Remote
<1>3. ASSUME NEW n \in Confirmed, answer' = [placed |-> TRUE, qty |-> n], call' = "Audit"
      PROVE  Phases'
  <2>1. order \in Order
    BY <1>1 DEF Phases, Ordered, Calls
  <2>2. fill \in 1..MaxQty
    BY <1>1 DEF Phases, Filled, Typed
  <2>3. n \in 1..MaxQty /\ Claims(n)
    <3>1. CASE signal.venue = "BINANCE"
      BY <1>3, <2>1, <2>2, <3>1 DEF Confirmed, Claims, Order
    <3>2. CASE signal.venue # "BINANCE"
      <4>1. n \in 1..fill
        BY <1>3, <3>2 DEF Confirmed
      <4> QED
        BY <2>2, <4>1, Parameters DEF ParametersTyped, Claims
    <3> QED
      BY <3>1, <3>2
  <2>4. answer' \in Answer /\ answer'.qty = n
    BY <1>3, <2>3 DEF Answer
  <2>5. Sized'
    BY <1>1, SizedKept
  <2>6. Typed'
    BY <1>1, <1>3, <2>4 DEF Phases, Typed, Calls
  <2>7. Ordered' /\ Held' /\ Claimed' /\ Opened' /\ Placing' /\ Unanswered'
    BY <1>1, <1>3, <2>1, <2>3, <2>4 DEF Phases, Ordered, Held, Claimed, Claims, Opened, Placing, Unanswered, Early
  <2>8. Guarded' /\ Sound'
    BY <1>1, <1>3 DEF Phases, Guarded, Sound
  <2>9. Answered' /\ Filled'
    BY <1>3, <2>4 DEF Answered, Filled, None, Answer
  <2> QED
    BY <2>5, <2>6, <2>7, <2>8, <2>9 DEF Phases
<1> QED
  BY <1>1, <1>2, <1>3 DEF ConfirmFill, Goto

\* The executor ends: its process stops, or it is told that the call failed.
LEMMA EndStep ==
    ASSUME Phases, UNCHANGED <<signal, order, book, fill, row, halt, canceled, partly>>, call' = "Done",
           \/ call = "AuditError" /\ answer' = [placed |-> FALSE] /\ (Suffers("query") \/ UNCHANGED <<suffered, budget>>)
           \/ call # "Done" /\ answer' = answer /\ Suffers("crash")
    PROVE  Phases'
<1>1. Sized'
  BY SizedKept
<1>2. /\ budget' \in 0..MaxFaults /\ suffered' \in SUBSET (FaultKinds \X Calls) /\ suffered \subseteq suffered'
      /\ Suffers("crash") => <<"crash", call>> \in suffered'
  BY SuffersFacts DEF Phases, Typed, FaultKinds
<1>3. [placed |-> FALSE] \in Answer
  BY DEF Answer
<1>4. answer' \in Answer \union {None}
  BY <1>3 DEF Phases, Typed
<1>5. Typed'
  BY <1>2, <1>4 DEF Phases, Typed, Calls
<1>10. ~row /\ ~row'
  BY DEF Phases, Opened
<1>6. Ordered' /\ Held' /\ Opened' /\ Guarded' /\ Placing' /\ Unanswered' /\ Answered' /\ Filled'
  BY <1>10 DEF Phases, Ordered, Held, Opened, Guarded, Placing, Unanswered, Answered, Filled, Early
<1>7. Claimed'
  BY DEF Phases, Claimed, Claims
<1>8. call \in Calls
  BY DEF Phases, Typed
<1>9. Sound'
  BY <1>2, <1>8 DEF Phases, Sound, Explained
<1> QED
  BY <1>1, <1>5, <1>6, <1>7, <1>9 DEF Phases

\* The halt and the market change what the exchange holds while the executor is anywhere in its calls.
LEMMA OutsideStep ==
    ASSUME Phases, UNCHANGED <<signal, order, call, fill, answer, row, partly, suffered, budget>>, HaltCancels \/ HaltCloses \/ LevelReached
    PROVE  Phases'
<1>1. Sized'
  BY SizedKept
<1>2. book \in Book /\ fill \in 0..MaxQty /\ answer \in Answer \union {None} /\ Flat \in Book /\ Flat.qty = 0
  BY Parameters DEF Phases, Typed, Flat
<1>3. CASE HaltCancels
  <2>1. book' \in Book /\ book'.qty = book.qty /\ book'.stop = FALSE /\ book'.take = FALSE /\ halt' = "Listed" /\ halt = "Idle"
    BY <1>2, <1>3 DEF HaltCancels, Book
  <2>2. canceled' = (canceled \/ book.stop \/ book.take) /\ canceled' \in BOOLEAN
    BY <1>3 DEF HaltCancels
  <2>3. Typed' /\ Ordered' /\ Claimed' /\ Opened' /\ Placing' /\ Unanswered' /\ Answered' /\ Filled'
    BY <2>1, <2>2 DEF Phases, Typed, Ordered, Claimed, Claims, Opened, Placing, Unanswered, Answered, Filled
  <2>4. Guarded' /\ Sound'
    BY <2>1, <2>2 DEF Phases, Guarded, Sound, Explained
  <2>5. Held'
    <3>1. book = Flat => book' = Flat
      BY <2>1, <1>2 DEF Book, Flat
    <3> QED
      BY <2>1, <3>1 DEF Phases, Held
  <2> QED
    BY <1>1, <2>3, <2>4, <2>5 DEF Phases
<1>4. ASSUME book' = Flat, canceled' = canceled, halt' \in {halt, "Done"}
      PROVE  Phases'
  <2>1. Typed' /\ Ordered' /\ Claimed' /\ Opened' /\ Placing' /\ Unanswered' /\ Answered' /\ Filled'
    BY <1>2, <1>4 DEF Phases, Typed, Ordered, Claimed, Claims, Opened, Placing, Unanswered, Answered, Filled
  <2>2. Guarded' /\ Sound' /\ Held'
    BY <1>2, <1>4 DEF Guarded, Sound, Held
  <2> QED
    BY <1>1, <2>1, <2>2 DEF Phases
<1>5. CASE LevelReached
  BY <1>4, <1>5 DEF LevelReached, history
<1>6. CASE HaltCloses
  <2>1. halt = "Listed" /\ halt' = "Done" /\ canceled' = canceled
    BY <1>6 DEF HaltCloses, history
  <2>2. CASE book' = Flat
    BY <1>4, <2>1, <2>2
  <2>3. CASE book' = book
    <3>1. Typed' /\ Ordered' /\ Claimed' /\ Opened' /\ Placing' /\ Unanswered' /\ Answered' /\ Filled'
      BY <2>1, <2>3 DEF Phases, Typed, Ordered, Claimed, Claims, Opened, Placing, Unanswered, Answered, Filled
    <3>2. Guarded' /\ Sound' /\ Held'
      BY <2>1, <2>3 DEF Phases, Guarded, Sound, Held, Explained
    <3> QED
      BY <1>1, <3>1, <3>2 DEF Phases
  <2>4. CASE book' # Flat /\ book' # book
    <3>5. row /\ call = "Done" /\ book' \in Remainders(answer.qty) /\ answer # None /\ answer.placed
      BY <1>6, <2>4 DEF HaltCloses, Phases, Opened
    <3>6. answer.qty \in Nat
      <4>1. answer \in Answer
        BY <1>2, <3>5
      <4>2. answer.qty \in 1..MaxQty
        BY <3>5, <4>1 DEF Answer
      <4> QED
        BY <4>2
    <3>1. row /\ call = "Done" /\ book' \in Remainders(answer.qty) /\ answer.qty \in Nat
      BY <3>5, <3>6
    <3>2. book' \in Book /\ book'.stop = book.stop /\ book'.take = book.take /\ book.qty > 0
      BY <1>2, <2>4, <3>1, RemainderFacts
    <3>3. Typed' /\ Ordered' /\ Claimed' /\ Opened' /\ Placing' /\ Unanswered' /\ Answered' /\ Filled'
      BY <2>1, <3>1, <3>2 DEF Phases, Typed, Ordered, Claimed, Claims, Opened, Placing, Unanswered, Answered, Filled
    <3>4. Guarded' /\ Sound' /\ Held'
      BY <2>1, <3>1, <3>2 DEF Phases, Guarded, Sound, Held, Explained, Early
    <3> QED
      BY <1>1, <3>3, <3>4 DEF Phases
  <2> QED
    BY <2>2, <2>3, <2>4
<1> QED
  BY <1>3, <1>5, <1>6

LEMMA StepPhases == Phases /\ [Next]_vars => Phases'
<1> SUFFICES ASSUME Phases, [Next]_vars PROVE Phases'
  OBVIOUS
<1>1. CASE Size
  BY <1>1, SizeStep
<1>2. CASE CheckMargin \/ SetLeverage \/ AuditOk
  BY <1>2, QuietStep DEF CheckMargin, SetLeverage, AuditOk, Goto, Quiet, history
<1>12. CASE OpenPosition
  BY <1>12, OpenStep
<1>3. ASSUME NEW c \in {"Entry", "Stop", "Take", "Cancel", "Reduce"}, Call(c)
      PROVE  Phases'
  BY <1>3, DoneStep, ErrorStep DEF Call, Goto, history, Remote
<1>4. CASE ConfirmFill
  BY <1>4, ConfirmStep
<1>5. CASE AuditError
  BY <1>5, EndStep DEF AuditError, Goto, history
<1>6. CASE HaltCancels \/ HaltCloses \/ LevelReached
  BY <1>6, OutsideStep DEF HaltCancels, HaltCloses, LevelReached, history
<1>7. CASE CallFails
  BY <1>7, ErrorStep DEF CallFails, Goto
<1>8. CASE ReplyLost
  BY <1>8, DoneStep DEF ReplyLost, Goto
<1>9. CASE Crash
  BY <1>9, EndStep DEF Crash, Goto
<1>10. CASE AuditFails
  <2>1. CASE call = "Audit"
    <3>1. /\ budget' \in 0..MaxFaults /\ suffered' \in SUBSET (FaultKinds \X Calls) /\ suffered \subseteq suffered'
      BY <1>10, SuffersFacts DEF AuditFails, FaultKinds
    <3>2. call' = "AuditError" /\ UNCHANGED <<signal, order, book, fill, answer, row, halt, canceled, partly>>
      BY <1>10, <2>1 DEF AuditFails, Goto
    <3>3. Sized'
      BY <3>2, SizedKept
    <3>4. Typed' /\ Ordered' /\ Held' /\ Claimed' /\ Opened' /\ Placing' /\ Unanswered' /\ Answered' /\ Filled'
      BY <2>1, <3>1, <3>2 DEF Phases, Typed, Ordered, Held, Claimed, Claims, Opened, Placing, Unanswered, Answered, Filled, Early, Calls
    <3>5. Guarded' /\ Sound'
      BY <2>1, <3>1, <3>2 DEF Phases, Guarded, Sound, Explained
    <3> QED
      BY <3>3, <3>4, <3>5 DEF Phases
  <2>2. CASE call # "Audit"
    BY <1>10, <2>2, EndStep DEF AuditFails, Goto
  <2> QED
    BY <2>1, <2>2
<1>11. CASE UNCHANGED vars
  <2>1. UNCHANGED <<signal, order, call, book, fill, answer, row, halt, canceled, partly, suffered, budget>>
    BY <1>11 DEF vars
  <2>2. Sized'
    BY <2>1, SizedKept
  <2>3. Typed' /\ Ordered' /\ Held' /\ Claimed' /\ Opened' /\ Placing' /\ Unanswered' /\ Answered' /\ Filled'
    BY <2>1 DEF Phases, Typed, Ordered, Held, Claimed, Claims, Opened, Placing, Unanswered, Answered, Filled
  <2>4. Guarded' /\ Sound'
    BY <2>1 DEF Phases, Guarded, Sound, Explained
  <2> QED
    BY <2>2, <2>3, <2>4 DEF Phases
<1> QED
  BY <1>1, <1>2, <1>3, <1>4, <1>5, <1>6, <1>7, <1>8, <1>9, <1>10, <1>11, <1>12
     DEF Next, PlaceEntry, PlaceStop, PlaceTake, CancelAll, ReduceEntry

\* Placing an order leads from well-typed states to well-typed states; every phase of the calls keeps what it relies on.
THEOREM PhasesHold == Spec => []Phases
BY InitPhases, StepPhases, PTL DEF Spec

\* BracketOrder is type-correct for every trading rule.
THEOREM TypeCorrect == Spec => []TypeOK
<1>1. Phases => TypeOK
  BY DEF Phases, Sized, Typed, TypeOK
<1> QED
  BY <1>1, PhasesHold, PTL

\* No minimum, maximum or rounding of the quantity raises what an order loses at the stop it carries above the
\* share of the equity or what the exchange's minimum takes, and the rounding of the stop adds half a tick at most.
THEOREM RiskIsHeldHolds == Spec => []RiskIsHeld
<1>1. Phases => RiskIsHeld
  BY OrderHoldsRisk DEF Phases, Sized, RiskIsHeld, Loss
<1> QED
  BY <1>1, PhasesHold, PTL

\* A position the executor was told is placed has both its orders, unless a halt cancelled them, and its row
\* claims no more than was executed, or than was ordered where Binance's answer does not say.
THEOREM PlacedIsProtectedHolds == Spec => []PlacedIsProtected
<1>1. Phases => PlacedIsProtected
  BY DEF Phases, Claimed, Claims, Opened, Guarded, PlacedIsProtected
<1> QED
  BY <1>1, PhasesHold, PTL

\* A position left without a stop loss is explained by a halt, a crash, a lost answer to the entry, or a reducing
\* order that was refused or filled in part, for any number of faults.
THEOREM NakedIsExplainedHolds == Spec => []NakedIsExplained
<1>1. Phases => NakedIsExplained
  BY DEF Phases, Sound, Explained, Unprotected, NakedIsExplained
<1> QED
  BY <1>1, PhasesHold, PTL

(***************************************************************************)
(* MarketPipeline: the age of a price.                                     *)
(***************************************************************************)
FeedFields   == {"socket", "orphan", "timer", "refresh", "price", "closes", "gaps", "age", "heard", "why"}
VectorFields == {"stale", "source", "price", "old", "why", "asked"}

\* A state whose age counts from a price is as old as the price.
Honest(f)  == DOMAIN f = FeedFields /\ (f.why = "price" => f.age = f.heard)
\* A vector taken from it calls itself stale exactly when the price is old.
Candid(r)  == DOMAIN r = VectorFields /\ (r.why = "price" => (r.stale <=> r.old))
FeedHonest == /\ Honest(feed)
              /\ DOMAIN vec = Cycles /\ \A c \in Cycles : Candid(vec[c])

LEMMA MergeIsHonest ==
    ASSUME NEW f, Honest(f), NEW why, why # "price"
    PROVE  Honest(MergeState(f, why)) /\ MergeState(f, why).why = why
BY DEF Honest, FeedFields, MergeState

LEMMA PricedIsHonest ==
    ASSUME NEW f, Honest(f)
    PROVE  Honest(Priced(f))
BY DEF Honest, FeedFields, Priced

\* Nothing but the age, the time of the last price and what the age counts from makes a state honest.
LEMMA DetailIsHonest ==
    ASSUME NEW f, Honest(f), NEW s \in FeedFields \ {"age", "heard", "why"}, NEW e
    PROVE  Honest([f EXCEPT ![s] = e])
BY DEF Honest, FeedFields

LEMMA MessageIsHonest ==
    ASSUME NEW f, Honest(f), NEW kind \in Kinds
    PROVE  Honest(HandleSocketMessage(f, kind))
<1>1. kind \in {"ticker", "depth", "kline", "liquidation", "garbage", "delta"}
  BY DEF Kinds
<1>2. CASE kind = "ticker"
  BY <1>2, PricedIsHonest DEF HandleSocketMessage, ApplyTicker
<1>3. CASE kind = "kline"
  BY <1>3, PricedIsHonest DEF HandleSocketMessage, ApplyKline, PushClose, Honest, FeedFields
<1>4. CASE kind = "depth"
  BY <1>4, MergeIsHonest DEF HandleSocketMessage, ApplyDepth, Honest, FeedFields
<1>5. CASE kind = "liquidation"
  BY <1>5, MergeIsHonest DEF HandleSocketMessage, ApplyLiquidation, Honest, FeedFields
<1>6. CASE kind = "delta"
  <2>1. HandleSocketMessage(f, kind) = ApplyDelta(f)
    BY <1>6 DEF HandleSocketMessage
  <2>2. \A g : Honest(g) => Honest([g EXCEPT !.price = "none", !.gaps = FALSE])
    BY DEF Honest, FeedFields
  <2> QED
    BY <2>1, <2>2, MergeIsHonest DEF ApplyDelta
<1>7. CASE kind = "garbage"
  BY <1>7, MergeIsHonest DEF HandleSocketMessage
<1> QED
  BY <1>1, <1>2, <1>3, <1>4, <1>5, <1>6, <1>7

LEMMA RefreshIsHonest ==
    ASSUME NEW f, Honest(f), NEW got
    PROVE  Honest(Refreshed(f, got))
<1> DEFINE g == IF "ticker" \in got THEN ApplyTicker(f) ELSE IF got # {} THEN MergeState(f, "other") ELSE f
<1>1. Honest(g)
  BY PricedIsHonest, MergeIsHonest DEF ApplyTicker
<1>2. Refreshed(f, got) = [g EXCEPT !.closes = @ \/ "klines" \in got, !.gaps = got # Parts]
  BY DEF Refreshed
<1> HIDE DEF g
<1> QED
  BY <1>1, <1>2 DEF Honest, FeedFields

LEMMA StreamingIsHonest ==
    ASSUME NEW f, Honest(f)
    PROVE  Honest(EnsureStreaming(f))
BY MergeIsHonest DEF EnsureStreaming, Honest, FeedFields

LEMMA ClosedIsHonest ==
    ASSUME NEW f, Honest(f)
    PROVE  Honest(ClosedSocket(f))
BY MergeIsHonest DEF ClosedSocket, Honest, FeedFields

LEMMA SnapshotIsCandid ==
    ASSUME NEW f, Honest(f)
    PROVE  Candid(Snapshot(f))
BY DEF Snapshot, Honest, Candid, VectorFields, FeedFields

LEMMA NoVectorIsCandid == Candid(NoVector)
BY DEF NoVector, Candid, VectorFields

LEMMA InitHonest == MarketInit => FeedHonest
BY NoVectorIsCandid DEF MarketInit, EmptyFeed, FeedHonest, Honest, FeedFields

LEMMA VolatileHonest == Volatile => FeedHonest'
BY NoVectorIsCandid DEF Volatile, EmptyFeed, FeedHonest, Honest, FeedFields

\* What keeps the vectors and leaves an honest state.
LEMMA FeedAloneHonest ==
    ASSUME FeedHonest, Honest(feed'), UNCHANGED vec
    PROVE  FeedHonest'
BY DEF FeedHonest

LEMMA FeedStepsHonest ==
    ASSUME FeedHonest,
           \/ SocketOpens \/ SocketErrors \/ SocketCloses \/ Reconnects
           \/ OrphanCloses \/ RefreshTicks \/ Weather \/ TimePasses \/ ClosesFeed
           \/ \E kind \in Kinds : Hears(kind)
           \/ \E got \in Arrivals : RestSettles(got)
    PROVE  FeedHonest'
<1>1. Honest(feed)
  BY DEF FeedHonest
<1>2. CASE SocketOpens \/ SocketErrors
  BY <1>1, <1>2, MergeIsHonest, FeedAloneHonest DEF SocketOpens, SocketErrors, FeedOnly, Honest, FeedFields
<1>3. CASE SocketCloses
  BY <1>1, <1>3, ClosedIsHonest, FeedAloneHonest DEF SocketCloses, FeedOnly
<1>4. CASE Reconnects
  <2>1. Honest([feed EXCEPT !.timer = FALSE])
    BY <1>1 DEF Honest, FeedFields
  <2> QED
    BY <2>1, <1>4, StreamingIsHonest, FeedAloneHonest DEF Reconnects, FeedOnly
<1>5. CASE OrphanCloses
  <2>1. Honest([feed EXCEPT !.orphan = FALSE])
    BY <1>1 DEF Honest, FeedFields
  <2> QED
    BY <2>1, <1>5, ClosedIsHonest, FeedAloneHonest DEF OrphanCloses, FeedOnly
<1>6. CASE RefreshTicks \/ Weather
  BY <1>1, <1>6, FeedAloneHonest DEF RefreshTicks, Weather, FeedOnly
<1>7. CASE TimePasses
  <2>1. Honest(feed')
    BY <1>1, <1>7 DEF TimePasses, Honest, FeedFields
  <2> QED
    BY <2>1, <1>7, FeedAloneHonest DEF TimePasses, FeedOnly
<1>8. CASE ClosesFeed
  <2>1. Honest(feed')
    BY <1>1, <1>8 DEF ClosesFeed, Honest, FeedFields
  <2> QED
    BY <2>1, <1>8, FeedAloneHonest DEF ClosesFeed
<1>9. CASE \E kind \in Kinds : Hears(kind)
  <2>1. PICK kind \in Kinds : Hears(kind)
    BY <1>9
  <2> QED
    BY <2>1, <1>1, MessageIsHonest, FeedAloneHonest DEF Hears, FeedOnly
<1>10. CASE \E got \in Arrivals : RestSettles(got)
  <2>1. PICK got \in Arrivals : RestSettles(got)
    BY <1>10
  <2> QED
    BY <2>1, <1>1, RefreshIsHonest, FeedAloneHonest DEF RestSettles, FeedOnly
<1> QED
  BY <1>2, <1>3, <1>4, <1>5, <1>6, <1>7, <1>8, <1>9, <1>10

\* A cycle's vector changes to a candid one.
LEMMA VectorCandid ==
    ASSUME FeedHonest, Honest(feed'), NEW c \in Cycles, NEW r, Candid(r), vec' = [vec EXCEPT ![c] = r]
    PROVE  FeedHonest'
BY DEF FeedHonest

LEMMA CycleStepsHonest ==
    ASSUME FeedHonest, NEW c \in Cycles,
           \/ StartsCycle(c) \/ RequestFails(c) \/ BuildsVector(c) \/ LogsVector(c)
           \/ PublishesVector(c) \/ \E got \in Arrivals : TakesSnapshot(c, got)
    PROVE  FeedHonest'
<1>1. Honest(feed) /\ DOMAIN vec = Cycles /\ Candid(vec[c])
  BY DEF FeedHonest
<1>2. CASE StartsCycle(c)
  BY <1>1, <1>2, StreamingIsHonest, FeedAloneHonest DEF StartsCycle
<1>3. CASE RequestFails(c)
  <2>1. PICK r : r = [vec[c] EXCEPT !.asked = @ + 1]
    OBVIOUS
  <2>2. Candid(r)
    BY <1>1, <2>1 DEF Candid, VectorFields
  <2>3. vec' = [vec EXCEPT ![c] = r] /\ UNCHANGED feed
    BY <1>1, <1>3, <2>1 DEF RequestFails
  <2> QED
    BY <1>1, <2>2, <2>3, VectorCandid
<1>4. CASE BuildsVector(c)
  BY <1>1, <1>4, FeedAloneHonest DEF BuildsVector
<1>5. CASE LogsVector(c) \/ PublishesVector(c)
  <2>1. UNCHANGED feed /\ (UNCHANGED vec \/ vec' = [vec EXCEPT ![c] = NoVector])
    BY <1>5 DEF LogsVector, PublishesVector, Ends
  <2> QED
    BY <1>1, <2>1, NoVectorIsCandid, VectorCandid, FeedAloneHonest
<1>6. CASE \E got \in Arrivals : TakesSnapshot(c, got)
  <2>1. PICK got \in Arrivals : TakesSnapshot(c, got)
    BY <1>6
  <2>2. Honest(feed')
    BY <1>1, <2>1, RefreshIsHonest DEF TakesSnapshot
  <2>3. UNCHANGED vec \/ vec' = [vec EXCEPT ![c] = Snapshot(feed')]
    BY <2>1 DEF TakesSnapshot
  <2>4. Candid(Snapshot(feed'))
    BY <2>2, SnapshotIsCandid
  <2> QED
    BY <2>2, <2>3, <2>4, VectorCandid, FeedAloneHonest
<1> QED
  BY <1>2, <1>3, <1>4, <1>5, <1>6

LEMMA StepHonest == FeedHonest /\ [MarketNext]_marketVars => FeedHonest'
<1> SUFFICES ASSUME FeedHonest, [MarketNext]_marketVars PROVE FeedHonest'
  OBVIOUS
<1>1. Honest(feed)
  BY DEF FeedHonest
<1>2. CASE UNCHANGED marketVars
  BY <1>1, <1>2, FeedAloneHonest DEF marketVars
<1>3. CASE \E v \in DOMAIN stream : TakesVector(v)
  BY <1>1, <1>3, FeedAloneHonest DEF TakesVector, StrategyOnly
<1>4. CASE \/ SearchesRules \/ PublishesLog \/ InsertsSignal \/ LogsSignal
           \/ PublishesSignal \/ Acknowledges \/ HandlerFails
  BY <1>1, <1>4, FeedAloneHonest
     DEF SearchesRules, PublishesLog, InsertsSignal, LogsSignal, PublishesSignal,
         Acknowledges, HandlerFails, StrategyOnly
<1>5. CASE \E i \in Ingestors : \/ StartsIngest(i) \/ Announces(i) \/ IngestFails(i) \/ IngestEnds(i)
                                \/ \E x \in Ideas : RegistersSeen(i, x) \/ Upserts(i, x)
                                \/ \E items \in Fetched(i) : SourceEnds(i, items) \/ RegisterFails(i, items)
  <2>1. UNCHANGED <<feed, vec>>
    BY <1>5 DEF StartsIngest, Announces, IngestFails, IngestEnds, RegistersSeen,
                Upserts, SourceEnds, RegisterFails, IngestOnly
  <2> QED
    BY <1>1, <2>1, FeedAloneHonest
<1>6. CASE Boots \/ Stops
  BY <1>6, VolatileHonest DEF Boots, Stops
<1> QED
  BY <1>2, <1>3, <1>4, <1>5, <1>6, FeedStepsHonest, CycleStepsHonest DEF MarketNext

\* A vector that is old and does not say so counts its age from something else than a price, for any number of
\* cycles, however long a state stays fresh and whatever disturbs the feed.
THEOREM FreshIsExplainedHolds == MarketSpec => []FreshIsExplained
<1>1. FeedHonest => FreshIsExplained
  BY DEF FeedHonest, Candid, FreshIsExplained
<1> QED
  BY <1>1, InitHonest, StepHonest, PTL DEF MarketSpec

(***************************************************************************)
(* MarketPipeline: what agent 2 writes, in the order it writes it.         *)
(***************************************************************************)
Tracks    == [state : {"waiting", "done", "dead"}, tries : Nat, rows : Nat, events : Nat, sent : Nat, again : Nat]
HandSteps == {"idle", "search", "insert", "log", "publish", "tell", "ack"}
Works     == [v : Nat, step : HandSteps]

\* Track t of a vector that agent 2 works on at step: what comes next has its predecessor already, and the vector was
\* counted as handled again before a second signal is sent.
Ahead(t, step) ==
    /\ step = "log" => t.events + 1 <= t.rows
    /\ step = "publish" => t.sent + 1 <= t.events
    /\ step \in {"search", "insert", "log", "publish", "tell"} => t.sent <= t.again
InOrder(t) == t.sent <= t.events /\ t.events <= t.rows /\ t.sent <= 1 + t.again
Signalled  ==
    /\ stream \in Seq(Tracks) /\ hand \in Works
    /\ hand # NoWork => hand.v \in DOMAIN stream /\ Ahead(stream[hand.v], hand.step)
    /\ \A v \in DOMAIN stream : InOrder(stream[v])

LEMMA InitSignalled == MarketInit => Signalled
BY DEF MarketInit, NoWork, Signalled, Works, HandSteps

\* The step of a handler leaves the other vectors alone.
LEMMA TrackSignalled ==
    ASSUME Signalled, NEW v \in DOMAIN stream, NEW t \in Tracks, InOrder(t), stream' = [stream EXCEPT ![v] = t],
           hand' \in Works, hand' = NoWork \/ (hand'.v = v /\ Ahead(t, hand'.step))
    PROVE  Signalled'
<1>1. stream' \in Seq(Tracks) /\ DOMAIN stream' = DOMAIN stream
  BY DEF Signalled
<1>2. stream'[v] = t /\ \A w \in DOMAIN stream : w # v => stream'[w] = stream[w]
  BY DEF Signalled
<1> QED
  BY <1>1, <1>2 DEF Signalled

\* The step that leaves the stream alone.
LEMMA HandSignalled ==
    ASSUME Signalled, UNCHANGED stream, hand' \in Works,
           hand' # NoWork => hand'.v \in DOMAIN stream /\ Ahead(stream[hand'.v], hand'.step)
    PROVE  Signalled'
BY DEF Signalled

LEMMA AppendSignalled ==
    ASSUME Signalled, UNCHANGED hand, stream' = Append(stream, Published)
    PROVE  Signalled'
<1>1. Published \in Tracks /\ InOrder(Published)
  BY DEF Published, Tracks, InOrder
<1>2. stream \in Seq(Tracks)
  BY DEF Signalled
<1>3. /\ stream' \in Seq(Tracks) /\ DOMAIN stream' = 1..Len(stream) + 1
      /\ \A v \in 1..Len(stream) : stream'[v] = stream[v]
      /\ stream'[Len(stream) + 1] = Published
  BY <1>1, <1>2
<1>4. DOMAIN stream = 1..Len(stream)
  BY <1>2
<1> QED
  BY <1>1, <1>3, <1>4 DEF Signalled

LEMMA TakeSignalled ==
    ASSUME Signalled, NEW v \in DOMAIN stream, TakesVector(v)
    PROVE  Signalled'
<1>1. stream \in Seq(Tracks)
  BY DEF Signalled
<1>2. stream[v] \in Tracks /\ InOrder(stream[v]) /\ v \in Nat
  BY <1>1 DEF Signalled
<1>3. PICK t : t = [stream[v] EXCEPT !.again = IF stream[v].sent > 0 THEN @ + 1 ELSE @]
  OBVIOUS
<1>4. t \in Tracks /\ InOrder(t) /\ t.sent <= t.again
  BY <1>2, <1>3 DEF Tracks, InOrder
<1>5. stream' = [stream EXCEPT ![v] = t]
  BY <1>1, <1>2, <1>3 DEF TakesVector, Tracks
<1>6. hand' = [v |-> v, step |-> "search"]
  BY DEF TakesVector
<1> QED
  BY <1>2, <1>4, <1>5, <1>6, TrackSignalled DEF Ahead, Works, HandSteps

LEMMA WorkingOn ==
    ASSUME Signalled, hand.step # "idle"
    PROVE  /\ hand # NoWork /\ DOMAIN hand = {"v", "step"} /\ hand.v \in DOMAIN stream /\ hand.v \in Nat
           /\ stream[hand.v] \in Tracks /\ InOrder(stream[hand.v]) /\ Ahead(stream[hand.v], hand.step)
<1>1. stream \in Seq(Tracks) /\ hand \in Works
  BY DEF Signalled
<1>2. hand # NoWork
  BY DEF NoWork
<1>3. hand.v \in DOMAIN stream /\ Ahead(stream[hand.v], hand.step) /\ InOrder(stream[hand.v])
  BY <1>2 DEF Signalled
<1> QED
  BY <1>1, <1>2, <1>3 DEF Works

\* Search and log: the hand moves to a step that asks nothing new of the track.
LEMMA MoveSignalled ==
    ASSUME Signalled, UNCHANGED stream, NEW step \in {"insert", "tell", "ack"}, hand.step \in {"search", "tell"},
           hand' = [hand EXCEPT !.step = step]
    PROVE  Signalled'
<1>1. hand.step # "idle"
  OBVIOUS
<1>2. hand' \in Works /\ hand'.v = hand.v /\ hand'.step = step
  BY <1>1, WorkingOn DEF Signalled, Works, HandSteps
<1>3. Ahead(stream[hand.v], step)
  BY <1>1, WorkingOn DEF Ahead
<1> QED
  BY <1>1, <1>2, <1>3, WorkingOn, HandSignalled

\* A write: the field f of the track grows by one and the hand moves on.
LEMMA WriteSignalled ==
    ASSUME Signalled, NEW step \in {"log", "publish", "ack"}, hand' = [hand EXCEPT !.step = step],
           \/ hand.step = "insert" /\ step = "log" /\ stream' = [stream EXCEPT ![hand.v].rows = @ + 1]
           \/ hand.step = "log" /\ step = "publish" /\ stream' = [stream EXCEPT ![hand.v].events = @ + 1]
           \/ hand.step = "publish" /\ step = "ack" /\ stream' = [stream EXCEPT ![hand.v].sent = @ + 1]
    PROVE  Signalled'
<1>1. hand.step # "idle"
  OBVIOUS
<1>2. PICK v : v = hand.v
  OBVIOUS
<1>3. PICK s : s = stream[v]
  OBVIOUS
<1>4. v \in DOMAIN stream /\ s \in Tracks /\ InOrder(s) /\ Ahead(s, hand.step)
  BY <1>1, <1>2, <1>3, WorkingOn
<1>5. hand' \in Works /\ hand'.v = v /\ hand'.step = step
  BY <1>1, <1>2, WorkingOn DEF Signalled, Works, HandSteps
<1>6. CASE hand.step = "insert" /\ step = "log" /\ stream' = [stream EXCEPT ![hand.v].rows = @ + 1]
  <2>1. PICK t : t = [s EXCEPT !.rows = @ + 1]
    OBVIOUS
  <2>2. t \in Tracks /\ InOrder(t) /\ Ahead(t, step)
    BY <1>4, <1>6, <2>1 DEF Tracks, InOrder, Ahead
  <2>3. stream' = [stream EXCEPT ![v] = t]
    BY <1>2, <1>3, <1>4, <1>6, <2>1 DEF Tracks
  <2> QED
    BY <1>4, <1>5, <2>2, <2>3, TrackSignalled
<1>7. CASE hand.step = "log" /\ step = "publish" /\ stream' = [stream EXCEPT ![hand.v].events = @ + 1]
  <2>1. PICK t : t = [s EXCEPT !.events = @ + 1]
    OBVIOUS
  <2>2. t \in Tracks /\ InOrder(t) /\ Ahead(t, step)
    BY <1>4, <1>7, <2>1 DEF Tracks, InOrder, Ahead
  <2>3. stream' = [stream EXCEPT ![v] = t]
    BY <1>2, <1>3, <1>4, <1>7, <2>1 DEF Tracks
  <2> QED
    BY <1>4, <1>5, <2>2, <2>3, TrackSignalled
<1>8. CASE hand.step = "publish" /\ step = "ack" /\ stream' = [stream EXCEPT ![hand.v].sent = @ + 1]
  <2>1. PICK t : t = [s EXCEPT !.sent = @ + 1]
    OBVIOUS
  <2>2. t \in Tracks /\ InOrder(t) /\ Ahead(t, step)
    BY <1>4, <1>8, <2>1 DEF Tracks, InOrder, Ahead
  <2>3. stream' = [stream EXCEPT ![v] = t]
    BY <1>2, <1>3, <1>4, <1>8, <2>1 DEF Tracks
  <2> QED
    BY <1>4, <1>5, <2>2, <2>3, TrackSignalled
<1> QED
  BY <1>6, <1>7, <1>8

\* The handler is over: agent 2 holds nothing, and the track keeps its counts.
LEMMA EndSignalled ==
    ASSUME Signalled, Acknowledges \/ HandlerFails
    PROVE  Signalled'
<1>1. hand # NoWork /\ hand' = NoWork
  BY DEF Acknowledges, HandlerFails, NoWork
<1>2. NoWork \in Works
  BY DEF NoWork, Works, HandSteps
<1>3. PICK v : v = hand.v
  OBVIOUS
<1>4. PICK s : s = stream[v]
  OBVIOUS
<1>5. v \in DOMAIN stream /\ stream \in Seq(Tracks) /\ InOrder(s)
  BY <1>1, <1>3, <1>4 DEF Signalled
<1>6. s \in Tracks
  BY <1>4, <1>5
<1>7. CASE Acknowledges
  <2>1. PICK t : t = [s EXCEPT !.state = "done"]
    OBVIOUS
  <2>2. t \in Tracks /\ InOrder(t)
    BY <1>5, <1>6, <2>1 DEF Tracks, InOrder
  <2>3. stream' = [stream EXCEPT ![v] = t]
    BY <1>3, <1>4, <1>5, <1>6, <1>7, <2>1 DEF Acknowledges, Tracks
  <2> QED
    BY <1>1, <1>2, <1>5, <2>2, <2>3, TrackSignalled
<1>8. CASE HandlerFails
  <2>1. PICK state \in {"waiting", "dead"} :
            stream' = [stream EXCEPT ![v].tries = @ + 1, ![v].state = state]
    <3>1. stream' = [stream EXCEPT ![v].tries = @ + 1,
                                   ![v].state = IF stream[v].tries + 1 < MaxTries THEN "waiting" ELSE "dead"]
      BY <1>3, <1>8 DEF HandlerFails
    <3> QED
      BY <3>1
  <2>2. PICK t : t = [s EXCEPT !.tries = @ + 1, !.state = state]
    OBVIOUS
  <2>3. t \in Tracks /\ InOrder(t)
    <3>1. t \in Tracks
      <4>1. [s EXCEPT !.tries = @ + 1] \in Tracks
        BY <1>6 DEF Tracks
      <4>2. t = [[s EXCEPT !.tries = @ + 1] EXCEPT !.state = state]
        BY <2>2
      <4> QED
        BY <4>1, <4>2 DEF Tracks
    <3>2. t.rows = s.rows /\ t.events = s.events /\ t.sent = s.sent /\ t.again = s.again
      BY <1>6, <2>2 DEF Tracks
    <3> QED
      BY <1>5, <3>1, <3>2 DEF InOrder
  <2>4. stream' = [stream EXCEPT ![v] = t]
    BY <1>4, <1>5, <1>6, <2>1, <2>2 DEF Tracks
  <2> QED
    BY <1>1, <1>2, <1>5, <2>3, <2>4, TrackSignalled
<1> QED
  BY <1>7, <1>8

LEMMA StepSignalled == Signalled /\ [MarketNext]_marketVars => Signalled'
<1> SUFFICES ASSUME Signalled, [MarketNext]_marketVars PROVE Signalled'
  OBVIOUS
<1>1. CASE UNCHANGED <<stream, hand>>
  BY <1>1 DEF Signalled
<1>2. CASE UNCHANGED marketVars
  BY <1>1, <1>2 DEF marketVars
<1>3. CASE \/ SocketOpens \/ SocketErrors \/ SocketCloses \/ Reconnects
           \/ OrphanCloses \/ RefreshTicks \/ Weather \/ TimePasses \/ ClosesFeed
           \/ \E kind \in Kinds : Hears(kind)
           \/ \E got \in Arrivals : RestSettles(got)
  BY <1>1, <1>3 DEF SocketOpens, SocketErrors, SocketCloses, Reconnects,
     OrphanCloses, RefreshTicks, Weather, TimePasses, ClosesFeed, Hears,
     RestSettles, FeedOnly
<1>4. CASE \E c \in Cycles : \/ StartsCycle(c) \/ RequestFails(c) \/ BuildsVector(c) \/ LogsVector(c)
                             \/ \E got \in Arrivals : TakesSnapshot(c, got)
  BY <1>1, <1>4 DEF StartsCycle, RequestFails, BuildsVector, LogsVector,
     TakesSnapshot, CycleOnly
<1>5. CASE \E c \in Cycles : PublishesVector(c)
  BY <1>1, <1>5, AppendSignalled DEF PublishesVector, CycleOnly
<1>6. CASE \E v \in DOMAIN stream : TakesVector(v)
  BY <1>6, TakeSignalled
<1>7. CASE SearchesRules \/ PublishesLog
  BY <1>7, MoveSignalled DEF SearchesRules, PublishesLog
<1>8. CASE InsertsSignal \/ LogsSignal \/ PublishesSignal
  BY <1>8, WriteSignalled DEF InsertsSignal, LogsSignal, PublishesSignal
<1>9. CASE Acknowledges \/ HandlerFails
  BY <1>9, EndSignalled
<1>10. CASE \E i \in Ingestors : \/ StartsIngest(i) \/ Announces(i) \/ IngestFails(i) \/ IngestEnds(i)
                                 \/ \E x \in Ideas : RegistersSeen(i, x) \/ Upserts(i, x)
                                 \/ \E items \in Fetched(i) : SourceEnds(i, items) \/ RegisterFails(i, items)
  BY <1>1, <1>10 DEF StartsIngest, Announces, IngestFails, IngestEnds, RegistersSeen,
     Upserts, SourceEnds, RegisterFails, IngestOnly
<1>11. CASE Boots \/ Stops
  <2>1. UNCHANGED stream /\ hand' = NoWork
    BY <1>11 DEF Boots, Stops, Volatile
  <2>2. NoWork \in Works
    BY DEF NoWork, Works, HandSteps
  <2> QED
    BY <2>1, <2>2, HandSignalled
<1> QED
  BY <1>2, <1>3, <1>4, <1>5, <1>6, <1>7, <1>8, <1>9, <1>10, <1>11 DEF MarketNext

(***************************************************************************)
(* MarketPipeline: the ideas in the hands of the ingestors.                *)
(***************************************************************************)
IngestFields == {"step", "at", "todo", "mine", "got", "x"}
Shaped       == /\ DOMAIN ingest = Ingestors /\ \A i \in Ingestors : DOMAIN ingest[i] = IngestFields
                /\ DOMAIN ideas = {"seen", "rows", "told"} /\ DOMAIN fate = {"stored", "lost"}

\* An ingestor at rest holds no ideas, and one that stores has put together what its sources gave.
Tidy(r)   == /\ r.step = "idle" => r.mine = {} /\ r.got = {}
             /\ r.step \in {"store", "announce"} => r.mine = {}
Holds(r)  == r.mine \cup r.got
Telling(x) == \E i \in Ingestors : ingest[i].step = "announce" /\ ingest[i].x = x
HasRow(x)  == \E k \in DOMAIN ideas.rows : ideas.rows[k].first = x
\* Every idea seen is stored, held or lost; the first idea of a row is told or about to be, if it was accepted; no other
\* idea is.  Nothing is ingested while the process is down, and one ingestion runs at boot.
Seen     == \A x \in ideas.seen : x \in fate.stored \/ x \in fate.lost \/ \E i \in Ingestors : x \in Holds(ingest[i])
Heralded == \A k \in DOMAIN ideas.rows :
               LET x == ideas.rows[k].first IN
               Review[x] = "ACCEPTED" => x \in ideas.told \/ x \in fate.lost \/ Telling(x)
Firsts   == (\A x \in ideas.told : HasRow(x)) /\ \A i \in Ingestors : ingest[i].step = "announce" => HasRow(ingest[i].x)
Idling   == /\ proc = "down" => \A i \in Ingestors : ingest[i].step = "idle"
            /\ proc = "boot" => \A i \in Ingestors : i # First => ingest[i].step = "idle"
Kept     == Shaped /\ Idling /\ (\A i \in Ingestors : Tidy(ingest[i])) /\ Seen /\ Heralded /\ Firsts

LEMMA AtRestIsTidy == DOMAIN AtRest = IngestFields /\ Tidy(AtRest) /\ AtRest.step = "idle" /\ Holds(AtRest) = {}
BY DEF AtRest, IngestFields, Tidy, Holds

LEMMA InitKept == MarketInit => Kept
<1> SUFFICES ASSUME MarketInit PROVE Kept
  OBVIOUS
<1>1. /\ ingest = [i \in Ingestors |-> AtRest] /\ ideas = [seen |-> {}, rows |-> << >>, told |-> {}]
      /\ fate = [stored |-> {}, lost |-> {}]
  BY DEF MarketInit
<1>2. Shaped /\ Idling /\ \A i \in Ingestors : Tidy(ingest[i]) /\ ingest[i].step = "idle"
  BY <1>1, AtRestIsTidy DEF Shaped, Idling
<1>3. ideas.seen = {} /\ ideas.told = {} /\ DOMAIN ideas.rows = {}
  BY <1>1
<1>4. Seen /\ Heralded /\ Firsts
  BY <1>2, <1>3 DEF Seen, Heralded, Firsts
<1> QED
  BY <1>2, <1>4 DEF Kept

\* What leaves the ingestors and their tables alone; the process may stop while it works.
LEMMA AwayKept ==
    ASSUME Kept, UNCHANGED <<ingest, ideas, fate>>, proc' = proc \/ proc' = "stopping"
    PROVE  Kept'
<1>1. Shaped' /\ Seen' /\ (\A i \in Ingestors : Tidy(ingest'[i]))
  BY DEF Kept, Shaped, Seen, Holds
<1>2. Heralded' /\ Firsts'
  BY DEF Kept, Heralded, Firsts, Telling, HasRow
<1>3. Idling'
  BY DEF Kept, Idling
<1> QED
  BY <1>1, <1>2, <1>3 DEF Kept

\* The process starts: every ingestor was at rest.
LEMMA BootKept ==
    ASSUME Kept, Boots
    PROVE  Kept'
<1>1. UNCHANGED <<ideas, fate>> /\ proc = "down" /\ proc' = "boot"
  BY DEF Boots
<1>2. PICK r : r = [AtRest EXCEPT !.step = "register", !.at = 1, !.todo = scene.sources[1]]
  OBVIOUS
<1>3. DOMAIN r = IngestFields /\ Tidy(r) /\ r.step = "register"
  BY <1>2 DEF AtRest, IngestFields, Tidy
<1>4. ingest' = [i \in Ingestors |-> IF i = First THEN r ELSE AtRest]
  BY <1>2 DEF Boots
<1>5. Shaped' /\ Idling' /\ \A i \in Ingestors : Tidy(ingest'[i])
  BY <1>1, <1>3, <1>4, AtRestIsTidy DEF Kept, Shaped, Idling
<1>6. \A i \in Ingestors : ingest[i].step = "idle" /\ Holds(ingest[i]) = {}
  BY <1>1 DEF Kept, Idling, Tidy, Holds
<1>7. Seen'
  BY <1>1, <1>6 DEF Kept, Seen
<1>8. \A i \in Ingestors : ingest'[i].step # "announce"
  BY <1>3, <1>4, AtRestIsTidy
<1>9. Heralded'
  BY <1>1, <1>6 DEF Kept, Heralded, Telling
<1>10. Firsts'
  BY <1>1, <1>8 DEF Kept, Firsts, HasRow
<1> QED
  BY <1>5, <1>7, <1>9, <1>10 DEF Kept

\* The process stops: what the ingestors held is lost.
LEMMA StopKept ==
    ASSUME Kept, Stops
    PROVE  Kept'
<1>1. UNCHANGED ideas /\ proc' = "down" /\ ingest' = [i \in Ingestors |-> AtRest]
  BY DEF Stops
<1>2. PICK some : some = UNION {InHands(i) \cup ToAnnounce(i) : i \in Ingestors}
  OBVIOUS
<1>3. fate' = [fate EXCEPT !.lost = @ \cup some]
  BY <1>2 DEF Stops, Loses
<1>4. DOMAIN fate' = {"stored", "lost"} /\ fate'.stored = fate.stored /\ fate'.lost = fate.lost \cup some
  BY <1>3 DEF Kept, Shaped
<1>5. Shaped' /\ Idling' /\ \A i \in Ingestors : Tidy(ingest'[i]) /\ ingest'[i].step = "idle"
  BY <1>1, <1>4, AtRestIsTidy DEF Kept, Shaped, Idling
<1>6. \A i \in Ingestors : Holds(ingest[i]) \subseteq some /\ (ingest[i].step = "announce" => ingest[i].x \in some)
  BY <1>2 DEF InHands, ToAnnounce, Holds
<1>7. Seen'
  BY <1>1, <1>4, <1>6 DEF Kept, Seen
<1>8. Heralded'
  BY <1>1, <1>4, <1>6 DEF Kept, Heralded, Telling
<1>9. Firsts'
  BY <1>1, <1>5 DEF Kept, Firsts, HasRow
<1> QED
  BY <1>5, <1>7, <1>8, <1>9 DEF Kept

\* Ingestor i becomes r.
LEMMA IngestorKept ==
    ASSUME Kept, NEW i \in Ingestors, NEW r, DOMAIN r = IngestFields, ingest' = [ingest EXCEPT ![i] = r], Tidy(r),
           DOMAIN ideas' = {"seen", "rows", "told"}, DOMAIN fate' = {"stored", "lost"},
           proc' = "up" \/ (ingest[i].step # "idle" /\ (proc' = proc \/ (proc = "boot" /\ r.step = "idle"))),
           fate.stored \subseteq fate'.stored, fate.lost \subseteq fate'.lost, ideas.told \subseteq ideas'.told,
           \A x \in ideas'.seen : x \in ideas.seen \/ x \in Holds(r),
           \A x \in Holds(ingest[i]) : x \in fate'.stored \/ x \in fate'.lost \/ x \in Holds(r),
           \A k \in DOMAIN ideas.rows : k \in DOMAIN ideas'.rows /\ ideas'.rows[k].first = ideas.rows[k].first,
           \A k \in DOMAIN ideas'.rows : k \in DOMAIN ideas.rows \/ (r.step = "announce" /\ r.x = ideas'.rows[k].first),
           ingest[i].step = "announce" /\ Review[ingest[i].x] = "ACCEPTED" =>
              ingest[i].x \in ideas'.told \/ ingest[i].x \in fate'.lost,
           \A x \in ideas'.told : x \in ideas.told \/ (ingest[i].step = "announce" /\ x = ingest[i].x),
           r.step = "announce" => \E k \in DOMAIN ideas'.rows : ideas'.rows[k].first = r.x
    PROVE  Kept'
<1>1. ingest'[i] = r /\ DOMAIN ingest' = Ingestors /\ \A j \in Ingestors : j # i => ingest'[j] = ingest[j]
  BY DEF Kept, Shaped
<1>2. Shaped'
  BY <1>1 DEF Kept, Shaped
<1>3. \A j \in Ingestors : Tidy(ingest'[j])
  <2>1. \A j \in Ingestors : Tidy(ingest[j])
    BY DEF Kept
  <2> QED
    BY <1>1, <2>1 DEF Tidy
<1>4. Idling'
  BY <1>1 DEF Kept, Idling
<1>5. Seen'
  <2> SUFFICES ASSUME NEW x \in ideas'.seen
               PROVE  x \in fate'.stored \/ x \in fate'.lost \/ \E j \in Ingestors : x \in Holds(ingest'[j])
    BY DEF Seen
  <2>1. CASE x \in Holds(r)
    BY <1>1, <2>1
  <2>2. CASE x \in ideas.seen
    <3>1. CASE x \in fate.stored \/ x \in fate.lost
      BY <3>1
    <3>2. ASSUME NEW j \in Ingestors, x \in Holds(ingest[j])
          PROVE  x \in fate'.stored \/ x \in fate'.lost \/ \E k \in Ingestors : x \in Holds(ingest'[k])
      BY <1>1, <3>2
    <3> QED
      BY <2>2, <3>1, <3>2 DEF Kept, Seen
  <2> QED
    BY <2>1, <2>2
<1>6. \A x : HasRow(x) => HasRow(x)'
  BY DEF HasRow
<1>7. Heralded'
  <2> SUFFICES ASSUME NEW k \in DOMAIN ideas'.rows, NEW x, x = ideas'.rows[k].first, Review[x] = "ACCEPTED"
               PROVE  x \in ideas'.told \/ x \in fate'.lost \/ \E j \in Ingestors : ingest'[j].step = "announce" /\ ingest'[j].x = x
    BY DEF Heralded, Telling
  <2>1. CASE k \notin DOMAIN ideas.rows
    BY <1>1, <2>1
  <2>2. CASE k \in DOMAIN ideas.rows
    <3>1. x = ideas.rows[k].first
      BY <2>2
    <3>2. x \in ideas.told \/ x \in fate.lost \/ \E j \in Ingestors : ingest[j].step = "announce" /\ ingest[j].x = x
      BY <2>2, <3>1 DEF Kept, Heralded, Telling
    <3>3. ASSUME NEW j \in Ingestors, ingest[j].step = "announce", ingest[j].x = x
          PROVE  x \in ideas'.told \/ x \in fate'.lost \/ \E l \in Ingestors : ingest'[l].step = "announce" /\ ingest'[l].x = x
      BY <1>1, <3>3
    <3> QED
      BY <3>2, <3>3
  <2> QED
    BY <2>1, <2>2
<1>8. Firsts'
  <2>1. \A j \in Ingestors : ingest[j].step = "announce" => \E k \in DOMAIN ideas.rows : ideas.rows[k].first = ingest[j].x
    BY DEF Kept, Firsts, HasRow
  <2>2. ASSUME NEW j \in Ingestors, ingest'[j].step = "announce"
        PROVE  \E k \in DOMAIN ideas'.rows : ideas'.rows[k].first = ingest'[j].x
    <3>1. CASE j = i
      BY <1>1, <2>2, <3>1
    <3>2. CASE j # i
      <4>1. ingest'[j] = ingest[j]
        BY <1>1, <3>2
      <4>2. PICK k \in DOMAIN ideas.rows : ideas.rows[k].first = ingest[j].x
        BY <2>1, <2>2, <4>1
      <4>3. k \in DOMAIN ideas'.rows /\ ideas'.rows[k].first = ingest[j].x
        BY <4>2
      <4> QED
        BY <4>1, <4>3
    <3> QED
      BY <3>1, <3>2
  <2>3. ASSUME NEW x \in ideas'.told  PROVE \E k \in DOMAIN ideas'.rows : ideas'.rows[k].first = x
    <3>1. PICK k \in DOMAIN ideas.rows : ideas.rows[k].first = x
      BY <2>3 DEF Kept, Firsts, HasRow
    <3> QED
      BY <3>1
  <2> QED
    BY <2>2, <2>3 DEF Firsts, HasRow
<1> QED
  BY <1>2, <1>3, <1>4, <1>5, <1>7, <1>8 DEF Kept

LEMMA Working ==
    ASSUME Kept, NEW i \in Ingestors
    PROVE  /\ DOMAIN ingest = Ingestors /\ DOMAIN ingest[i] = IngestFields /\ Tidy(ingest[i])
           /\ DOMAIN ideas = {"seen", "rows", "told"} /\ DOMAIN fate = {"stored", "lost"}
           /\ ingest[i].step = "announce" => \E k \in DOMAIN ideas.rows : ideas.rows[k].first = ingest[i].x
BY DEF Kept, Shaped, Firsts, HasRow

LEMMA AbortKept ==
    ASSUME Kept, NEW i \in Ingestors, Aborts(i), ingest[i].step # "idle", UNCHANGED ideas
    PROVE  Kept'
<1>1. PICK some : some = InHands(i) \cup ToAnnounce(i)
  OBVIOUS
<1>2. /\ ingest' = [ingest EXCEPT ![i] = AtRest] /\ fate' = [fate EXCEPT !.lost = @ \cup some]
      /\ proc' = proc \/ proc = "boot"
  BY <1>1 DEF Aborts, Loses
<1>3. DOMAIN fate' = {"stored", "lost"} /\ fate'.stored = fate.stored /\ fate'.lost = fate.lost \cup some
  BY <1>2, Working
<1>4. Holds(ingest[i]) \subseteq some /\ (ingest[i].step = "announce" => ingest[i].x \in some)
  BY <1>1 DEF InHands, ToAnnounce, Holds
<1> QED
  BY <1>2, <1>3, <1>4, Working, AtRestIsTidy, IngestorKept

LEMMA StartKept ==
    ASSUME Kept, NEW i \in Ingestors, StartsIngest(i)
    PROVE  Kept'
<1>1. PICK r : r = [AtRest EXCEPT !.step = "register", !.at = 1, !.todo = scene.sources[1]]
  OBVIOUS
<1>2. DOMAIN r = IngestFields /\ Tidy(r) /\ r.step = "register"
  BY <1>1 DEF AtRest, IngestFields, Tidy
<1>3. /\ ingest' = [ingest EXCEPT ![i] = r] /\ UNCHANGED <<ideas, fate>>
      /\ ingest[i].step = "idle" /\ proc' = "up"
  BY <1>1 DEF StartsIngest
<1>4. Holds(ingest[i]) = {}
  BY <1>3, Working DEF Tidy, Holds
<1> QED
  BY <1>2, <1>3, <1>4, Working, IngestorKept

LEMMA RegisterKept ==
    ASSUME Kept, NEW i \in Ingestors, NEW x, RegistersSeen(i, x)
    PROVE  Kept'
<1>1. PICK r : r = [ingest[i] EXCEPT !.todo = @ \ {x}, !.mine = IF x \in ideas.seen THEN @ ELSE @ \cup {x}]
  OBVIOUS
<1>2. ingest[i].step = "register" /\ UNCHANGED <<proc, fate>>
  BY DEF RegistersSeen
<1>3. /\ DOMAIN r = IngestFields /\ r.step = "register" /\ r.got = ingest[i].got
      /\ r.mine = IF x \in ideas.seen THEN ingest[i].mine ELSE ingest[i].mine \cup {x}
  BY <1>1, <1>2, Working DEF IngestFields
<1>4. ingest' = [ingest EXCEPT ![i] = r]
  BY <1>1, Working DEF RegistersSeen, IngestFields
<1>5. ideas' = [ideas EXCEPT !.seen = @ \cup {x}]
  BY DEF RegistersSeen
<1>6. /\ DOMAIN ideas' = {"seen", "rows", "told"} /\ ideas'.rows = ideas.rows /\ ideas'.told = ideas.told
      /\ ideas'.seen = ideas.seen \cup {x}
  BY <1>5, Working
<1>7. Tidy(r) /\ Holds(ingest[i]) \subseteq Holds(r) /\ (x \in ideas.seen \/ x \in Holds(r))
  BY <1>3 DEF Tidy, Holds
<1> QED
  BY <1>2, <1>3, <1>4, <1>6, <1>7, Working, IngestorKept

LEMMA SourceKept ==
    ASSUME Kept, NEW i \in Ingestors, NEW items, SourceEnds(i, items)
    PROVE  Kept'
<1>1. ingest[i].step = "register" /\ UNCHANGED <<proc, fate, ideas>>
  BY DEF SourceEnds
<1>2. PICK step \in {"store", "register"} : ingest' =
            [ingest EXCEPT ![i].got = Collects(i), ![i].mine = {}, ![i].at = ingest[i].at + 1, ![i].todo = items,
                           ![i].step = step]
  BY DEF SourceEnds, NextSource
<1>3. PICK r : r = [ingest[i] EXCEPT !.got = Collects(i), !.mine = {}, !.at = ingest[i].at + 1, !.todo = items,
                                     !.step = step]
  OBVIOUS
<1>4. DOMAIN r = IngestFields /\ r.step = step /\ r.mine = {} /\ r.got = ingest[i].got \cup ingest[i].mine
  BY <1>3, Working DEF IngestFields, Collects
<1>5. ingest' = [ingest EXCEPT ![i] = r]
  BY <1>2, <1>3, Working DEF IngestFields
<1>6. Tidy(r) /\ Holds(ingest[i]) = Holds(r) /\ r.step # "announce"
  BY <1>4 DEF Tidy, Holds
<1> QED
  BY <1>1, <1>4, <1>5, <1>6, Working, IngestorKept

LEMMA RegisterFailsKept ==
    ASSUME Kept, NEW i \in Ingestors, NEW items, RegisterFails(i, items)
    PROVE  Kept'
<1>1. ingest[i].step = "register"
  BY DEF RegisterFails
<1>2. CASE ingest[i].at = 1
  BY <1>1, <1>2, AbortKept DEF RegisterFails
<1>3. CASE ingest[i].at # 1
  <2>1. UNCHANGED <<proc, ideas>> /\ fate' = [fate EXCEPT !.lost = @ \cup ingest[i].mine]
    BY <1>3 DEF RegisterFails, Loses
  <2>2. PICK step \in {"store", "register"} : ingest' =
            [ingest EXCEPT ![i].mine = {}, ![i].at = ingest[i].at + 1, ![i].todo = items, ![i].step = step]
    BY <1>3 DEF RegisterFails
  <2>3. PICK r : r = [ingest[i] EXCEPT !.mine = {}, !.at = ingest[i].at + 1, !.todo = items, !.step = step]
    OBVIOUS
  <2>4. DOMAIN r = IngestFields /\ r.step = step /\ r.mine = {} /\ r.got = ingest[i].got
    BY <2>3, Working DEF IngestFields
  <2>5. ingest' = [ingest EXCEPT ![i] = r]
    BY <2>2, <2>3, Working DEF IngestFields
  <2>6. DOMAIN fate' = {"stored", "lost"} /\ fate'.stored = fate.stored /\ fate'.lost = fate.lost \cup ingest[i].mine
    BY <2>1, Working
  <2>7. Tidy(r) /\ r.step # "announce" /\ \A x \in Holds(ingest[i]) : x \in fate'.lost \/ x \in Holds(r)
    BY <2>4, <2>6 DEF Tidy, Holds
  <2> QED
    BY <1>1, <2>1, <2>4, <2>5, <2>6, <2>7, Working, IngestorKept
<1> QED
  BY <1>2, <1>3

LEMMA UpsertKept ==
    ASSUME Kept, NEW i \in Ingestors, NEW x, Upserts(i, x)
    PROVE  Kept'
<1>1. ingest[i].step = "store" /\ x \in ingest[i].got /\ UNCHANGED proc /\ fate' = [fate EXCEPT !.stored = @ \cup {x}]
  BY DEF Upserts
<1>2. PICK k \in Keys[x] :
         /\ ideas' = [ideas EXCEPT !.rows = Written(k, x)]
         /\ ingest' = [ingest EXCEPT ![i].got = @ \ {x}, ![i].x = x,
                                     ![i].step = IF k \in DOMAIN ideas.rows THEN "store" ELSE "announce"]
  BY DEF Upserts
<1>3. PICK step \in {"store", "announce"} : step = IF k \in DOMAIN ideas.rows THEN "store" ELSE "announce"
  OBVIOUS
<1>4. PICK r : r = [ingest[i] EXCEPT !.got = @ \ {x}, !.x = x, !.step = step]
  OBVIOUS
<1>5. DOMAIN r = IngestFields /\ r.step = step /\ r.x = x /\ r.got = ingest[i].got \ {x} /\ r.mine = ingest[i].mine
  BY <1>4, Working DEF IngestFields
<1>6. ingest' = [ingest EXCEPT ![i] = r]
  BY <1>2, <1>3, <1>4, Working DEF IngestFields
<1>7. PICK rows : rows = Written(k, x)
  OBVIOUS
<1>8. /\ DOMAIN rows = DOMAIN ideas.rows \cup {k} /\ rows[k].first = IF k \in DOMAIN ideas.rows THEN ideas.rows[k].first ELSE x
      /\ \A j \in DOMAIN ideas.rows : rows[j].first = ideas.rows[j].first
  BY <1>7 DEF Written
<1>9. DOMAIN ideas' = {"seen", "rows", "told"} /\ ideas'.rows = rows /\ ideas'.told = ideas.told /\ ideas'.seen = ideas.seen
  BY <1>2, <1>7, Working
<1>10. DOMAIN fate' = {"stored", "lost"} /\ fate'.stored = fate.stored \cup {x} /\ fate'.lost = fate.lost
  BY <1>1, Working
<1>11. Tidy(r) /\ \A y \in Holds(ingest[i]) : y \in fate'.stored \/ y \in Holds(r)
  <2>1. ingest[i].mine = {}
    BY <1>1, Working DEF Tidy
  <2> QED
    BY <1>3, <1>5, <1>10, <2>1 DEF Tidy, Holds
<1>12. /\ \A j \in DOMAIN rows : j \in DOMAIN ideas.rows \/ (r.step = "announce" /\ r.x = rows[j].first)
       /\ r.step = "announce" => \E j \in DOMAIN rows : rows[j].first = r.x
  BY <1>3, <1>5, <1>8
<1> QED
  BY <1>1, <1>5, <1>6, <1>8, <1>9, <1>10, <1>11, <1>12, Working, IngestorKept

LEMMA AnnounceKept ==
    ASSUME Kept, NEW i \in Ingestors, Announces(i)
    PROVE  Kept'
<1>1. ingest[i].step = "announce" /\ UNCHANGED <<proc, fate>>
  BY DEF Announces
<1>2. PICK r : r = [ingest[i] EXCEPT !.step = "store"]
  OBVIOUS
<1>3. DOMAIN r = IngestFields /\ r.step = "store" /\ r.got = ingest[i].got /\ r.mine = ingest[i].mine
  BY <1>2, Working DEF IngestFields
<1>4. ingest' = [ingest EXCEPT ![i] = r]
  BY <1>2, Working DEF Announces, IngestFields
<1>5. ideas' = [ideas EXCEPT !.told = IF Review[ingest[i].x] = "ACCEPTED" THEN @ \cup {ingest[i].x} ELSE @]
  BY DEF Announces, ReviewStatus
<1>6. /\ DOMAIN ideas' = {"seen", "rows", "told"} /\ ideas'.rows = ideas.rows /\ ideas'.seen = ideas.seen
      /\ ideas'.told = IF Review[ingest[i].x] = "ACCEPTED" THEN ideas.told \cup {ingest[i].x} ELSE ideas.told
  BY <1>5, Working
<1>7. Tidy(r) /\ Holds(ingest[i]) = Holds(r)
  BY <1>1, <1>3, Working DEF Tidy, Holds
<1> QED
  BY <1>1, <1>3, <1>4, <1>6, <1>7, Working, IngestorKept

LEMMA EndKept ==
    ASSUME Kept, NEW i \in Ingestors, IngestEnds(i)
    PROVE  Kept'
<1>1. /\ ingest[i].step = "store" /\ ingest[i].got = {} /\ UNCHANGED <<ideas, fate>>
      /\ ingest' = [ingest EXCEPT ![i] = AtRest] /\ proc' = (IF proc = "boot" THEN "up" ELSE proc)
  BY DEF IngestEnds
<1>2. Holds(ingest[i]) = {}
  BY <1>1, Working DEF Tidy, Holds
<1> QED
  BY <1>1, <1>2, Working, AtRestIsTidy, IngestorKept

LEMMA StepKept == Kept /\ [MarketNext]_marketVars => Kept'
<1> SUFFICES ASSUME Kept, [MarketNext]_marketVars PROVE Kept'
  OBVIOUS
<1>1. CASE UNCHANGED marketVars
  BY <1>1, AwayKept DEF marketVars
<1>2. CASE \/ SocketOpens \/ SocketErrors \/ SocketCloses \/ Reconnects
           \/ OrphanCloses \/ RefreshTicks \/ Weather \/ TimePasses \/ ClosesFeed
           \/ \E kind \in Kinds : Hears(kind)
           \/ \E got \in Arrivals : RestSettles(got)
  BY <1>2, AwayKept DEF SocketOpens, SocketErrors, SocketCloses, Reconnects,
     OrphanCloses, RefreshTicks, Weather, TimePasses, ClosesFeed, Hears,
     RestSettles, FeedOnly
<1>3. CASE \E c \in Cycles : \/ StartsCycle(c) \/ RequestFails(c) \/ BuildsVector(c)
                             \/ LogsVector(c) \/ PublishesVector(c)
                             \/ \E got \in Arrivals : TakesSnapshot(c, got)
  BY <1>3, AwayKept DEF StartsCycle, RequestFails, BuildsVector, LogsVector,
     PublishesVector, TakesSnapshot, CycleOnly
<1>4. CASE \/ \E v \in DOMAIN stream : TakesVector(v)
           \/ SearchesRules \/ PublishesLog \/ InsertsSignal \/ LogsSignal
           \/ PublishesSignal \/ Acknowledges \/ HandlerFails
  BY <1>4, AwayKept
     DEF TakesVector, SearchesRules, PublishesLog, InsertsSignal, LogsSignal,
         PublishesSignal, Acknowledges, HandlerFails, StrategyOnly
<1>5. CASE \E i \in Ingestors : \/ StartsIngest(i) \/ Announces(i) \/ IngestFails(i) \/ IngestEnds(i)
                                \/ \E x \in Ideas : RegistersSeen(i, x) \/ Upserts(i, x)
                                \/ \E items \in Fetched(i) : SourceEnds(i, items) \/ RegisterFails(i, items)
  <2>1. PICK i \in Ingestors : \/ StartsIngest(i) \/ Announces(i) \/ IngestFails(i) \/ IngestEnds(i)
                               \/ \E x \in Ideas : RegistersSeen(i, x) \/ Upserts(i, x)
                               \/ \E items \in Fetched(i) : SourceEnds(i, items) \/ RegisterFails(i, items)
    BY <1>5
  <2>2. CASE IngestFails(i)
    <3>1. Aborts(i) /\ ingest[i].step # "idle" /\ UNCHANGED ideas
      BY <2>2 DEF IngestFails
    <3> QED
      BY <3>1, AbortKept
  <2>3. CASE \E x \in Ideas : RegistersSeen(i, x) \/ Upserts(i, x)
    BY <2>3, RegisterKept, UpsertKept
  <2>4. CASE \E items \in Fetched(i) : SourceEnds(i, items) \/ RegisterFails(i, items)
    BY <2>4, SourceKept, RegisterFailsKept
  <2> QED
    BY <2>1, <2>2, <2>3, <2>4, StartKept, AnnounceKept, EndKept
<1>6. CASE Boots \/ Stops
  BY <1>6, BootKept, StopKept
<1> QED
  BY <1>1, <1>2, <1>3, <1>4, <1>5, <1>6 DEF MarketNext

\* Every idea is accounted for between the sources, the rules and the signals, for any number of overlapping
\* ingestions, any ideas, keys and judgement of them: one that is never taken again is stored or held, but for those an
\* ingestion held when a step of it failed or the process stopped; the first idea of a row is announced if it was accepted,
\* and no other; every signal has its row and its event, and a second one for the same vector has a second delivery.
THEOREM WorkIsAccountedForHolds == MarketSpec => []WorkIsAccountedFor
<1>1. Kept => /\ ideas.seen \subseteq fate.stored \cup fate.lost \cup UNION {InHands(i) : i \in Ingestors}
              /\ ideas.told \subseteq {ideas.rows[k].first : k \in DOMAIN ideas.rows}
  BY DEF Kept, Seen, Holds, InHands, Firsts, HasRow
<1>2. ASSUME Kept, NEW k \in DOMAIN ideas.rows, NEW x, x = ideas.rows[k].first, Review[x] = "ACCEPTED"
      PROVE  x \in ideas.told \cup fate.lost \cup UNION {ToAnnounce(i) : i \in Ingestors}
  <2>1. x \in ideas.told \/ x \in fate.lost \/ Telling(x)
    BY <1>2 DEF Kept, Heralded
  <2> QED
    BY <2>1 DEF Telling, ToAnnounce
<1>3. Signalled => \A v \in DOMAIN stream : /\ stream[v].sent <= stream[v].events /\ stream[v].events <= stream[v].rows
                                            /\ stream[v].sent <= 1 + stream[v].again
  BY DEF Signalled, InOrder
<1>4. Kept /\ Signalled => WorkIsAccountedFor
  BY <1>1, <1>2, <1>3 DEF WorkIsAccountedFor, ReviewStatus
<1> QED
  BY <1>4, InitKept, InitSignalled, StepKept, StepSignalled, PTL DEF MarketSpec
=============================================================================
