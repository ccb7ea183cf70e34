-------------------------------- MODULE Trading --------------------------------
(***************************************************************************)
(* The trading of one market: processTick and processNewMarketState of     *)
(* internal/engine/worker.go with the prices and orders of                 *)
(* internal/exchange/polymarket/client.go.  The worker keeps the position  *)
(* it believes it has in memory; the exchange knows the real one.  The     *)
(* life of the worker around its ticks is the subject of MarketLifecycle.  *)
(***************************************************************************)
EXTENDS Strategy

CONSTANTS
  Quotes,        \* the quotes the exchange may answer with
  StopTTE,       \* no decision with less time to expiry
  MaxOrders,     \* bound: orders placed
  MaxRestarts    \* bound: crashes of the process

ASSUME TradingAssumption ==
  /\ Quotes \subseteq [bidUp : 0 .. Unit, askUp : 0 .. Unit,
                       bidDown : 0 .. Unit, askDown : 0 .. Unit]
  /\ \A qt \in Quotes : qt.bidUp <= qt.askUp /\ qt.bidDown <= qt.askDown
  /\ StopTTE \in Int
  /\ MaxOrders \in Nat /\ MaxRestarts \in Nat

VARIABLES
  pc,        \* "idle", "placing" an order, or "down": the process is gone
  quote,     \* askUp, bidUp, askDown, bidDown of the worker
  tte,       \* time to expiry
  settled,   \* are more than decisionDebounceMs over since lastDecision?
  pos,       \* the position in the worker's memory
  order,     \* the last order that was decided
  real,      \* the position at the exchange
  recorded,  \* the position the rows of the orders table add up to
  forgotten, \* history: what earlier processes bought
  drifted,   \* history: was an order matched in part, or its reply lost?
  largest,   \* history: the largest size decided so far
  orders,    \* orders placed
  restarts   \* crashes

tableVars == <<recorded, drifted>>
vars == <<pc, quote, tte, settled, pos, order, real, tableVars, forgotten, largest, orders, restarts>>

NoOrder == [up |-> TRUE, raw |-> 0, limit |-> 0, size |-> 0, price |-> 0]

TypeOK ==
  /\ pc \in {"idle", "placing", "down"}
  /\ quote \in Quotes
  /\ tte \in Int
  /\ settled \in BOOLEAN
  /\ pos \in Position /\ real \in Position /\ forgotten \in Position
  /\ recorded \in Position
  /\ drifted \in BOOLEAN
  /\ order \in [up : BOOLEAN, raw : Nat, limit : Nat, size : Nat, price : Nat]
  /\ largest \in Nat
  /\ orders \in 0 .. MaxOrders
  /\ restarts \in 0 .. MaxRestarts

Init ==
  /\ pc = "idle"
  /\ quote \in Quotes
  /\ tte = MarketTime
  /\ settled = TRUE
  /\ pos = Empty /\ real = Empty /\ forgotten = Empty /\ recorded = Empty
  /\ drifted = FALSE
  /\ order = NoOrder
  /\ largest = 0 /\ orders = 0 /\ restarts = 0

-----------------------------------------------------------------------------
(***************************************************************************)
(* The decision of a tick, from the quotes qt.                             *)
(***************************************************************************)
MidUp(qt)   == (qt.askUp + qt.bidUp) \div 2
MidDown(qt) == (qt.askDown + qt.bidDown) \div 2

Target(qt) == TargetTilt(PFair(MidUp(qt), MidDown(qt)), tte)

\* moneyTilt is called with the mid prices.
Tilt(qt) == MoneyTilt(Times(pos.qUp, MidUp(qt)), Times(pos.qDown, MidDown(qt)))

E(qt) == Target(qt) - Tilt(qt)

Headroom == RiskLimit - Risk(pos)

\* The early returns of processNewMarketState.
WantsToTrade(qt) ==
  /\ StopTTE <= tte
  /\ Headroom >= 0
  /\ Abs(E(qt)) > EpsTTE(tte)
  /\ settled

BuyUp(qt) == E(qt) > 0

LimitPrice(qt) ==
  IF BuyUp(qt) THEN ChooseLimitPrice(qt.bidUp, qt.askUp, E(qt), tte)
  ELSE ChooseLimitPrice(qt.bidDown, qt.askDown, E(qt), tte)

\* The order that is published for the decided size and price.
Order(up, q, price) ==
  [up |-> up, raw |-> q, limit |-> price, size |-> Fixed2(q), price |-> Fixed2(price)]

-----------------------------------------------------------------------------
\* The asks and bids of both sides, all of one answer.
GetPrices(qt) == quote' = qt

\* A tick that ends without an order: a check of processNewMarketState fails
\* or no size fits.  A tick whose prices do not arrive changes nothing.
TickNoTrade(qt) ==
  /\ pc = "idle"
  /\ \/ ~WantsToTrade(qt)
     \/ /\ LimitPrice(qt) > 0
        /\ NoSizeFits(pos, BuyUp(qt), FirstSize(Headroom, LimitPrice(qt)), LimitPrice(qt))
  /\ GetPrices(qt)
  /\ UNCHANGED <<pc, tte, settled, pos, order, real, tableVars, forgotten, largest, orders, restarts>>

\* A tick that decides on an order and sends it, rounded to two decimals.
TickTrade(qt) ==
  /\ pc = "idle" /\ orders < MaxOrders
  /\ WantsToTrade(qt)
  /\ LET price == LimitPrice(qt)
         first == FirstSize(Headroom, price)
     IN  /\ price > 0
         /\ \E i \in Rounds(first) :
              /\ StopsAt(i, pos, BuyUp(qt), first, price)
              /\ order' = Order(BuyUp(qt), Size(first, i), price)
              /\ largest' = More(largest, Size(first, i))
  /\ pc' = "placing"
  /\ GetPrices(qt)
  /\ settled' = FALSE
  /\ orders' = orders + 1
  /\ UNCHANGED <<tte, pos, real, tableVars, forgotten, restarts>>

-----------------------------------------------------------------------------
(***************************************************************************)
(* PlaceOrder and what processTick does with its result.                   *)
(***************************************************************************)
\* How much of a fill-and-kill order is matched when it is not refused.
FillSizes == {order.size, order.size \div 2}

\* PlaceOrder sends nothing when the rounded price or size is zero.
Valid == order.price > 0 /\ order.size > 0

\* Variant: the request is sent again and both are matched.
FillAgain(f) ==
  /\ real' = Bought(Bought(real, order.up, f, order.price), order.up, f, order.price)
  /\ drifted' = (drifted \/ f # order.size)

Fill(f) ==
  /\ real' = Bought(real, order.up, f, order.price)
  /\ drifted' = (drifted \/ f # order.size)

\* Variant: processTick returns when the order can not be persisted.
BookNothing == pos' = pos

\* Variant: booked when the order is sent and again when it is answered.
BookTwice ==
  pos' = Bought(Bought(pos, order.up, order.size, order.price),
                order.up, order.size, order.price)

\* Variant: the order closes contracts of the other side.
BookNetted == pos' = BoughtNetted(pos, order.up, order.size, order.price)

\* The worker books the size it asked for.
Book == pos' = Bought(pos, order.up, order.size, order.price)

\* The texts PlaceOrder returns: the matched size keeps its zero value.
Blank == -1
Placed == [original_size |-> order.size, matched_size |-> Blank, price |-> order.price]

\* A NUMERIC column refuses a text that is not a number.
Accepted(row) == \A column \in DOMAIN row : row[column] \in Nat

\* The error of InsertOrder is logged and no more.
InsertOrder ==
  recorded' = IF Accepted(Placed) THEN Bought(recorded, order.up, order.size, order.price)
              ELSE recorded

OrderFilled ==
  /\ pc = "placing" /\ Valid
  /\ \E f \in FillSizes : Fill(f)
  /\ InsertOrder
  /\ Book
  /\ pc' = "idle"
  /\ UNCHANGED <<quote, tte, settled, order, forgotten, largest, orders, restarts>>

\* An error: refused by PlaceOrder or by the exchange, or a lost request.
OrderRefused ==
  /\ pc = "placing"
  /\ pc' = "idle"
  /\ UNCHANGED <<quote, tte, settled, pos, order, real, tableVars, forgotten, largest, orders, restarts>>

\* The exchange matches an order and its answer does not arrive.
OrderReplyLost ==
  /\ pc = "placing" /\ Valid
  /\ \E f \in FillSizes : real' = Bought(real, order.up, f, order.price)
  /\ drifted' = TRUE
  /\ pc' = "idle"
  /\ UNCHANGED <<quote, tte, settled, pos, order, recorded, forgotten, largest, orders, restarts>>

-----------------------------------------------------------------------------
\* decisionDebounceMs are over, sooner than the next step of the clock.
Settle ==
  /\ ~settled
  /\ settled' = TRUE
  /\ UNCHANGED <<pc, quote, tte, pos, order, real, tableVars, forgotten, largest, orders, restarts>>

\* Time passes; an expired market is not ticked any more.
Elapse ==
  /\ tte > 0
  /\ tte' = tte - 1
  /\ settled' = TRUE
  /\ UNCHANGED <<pc, quote, pos, order, real, tableVars, forgotten, largest, orders, restarts>>

Add(a, b) ==
  [qUp |-> a.qUp + b.qUp, cUp |-> a.cUp + b.cUp,
   qDown |-> a.qDown + b.qDown, cDown |-> a.cDown + b.cDown]

Dies ==
  /\ restarts < MaxRestarts
  /\ restarts' = restarts + 1
  /\ pc' = "down"
  /\ pos' = Empty
  /\ UNCHANGED <<quote, tte, settled, order, recorded, largest, orders>>

\* Dividing by a limit price of zero panics and takes the process with it.
TickPanics(qt) ==
  /\ pc = "idle"
  /\ WantsToTrade(qt) /\ LimitPrice(qt) = 0
  /\ Dies
  /\ forgotten' = Add(forgotten, pos)
  /\ UNCHANGED <<real, drifted>>

\* The process dies, perhaps after the exchange took the order it had sent.
Crash ==
  /\ pc # "down"
  /\ Dies
  /\ \/ /\ forgotten' = Add(forgotten, pos)
        /\ UNCHANGED <<real, drifted>>
     \/ /\ pc = "placing" /\ Valid
        /\ \E f \in FillSizes :
             /\ Fill(f)
             /\ forgotten' = Add(forgotten, Bought(pos, order.up, f, order.price))

\* newMarketWorker starts with no position and a zero lastDecision.
Restart ==
  /\ pc = "down"
  /\ pc' = "idle"
  /\ settled' = TRUE
  /\ UNCHANGED <<quote, tte, pos, order, real, tableVars, forgotten, largest, orders, restarts>>

Next ==
  \/ \E qt \in Quotes : TickNoTrade(qt) \/ TickTrade(qt) \/ TickPanics(qt)
  \/ OrderFilled \/ OrderRefused \/ OrderReplyLost
  \/ Settle \/ Elapse \/ Crash \/ Restart

Spec == Init /\ [][Next]_vars

-----------------------------------------------------------------------------
(***************************************************************************)
(* Properties.                                                             *)
(***************************************************************************)
\* What rounding size and price to two decimals may add to the risk of a
\* position after the simulation approved the exact ones.
Slack == HalfCent * (order.raw + Unit + order.price)

\* The risk the worker believes in exceeds the limit by the rounding of its
\* last order at most: over any sequence of quotes, fills, refusals, lost
\* replies and restarts the check before the order and the booking after it
\* keep each other in bounds (worker.go:264-298, :227-246).
BelievedRiskBounded == Risk(pos) < RiskLimit + Slack

\* The most that rounding can have added to one order.
MaxSlack == HalfCent * (largest + 4 * Unit)

\* As long as every order was matched whole and answered, the real risk in
\* the market grows by one limit with each process that has traded it, never
\* more: the limit holds per run of the process (worker.go:75-105, :264).
RealRiskPerProcess ==
  ~drifted => Risk(real) <= (restarts + 1) * (RiskLimit + MaxSlack)

\* With coefficients up to one, which the configuration does not enforce, the
\* order in flight has a price within half a cent of the spread it was made
\* from, whatever the signal, the time and the aggression were, and however
\* late it is sent (worker.go:279-286, :306-308).
PriceNearSpread ==
  pc = "placing" =>
    LET bid == IF order.up THEN quote.bidUp ELSE quote.bidDown
        ask == IF order.up THEN quote.askUp ELSE quote.askDown
    IN  bid - HalfCent <= order.price /\ order.price <= ask + HalfCent

\* With k_min positive and e_max positive and at most one, which the
\* configuration does not enforce, the division by the limit price panics only
\* when the book of the side to buy is empty, quoted as zero: aggression, time
\* and signal alone never bring the price to zero (worker.go:289,
\* strategy.go:143-151).
PanicNeedsEmptyBook ==
  \A qt \in Quotes :
    pc = "idle" /\ WantsToTrade(qt) /\ LimitPrice(qt) = 0 =>
      IF BuyUp(qt) THEN qt.askUp = 0 ELSE qt.askDown = 0

-----------------------------------------------------------------------------
(***************************************************************************)
(* The book, as RiskLedger promises it.                                    *)
(***************************************************************************)
Ledger == INSTANCE RiskLedger WITH
            book  <- pos,
            offer <- IF pc = "placing" THEN {order} ELSE {},
            held  <- real

\* Whatever the quotes, the clock, the fills and the crashes: an order goes out
\* only when the one before it was settled and the book, as it is then, allows
\* for it; it is matched and booked once at most, as it was sent
\* (worker.go:264-308, :205-246).
LedgerSpec == Ledger!Spec

-----------------------------------------------------------------------------
(***************************************************************************)
(* What the documentation says.                                            *)
(***************************************************************************)
\* README.md:26, "risk_limit (max $ risk per market)": the real position in
\* the market, rounding, partial fills and lost replies aside.
RealRiskWithinLimit == ~drifted => Risk(real) <= RiskLimit + MaxSlack

\* worker.go:221, "Persist order": the rows of the orders table add up to
\* what the worker has booked.
OrdersPersisted == restarts = 0 => recorded = pos

\* README.md:21, "Measures current portfolio allocation by dollar cost": the
\* side that is bought is the one the allocation by cost calls for.
SideByDollarCost ==
  [][pc = "idle" /\ pc' = "placing" =>
       (order.up' <=>
          Target(quote') > MoneyTilt(pos.cUp \div Unit, pos.cDown \div Unit))]_vars
=============================================================================
