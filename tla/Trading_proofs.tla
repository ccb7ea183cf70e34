----------------------------- MODULE Trading_proofs -----------------------------
(***************************************************************************)
(* What Trading promises, proved for all quotes, configurations, numbers   *)
(* of orders and restarts.                                                 *)
(***************************************************************************)
EXTENDS Trading, Strategy_proofs

\* An order in flight is the rounded form of one the simulation approved.
OrderApproved ==
  pc = "placing" =>
    /\ order.size = Fixed2(order.raw) /\ order.price = Fixed2(order.limit)
    /\ SimulateNewRisk(pos, order.up, order.raw, order.limit) < RiskLimit

IInv == TypeOK /\ OrderApproved /\ BelievedRiskBounded

-----------------------------------------------------------------------------
LEMMA QuoteType ==
  ASSUME NEW qt \in Quotes
  PROVE  /\ qt.bidUp \in 0 .. Unit /\ qt.askUp \in 0 .. Unit /\ qt.bidUp <= qt.askUp
         /\ qt.bidDown \in 0 .. Unit /\ qt.askDown \in 0 .. Unit /\ qt.bidDown <= qt.askDown
PROOF
  BY TradingAssumption

\* The signal is a number.
LEMMA SignalType ==
  ASSUME TypeOK, NEW qt \in Quotes
  PROVE  E(qt) \in Int
PROOF
  <1>1. Unit \in Nat \ {0}
    BY StrategyAssumption
  <1>2. MidUp(qt) \in Nat /\ MidDown(qt) \in Nat
    <2>1. qt.askUp + qt.bidUp \in Nat /\ qt.askDown + qt.bidDown \in Nat
      BY <1>1, QuoteType
    <2> QED
      BY <2>1, DivNat DEF MidUp, MidDown
  <1>3. Half \in Nat
    BY <1>1, DivNat DEF Half
  <1> DEFINE u == MidUp(qt)
             d == MidDown(qt)
  <1> HIDE DEF u, d
  <1>4. u \in Nat /\ d \in Nat
    BY <1>2 DEF u, d
  <1>5. PFair(u, d) \in Int
    <2>1. CASE u + d <= 0
      BY <1>3, <2>1 DEF PFair
    <2>2. CASE ~(u + d <= 0)
      <3>1. u * Unit \in Int /\ u + d \in Nat \ {0}
        BY <1>1, <1>4, <2>2, MulType
      <3> QED
        BY <2>2, <3>1, DivBounds DEF PFair
    <2> QED
      BY <2>1, <2>2
  <1>6. Target(qt) \in Int
    BY <1>5, TiltBounds, StrategyAssumption DEF Target, TypeOK, u, d
  <1>7. ASSUME NEW x \in Nat, NEW y \in Nat
        PROVE  MoneyTilt(x, y) \in Int
    <2>1. CASE x + y = 0
      BY <1>3, <2>1 DEF MoneyTilt
    <2>2. CASE x + y # 0
      <3>1. x * Unit \in Int /\ x + y \in Nat \ {0}
        BY <1>1, <1>7, <2>2, MulType
      <3> QED
        BY <2>2, <3>1, DivBounds DEF MoneyTilt
    <2> QED
      BY <2>1, <2>2
  <1>8. Times(pos.qUp, u) \in Nat /\ Times(pos.qDown, d) \in Nat
    <2>1. pos.qUp \in Nat /\ pos.qDown \in Nat
      BY DEF TypeOK, Position
    <2>2. pos.qUp * u \in Nat /\ pos.qDown * d \in Nat
      BY <1>4, <2>1, MulNat
    <2> QED
      BY <1>1, <2>2, DivNat DEF Times
  <1>9. Tilt(qt) \in Int
    BY <1>7, <1>8 DEF Tilt, u, d
  <1> QED
    BY <1>6, <1>9 DEF E

\* The limit price lies between the bid and half a spread above the ask.
LEMMA LimitPriceType ==
  ASSUME TypeOK, NEW qt \in Quotes
  PROVE  /\ BuyUp(qt) \in BOOLEAN
         /\ LimitPrice(qt) \in 0 .. 2 * Unit
PROOF
  <1>1. Unit \in Nat
    BY StrategyAssumption
  <1>2. E(qt) \in Int /\ tte \in Int
    BY SignalType DEF TypeOK
  <1>3. ASSUME NEW bid \in 0 .. Unit, NEW ask \in 0 .. Unit, bid <= ask
        PROVE  ChooseLimitPrice(bid, ask, E(qt), tte) \in 0 .. 2 * Unit
    <2>1. bid \in Nat /\ ask \in Nat
      BY <1>1
    <2> DEFINE p == ChooseLimitPrice(bid, ask, E(qt), tte)
    <2>2. p \in Nat /\ p <= bid + 2 * (ask - bid)
      BY <1>2, <1>3, <2>1, LimitPriceBounds
    <2> HIDE DEF p
    <2>3. p <= 2 * Unit
      BY <1>1, <1>3, <2>1, <2>2
    <2> QED
      BY <1>1, <2>2, <2>3 DEF p
  <1> QED
    BY <1>3, QuoteType DEF LimitPrice, BuyUp

\* What a tick that trades decides on.
LEMMA Decision ==
  ASSUME TypeOK, NEW qt \in Quotes, TickTrade(qt)
  PROVE  /\ order'.up \in BOOLEAN
         /\ order'.raw \in Nat /\ order'.limit \in 0 .. 2 * Unit
         /\ order' = [up |-> order'.up, raw |-> order'.raw, limit |-> order'.limit,
                      size |-> Fixed2(order'.raw), price |-> Fixed2(order'.limit)]
         /\ SimulateNewRisk(pos, order'.up, order'.raw, order'.limit) < RiskLimit
         /\ largest' = More(largest, order'.raw)
         /\ Risk(pos) <= RiskLimit
PROOF
  <1> DEFINE price == LimitPrice(qt)
             first == FirstSize(Headroom, price)
  <1>1. price \in 0 .. 2 * Unit /\ price > 0 /\ BuyUp(qt) \in BOOLEAN
    BY LimitPriceType DEF TickTrade, GetPrices
  <1>2. Headroom \in Nat /\ Risk(pos) <= RiskLimit
    <2>1. Risk(pos) \in Int /\ RiskLimit \in Nat
      BY RiskType, StrategyAssumption DEF TypeOK
    <2>2. Headroom >= 0
      BY DEF TickTrade, GetPrices, WantsToTrade
    <2> QED
      BY <2>1, <2>2 DEF Headroom
  <1>3. PICK i \in Rounds(first) :
          /\ StopsAt(i, pos, BuyUp(qt), first, price)
          /\ order' = Order(BuyUp(qt), Size(first, i), price)
          /\ largest' = More(largest, Size(first, i))
    BY DEF TickTrade, GetPrices
  <1> HIDE DEF price
  <1>4. price \in Nat \ {0}
    BY <1>1, StrategyAssumption
  <1>5. first \in Nat /\ first >= MinSize
    BY <1>2, <1>4, FirstSizeType
  <1> HIDE DEF first
  <1> DEFINE q == Size(first, i)
  <1>6. q \in Nat
    BY <1>5, SizeType
  <1>7. SimulateNewRisk(pos, BuyUp(qt), q, price) < RiskLimit
    BY <1>3 DEF StopsAt, Fits
  <1> HIDE DEF q
  <1>8. order' = Order(BuyUp(qt), q, price) /\ largest' = More(largest, q)
    BY <1>3 DEF q
  <1> QED
    BY <1>1, <1>2, <1>6, <1>7, <1>8 DEF Order

\* Booking a rounded order leaves the risk below the limit and the slack.
LEMMA BookedRisk ==
  ASSUME TypeOK, OrderApproved, pc = "placing"
  PROVE  LET new == Bought(pos, order.up, order.size, order.price)
         IN  new \in Position /\ Risk(new) < RiskLimit + Slack
PROOF
  <1> DEFINE new == Bought(pos, order.up, order.size, order.price)
             sim == Bought(pos, order.up, order.raw, order.limit)
  <1>1. /\ pos \in Position /\ order.up \in BOOLEAN /\ order.raw \in Nat
        /\ order.limit \in Nat /\ order.size \in Nat /\ order.price \in Nat
    BY DEF TypeOK
  <1>2. new \in Position /\ sim \in Position
    BY <1>1, BoughtFields
  <1>3. Risk(new) <= Risk(sim) + HalfCent * (order.raw + Unit + order.price)
    BY <1>1, RoundingRisk DEF OrderApproved
  <1>4. Risk(sim) < RiskLimit
    BY DEF OrderApproved, SimulateNewRisk
  <1>5. Risk(new) \in Int /\ Risk(sim) \in Int
    BY <1>2, RiskType
  <1>6. Slack \in Int /\ RiskLimit \in Int
    <2>1. HalfCent \in Int /\ order.raw + Unit + order.price \in Int /\ RiskLimit \in Int
      BY <1>1, StrategyAssumption
    <2> QED
      BY <2>1, MulType DEF Slack
  <1> HIDE DEF new, sim
  <1>7. Risk(new) <= Risk(sim) + Slack
    BY <1>3 DEF Slack
  <1>8. Risk(new) < RiskLimit + Slack
    BY <1>4, <1>5, <1>6, <1>7
  <1> QED
    BY <1>2, <1>8 DEF new

\* Rounding always has some room.
LEMMA SlackPositive ==
  ASSUME TypeOK
  PROVE  Slack \in Nat /\ Slack > 0
PROOF
  <1> DEFINE x == order.raw + Unit + order.price
  <1>1. HalfCent \in Nat \ {0} /\ x \in Nat \ {0}
    BY StrategyAssumption DEF TypeOK
  <1> HIDE DEF x
  <1>2. HalfCent * x \in Nat /\ HalfCent * x > 0
    BY <1>1, Z3
  <1> QED
    BY <1>2 DEF Slack, x

LEMMA EmptyRisk == Empty \in Position /\ Risk(Empty) = 0
PROOF
  <1>1. Less(0, 0) = 0 /\ Unit \in Nat
    BY StrategyAssumption DEF Less
  <1> QED
    BY <1>1 DEF Empty, Position, Risk

\* A risk within the limit is below the limit and the slack.
LEMMA WithinLimit ==
  ASSUME TypeOK, Risk(pos) <= RiskLimit
  PROVE  BelievedRiskBounded
PROOF
  <1>1. Risk(pos) \in Int /\ RiskLimit \in Nat
    BY RiskType, StrategyAssumption DEF TypeOK
  <1> QED
    BY <1>1, SlackPositive DEF BelievedRiskBounded

\* ... after a step, too.
LEMMA WithinLimitNext ==
  (TypeOK /\ Risk(pos) <= RiskLimit)' => BelievedRiskBounded'
PROOF
  <1>1. TypeOK /\ Risk(pos) <= RiskLimit => BelievedRiskBounded
    BY WithinLimit
  <1> QED
    BY <1>1, PTL

-----------------------------------------------------------------------------
(***************************************************************************)
(* The inductive invariant.                                                *)
(***************************************************************************)
LEMMA InitStep ==
  Init => IInv
PROOF
  <1> SUFFICES ASSUME Init
               PROVE  IInv
    OBVIOUS
  <1>1. TypeOK
    <2>1. NoOrder \in [up : BOOLEAN, raw : Nat, limit : Nat, size : Nat, price : Nat]
      BY DEF NoOrder
    <2>2. MarketTime \in Int /\ MaxOrders \in Nat /\ MaxRestarts \in Nat
      BY TradingAssumption, StrategyAssumption
    <2>3. /\ pos \in Position /\ real \in Position
          /\ forgotten \in Position /\ recorded \in Position
      BY EmptyRisk DEF Init
    <2>4. largest \in Nat /\ orders \in 0 .. MaxOrders /\ restarts \in 0 .. MaxRestarts
      BY <2>2 DEF Init
    <2> QED
      BY <2>1, <2>2, <2>3, <2>4 DEF Init, TypeOK
  <1>2. OrderApproved
    BY DEF Init, OrderApproved
  <1>3. BelievedRiskBounded
    <2>1. Risk(pos) <= RiskLimit
      BY EmptyRisk, StrategyAssumption DEF Init
    <2> QED
      BY <1>1, <2>1, WithinLimit
  <1> QED
    BY <1>1, <1>2, <1>3 DEF IInv

LEMMA FillType ==
  ASSUME TypeOK, NEW f \in FillSizes
  PROVE  f \in Nat
PROOF
  <1>1. order.size \in Nat
    BY DEF TypeOK
  <1>2. order.size \div 2 \in Nat
    BY <1>1, DivNat
  <1> QED
    BY <1>1, <1>2 DEF FillSizes

LEMMA FillReal ==
  ASSUME TypeOK, NEW f \in FillSizes
  PROVE  Bought(real, order.up, f, order.price) \in Position
PROOF
  BY FillType, BoughtFields DEF TypeOK

LEMMA AddType ==
  ASSUME NEW a \in Position, NEW b \in Position
  PROVE  Add(a, b) \in Position
PROOF
  BY DEF Add, Position

\* Every step keeps the types.
LEMMA TypeStep ==
  ASSUME TypeOK, [Next]_vars
  PROVE  TypeOK'
PROOF
  <1> USE DEF TypeOK
  <1>1. ASSUME NEW qt \in Quotes, TickNoTrade(qt)
        PROVE  TypeOK'
    BY <1>1 DEF TickNoTrade, GetPrices, tableVars
  <1>2. ASSUME NEW qt \in Quotes, TickTrade(qt)
        PROVE  TypeOK'
    <2>1. /\ order' \in [up : BOOLEAN, raw : Nat, limit : Nat, size : Nat, price : Nat]
          /\ largest' \in Nat
      <3>1. /\ order'.up \in BOOLEAN /\ order'.raw \in Nat /\ order'.limit \in Nat
            /\ order' = [up |-> order'.up, raw |-> order'.raw, limit |-> order'.limit,
                         size |-> Fixed2(order'.raw), price |-> Fixed2(order'.limit)]
            /\ largest' = More(largest, order'.raw)
        BY <1>2, Decision, StrategyAssumption
      <3>2. Fixed2(order'.raw) \in Nat /\ Fixed2(order'.limit) \in Nat
        BY <3>1, Fixed2Bounds
      <3> QED
        BY <3>1, <3>2 DEF More
    <2>2. orders' \in 0 .. MaxOrders
      BY <1>2, TradingAssumption DEF TickTrade, GetPrices
    <2> QED
      BY <1>2, <2>1, <2>2 DEF TickTrade, GetPrices, tableVars
  <1>3. ASSUME NEW qt \in Quotes, TickPanics(qt)
        PROVE  TypeOK'
    <2>1. restarts' \in 0 .. MaxRestarts
      BY <1>3, TradingAssumption DEF TickPanics, Dies
    <2> QED
      BY <1>3, <2>1, EmptyRisk, AddType DEF TickPanics, Dies
  <1>4. CASE OrderFilled
    <2>1. pos' \in Position
      BY <1>4, BoughtFields DEF OrderFilled, Book
    <2>2. recorded' \in Position
      BY <1>4, BoughtFields DEF OrderFilled, InsertOrder
    <2>3. real' \in Position /\ drifted' \in BOOLEAN
      BY <1>4, FillReal DEF OrderFilled, Fill
    <2> QED
      BY <1>4, <2>1, <2>2, <2>3 DEF OrderFilled
  <1>5. CASE OrderRefused
    BY <1>5 DEF OrderRefused, tableVars
  <1>6. CASE OrderReplyLost
    BY <1>6, FillReal DEF OrderReplyLost
  <1>7. CASE Settle
    BY <1>7 DEF Settle, tableVars
  <1>8. CASE Elapse
    BY <1>8 DEF Elapse, tableVars
  <1>9. CASE Crash
    <2>1. restarts' \in 0 .. MaxRestarts
      BY <1>9, TradingAssumption DEF Crash, Dies
    <2>2. real' \in Position /\ drifted' \in BOOLEAN /\ forgotten' \in Position
      <3>1. CASE forgotten' = Add(forgotten, pos) /\ UNCHANGED <<real, drifted>>
        BY <3>1, AddType
      <3>2. ASSUME NEW f \in FillSizes, Fill(f),
                   forgotten' = Add(forgotten, Bought(pos, order.up, f, order.price))
            PROVE  real' \in Position /\ drifted' \in BOOLEAN /\ forgotten' \in Position
        <4>1. Bought(pos, order.up, f, order.price) \in Position
          BY FillType, BoughtFields
        <4> QED
          BY <3>2, <4>1, FillReal, AddType DEF Fill
      <3> QED
        BY <1>9, <3>1, <3>2 DEF Crash
    <2> QED
      BY <1>9, <2>1, <2>2, EmptyRisk DEF Crash, Dies
  <1>10. CASE Restart
    BY <1>10 DEF Restart, tableVars
  <1>11. CASE UNCHANGED vars
    BY <1>11 DEF vars, tableVars
  <1> QED
    BY <1>1, <1>2, <1>3, <1>4, <1>5, <1>6, <1>7, <1>8, <1>9, <1>10, <1>11 DEF Next

\* The order in flight stays approved: while it is placed neither it nor the
\* position changes.
LEMMA ApprovedStep ==
  ASSUME TypeOK, OrderApproved, [Next]_vars
  PROVE  OrderApproved'
PROOF
  <1>1. ASSUME NEW qt \in Quotes, TickNoTrade(qt)
        PROVE  OrderApproved'
    BY <1>1 DEF OrderApproved, TickNoTrade, GetPrices
  <1>2. ASSUME NEW qt \in Quotes, TickTrade(qt)
        PROVE  OrderApproved'
    <2>1. order'.size = Fixed2(order'.raw) /\ order'.price = Fixed2(order'.limit)
      BY <1>2, Decision
    <2>2. SimulateNewRisk(pos, order'.up, order'.raw, order'.limit) < RiskLimit
      BY <1>2, Decision
    <2>3. pos' = pos
      BY <1>2 DEF TickTrade, GetPrices
    <2> QED
      BY <2>1, <2>2, <2>3 DEF OrderApproved
  <1>3. ASSUME NEW qt \in Quotes, TickPanics(qt)
        PROVE  OrderApproved'
    BY <1>3 DEF OrderApproved, TickPanics, Dies
  <1>4. CASE OrderFilled
    BY <1>4 DEF OrderApproved, OrderFilled
  <1>5. CASE OrderRefused
    BY <1>5 DEF OrderApproved, OrderRefused
  <1>6. CASE OrderReplyLost
    BY <1>6 DEF OrderApproved, OrderReplyLost
  <1>7. CASE Settle
    BY <1>7 DEF OrderApproved, Settle
  <1>8. CASE Elapse
    BY <1>8 DEF OrderApproved, Elapse
  <1>9. CASE Crash
    BY <1>9 DEF OrderApproved, Crash, Dies
  <1>10. CASE Restart
    BY <1>10 DEF OrderApproved, Restart
  <1>11. CASE UNCHANGED vars
    BY <1>11 DEF OrderApproved, vars
  <1> QED
    BY <1>1, <1>2, <1>3, <1>4, <1>5, <1>6, <1>7, <1>8, <1>9, <1>10, <1>11 DEF Next

\* The believed risk stays bounded: a fill books what was approved, a decision
\* is made from a risk within the limit, a restart begins with none.
LEMMA BelievedStep ==
  ASSUME TypeOK, OrderApproved, BelievedRiskBounded, [Next]_vars
  PROVE  BelievedRiskBounded'
PROOF
  <1>1. TypeOK'
    BY TypeStep
  <1>2. ASSUME pos' = Empty
        PROVE  BelievedRiskBounded'
    <2>1. (Risk(pos) <= RiskLimit)'
      BY <1>2, EmptyRisk, StrategyAssumption
    <2> QED
      BY <1>1, <2>1, WithinLimitNext
  <1>3. ASSUME UNCHANGED <<pos, order>>
        PROVE  BelievedRiskBounded'
    BY <1>3 DEF BelievedRiskBounded, Slack
  <1>4. ASSUME NEW qt \in Quotes, TickTrade(qt)
        PROVE  BelievedRiskBounded'
    <2>1. (Risk(pos) <= RiskLimit)'
      BY <1>4, Decision DEF TickTrade, GetPrices
    <2> QED
      BY <1>1, <2>1, WithinLimitNext
  <1>5. CASE OrderFilled
    <2>1. pos' = Bought(pos, order.up, order.size, order.price) /\ order' = order
      BY <1>5 DEF OrderFilled, Book
    <2>2. Risk(pos') < RiskLimit + Slack
      BY <1>5, <2>1, BookedRisk DEF OrderFilled
    <2> QED
      BY <2>1, <2>2 DEF BelievedRiskBounded, Slack
  <1>6. CASE \E qt \in Quotes : TickNoTrade(qt)
    BY <1>3, <1>6 DEF TickNoTrade, GetPrices
  <1>7. CASE (\E qt \in Quotes : TickPanics(qt)) \/ Crash
    BY <1>2, <1>7 DEF TickPanics, Crash, Dies
  <1>8. CASE OrderRefused \/ OrderReplyLost \/ Settle \/ Elapse \/ Restart
    BY <1>3, <1>8 DEF OrderRefused, OrderReplyLost, Settle, Elapse, Restart
  <1>9. CASE UNCHANGED vars
    BY <1>3, <1>9 DEF vars
  <1> QED
    BY <1>4, <1>5, <1>6, <1>7, <1>8, <1>9 DEF Next

\* IInv is an inductive invariant of the specification.
THEOREM Invariance ==
  Spec => []IInv
PROOF
  <1>1. IInv /\ [Next]_vars => IInv'
    BY TypeStep, ApprovedStep, BelievedStep DEF IInv
  <1> QED
    BY InitStep, <1>1, PTL DEF Spec

\* Positions, orders and prices are numbers that are not negative
\* (worker.go:29-73).
THEOREM TypeCorrect ==
  Spec => []TypeOK
PROOF
  <1>1. IInv => TypeOK
    BY DEF IInv
  <1> QED
    BY <1>1, Invariance, PTL

\* The believed risk exceeds the limit by the rounding of the last order at
\* most (worker.go:264-298, :227-246).
THEOREM BelievedRisk ==
  Spec => []BelievedRiskBounded
PROOF
  <1>1. IInv => BelievedRiskBounded
    BY DEF IInv
  <1> QED
    BY <1>1, Invariance, PTL

-----------------------------------------------------------------------------
(***************************************************************************)
(* The real risk.                                                          *)
(***************************************************************************)
\* The slack of the last order is within that of the largest.
OrderBounded == order.raw <= largest /\ order.price <= 3 * Unit

\* What one process may add to the real risk.
Share == RiskLimit + MaxSlack

\* With whole fills and answers the exchange holds what earlier processes
\* bought and what this one believes in, and each has used up one share.
RealInv ==
  ~drifted =>
    /\ real = Add(forgotten, pos)
    /\ Risk(forgotten) <= restarts * Share

RInv == IInv /\ OrderBounded /\ RealInv

\* Two positions together risk no more than each on its own.
LEMMA RiskAdd ==
  ASSUME NEW a \in Position, NEW b \in Position
  PROVE  Risk(Add(a, b)) <= Risk(a) + Risk(b)
PROOF
  <1> DEFINE l == Less(a.qUp, a.qDown)
             m == Less(b.qUp, b.qDown)
             n == Less(a.qUp + b.qUp, a.qDown + b.qDown)
             ca == a.cUp + a.cDown
             cb == b.cUp + b.cDown
  <1>1. l \in Int /\ m \in Int /\ n \in Int /\ l + m <= n
    BY DEF Position, Less
  <1>2. Unit \in Nat
    BY StrategyAssumption
  <1>3. ca \in Int /\ cb \in Int
    BY DEF Position
  <1>4. /\ Unit * l \in Int /\ Unit * m \in Int /\ Unit * n \in Int
        /\ a.cUp \in Int /\ a.cDown \in Int /\ b.cUp \in Int /\ b.cDown \in Int
    BY <1>1, <1>2, MulType DEF Position
  <1> HIDE DEF l, m, n
  <1>5. Unit * (l + m) <= Unit * n
    BY <1>1, <1>2, MulMono
  <1>6. Unit * (l + m) = Unit * l + Unit * m
    BY <1>1, <1>2, Z3
  <1>7. /\ Risk(a) = ca - Unit * l
        /\ Risk(b) = cb - Unit * m
        /\ Risk(Add(a, b)) = ca + cb - Unit * n
    BY <1>4 DEF Risk, Add, l, m, n
  <1> HIDE DEF ca, cb
  <1> QED
    BY <1>3, <1>4, <1>5, <1>6, <1>7

LEMMA AddBought ==
  ASSUME NEW a \in Position, NEW b \in Position, NEW up \in BOOLEAN,
         NEW q \in Nat, NEW p \in Nat
  PROVE  Bought(Add(a, b), up, q, p) = Add(a, Bought(b, up, q, p))
PROOF
  <1> DEFINE x == q * p
  <1>1. x \in Nat
    BY MulNat
  <1> HIDE DEF x
  <1>2. CASE up
    <2>1. Bought(Add(a, b), up, q, p) =
            [qUp |-> (a.qUp + b.qUp) + q, cUp |-> (a.cUp + b.cUp) + x,
             qDown |-> a.qDown + b.qDown, cDown |-> a.cDown + b.cDown]
      BY <1>2 DEF Bought, Add, x
    <2>2. Add(a, Bought(b, up, q, p)) =
            [qUp |-> a.qUp + (b.qUp + q), cUp |-> a.cUp + (b.cUp + x),
             qDown |-> a.qDown + b.qDown, cDown |-> a.cDown + b.cDown]
      BY <1>2 DEF Bought, Add, Position, x
    <2>3. (a.qUp + b.qUp) + q = a.qUp + (b.qUp + q) /\ (a.cUp + b.cUp) + x = a.cUp + (b.cUp + x)
      BY <1>1 DEF Position
    <2> QED
      BY <2>1, <2>2, <2>3
  <1>3. CASE ~up
    <2>1. Bought(Add(a, b), up, q, p) =
            [qUp |-> a.qUp + b.qUp, cUp |-> a.cUp + b.cUp,
             qDown |-> (a.qDown + b.qDown) + q, cDown |-> (a.cDown + b.cDown) + x]
      BY <1>3 DEF Bought, Add, x
    <2>2. Add(a, Bought(b, up, q, p)) =
            [qUp |-> a.qUp + b.qUp, cUp |-> a.cUp + b.cUp,
             qDown |-> a.qDown + (b.qDown + q), cDown |-> a.cDown + (b.cDown + x)]
      BY <1>3 DEF Bought, Add, Position, x
    <2>3. (a.qDown + b.qDown) + q = a.qDown + (b.qDown + q) /\ (a.cDown + b.cDown) + x = a.cDown + (b.cDown + x)
      BY <1>1 DEF Position
    <2> QED
      BY <2>1, <2>2, <2>3
  <1> QED
    BY <1>2, <1>3

LEMMA AddEmpty ==
  ASSUME NEW a \in Position
  PROVE  Add(a, Empty) = a /\ Add(Empty, a) = a
PROOF
  BY DEF Add, Empty, Position

LEMMA ShareType ==
  ASSUME TypeOK
  PROVE  MaxSlack \in Nat /\ Share \in Nat /\ restarts * Share \in Nat
PROOF
  <1>1. HalfCent \in Nat /\ largest + 4 * Unit \in Nat /\ RiskLimit \in Nat
    BY StrategyAssumption DEF TypeOK
  <1>2. MaxSlack \in Nat
    BY <1>1, MulNat DEF MaxSlack
  <1>3. Share \in Nat
    BY <1>1, <1>2 DEF Share
  <1>4. restarts \in Nat
    BY DEF TypeOK
  <1> QED
    BY <1>2, <1>3, <1>4, MulNat

LEMMA SlackWithin ==
  ASSUME TypeOK, OrderBounded
  PROVE  RiskLimit + Slack <= Share
PROOF
  <1> DEFINE x == order.raw + Unit + order.price
             y == largest + 4 * Unit
  <1>1. HalfCent \in Nat /\ RiskLimit \in Nat /\ x \in Int /\ y \in Int /\ x <= y
    <2>1. HalfCent \in Nat /\ RiskLimit \in Nat /\ Unit \in Nat
      BY StrategyAssumption
    <2>2. order.raw \in Nat /\ order.price \in Nat /\ largest \in Nat
      BY DEF TypeOK
    <2> QED
      BY <2>1, <2>2 DEF OrderBounded
  <1> HIDE DEF x, y
  <1>2. HalfCent * x <= HalfCent * y /\ HalfCent * x \in Int /\ HalfCent * y \in Int
    BY <1>1, MulMono, MulType
  <1>3. Slack = HalfCent * x /\ MaxSlack = HalfCent * y
    BY DEF Slack, MaxSlack, x, y
  <1> QED
    BY <1>1, <1>2, <1>3 DEF Share

\* One more process may have used up one more share.
LEMMA OneMore ==
  ASSUME TypeOK, NEW a \in Position, NEW b \in Position,
         Risk(a) <= restarts * Share, Risk(b) < Share
  PROVE  Risk(Add(a, b)) <= (restarts + 1) * Share
PROOF
  <1>1. Share \in Nat /\ restarts \in Nat
    BY ShareType DEF TypeOK
  <1>2. (restarts + 1) * Share = restarts * Share + Share
    BY <1>1, Z3
  <1>3. restarts * Share \in Int
    BY ShareType
  <1>4. Risk(a) \in Int /\ Risk(b) \in Int /\ Risk(Add(a, b)) \in Int
    BY RiskType, AddType
  <1>5. Risk(Add(a, b)) <= Risk(a) + Risk(b)
    BY RiskAdd
  <1> QED
    BY <1>1, <1>2, <1>3, <1>4, <1>5

LEMMA BoundedStep ==
  ASSUME TypeOK, OrderBounded, [Next]_vars
  PROVE  OrderBounded' /\ largest' \in Nat /\ largest <= largest'
PROOF
  <1>1. ASSUME UNCHANGED <<order, largest>>
        PROVE  OrderBounded' /\ largest' \in Nat /\ largest <= largest'
    BY <1>1 DEF OrderBounded, TypeOK
  <1>2. ASSUME NEW qt \in Quotes, TickTrade(qt)
        PROVE  OrderBounded' /\ largest' \in Nat /\ largest <= largest'
    <2>1. /\ order'.raw \in Nat /\ order'.limit \in 0 .. 2 * Unit
          /\ order' = [up |-> order'.up, raw |-> order'.raw, limit |-> order'.limit,
                       size |-> Fixed2(order'.raw), price |-> Fixed2(order'.limit)]
          /\ largest' = More(largest, order'.raw)
      BY <1>2, Decision
    <2>2. Unit \in Nat /\ HalfCent \in Nat /\ 2 * HalfCent <= Unit
      BY StrategyAssumption DEF Cent
    <2>3. order'.price = Fixed2(order'.limit)
      BY <2>1
    <2>4. order'.limit \in Nat
      BY <2>1, <2>2
    <2>5. Fixed2(order'.limit) \in Nat /\ Fixed2(order'.limit) <= order'.limit + HalfCent
      BY <2>4, Fixed2Bounds
    <2>6. order'.price <= 3 * Unit
      BY <2>1, <2>2, <2>3, <2>4, <2>5
    <2>7. order'.raw <= largest' /\ largest' \in Nat /\ largest <= largest'
      BY <2>1 DEF More, TypeOK
    <2> QED
      BY <2>6, <2>7 DEF OrderBounded
  <1> QED
    BY <1>1, <1>2 DEF Next, TickNoTrade, GetPrices, TickPanics, OrderFilled, OrderRefused,
                      OrderReplyLost, Settle, Elapse, Crash, Dies, Restart, vars

\* A share never shrinks.
LEMMA ShareGrows ==
  ASSUME TypeOK, largest' \in Nat, largest <= largest'
  PROVE  restarts * Share <= restarts * Share'
PROOF
  <1> DEFINE x == largest + 4 * Unit
             y == largest' + 4 * Unit
  <1>1. HalfCent \in Nat /\ RiskLimit \in Nat /\ x \in Int /\ y \in Int /\ x <= y
    <2>1. HalfCent \in Nat /\ RiskLimit \in Nat /\ Unit \in Nat
      BY StrategyAssumption
    <2>2. largest \in Nat
      BY DEF TypeOK
    <2>3. ASSUME NEW m \in Nat, NEW n \in Nat, m <= n
          PROVE  m + 4 * Unit \in Int /\ n + 4 * Unit \in Int /\ m + 4 * Unit <= n + 4 * Unit
      BY <2>1, <2>3
    <2>4. x \in Int /\ y \in Int /\ x <= y
      BY <2>2, <2>3
    <2> QED
      BY <2>1, <2>4
  <1> HIDE DEF x, y
  <1>2. HalfCent * x <= HalfCent * y /\ HalfCent * x \in Int /\ HalfCent * y \in Int
    BY <1>1, MulMono, MulType
  <1> DEFINE v == RiskLimit + HalfCent * x
             w == RiskLimit + HalfCent * y
  <1>3. v \in Int /\ w \in Int /\ v <= w
    BY <1>1, <1>2
  <1>4. Share = v /\ Share' = w
    BY DEF Share, MaxSlack, x, y
  <1> HIDE DEF v, w
  <1>5. restarts * v <= restarts * w
    BY <1>3, MulMono DEF TypeOK
  <1> QED
    BY <1>4, <1>5

LEMMA RealStep ==
  ASSUME IInv, OrderBounded, RealInv, [Next]_vars
  PROVE  RealInv'
PROOF
  <1> SUFFICES ASSUME ~drifted'
               PROVE  (real = Add(forgotten, pos) /\ Risk(forgotten) <= restarts * Share)'
    BY DEF RealInv
  <1>0. ~drifted
    BY DEF Next, TickNoTrade, TickTrade, TickPanics, OrderFilled, Fill, OrderRefused,
           OrderReplyLost, Settle, Elapse, Crash, Restart, tableVars, vars
  <1>1. TypeOK /\ OrderApproved /\ BelievedRiskBounded
    BY DEF IInv
  <1>2. /\ pos \in Position /\ real \in Position /\ forgotten \in Position
        /\ order.up \in BOOLEAN /\ order.size \in Nat /\ order.price \in Nat
        /\ restarts \in Nat
    BY <1>1 DEF TypeOK
  <1>3. real = Add(forgotten, pos) /\ Risk(forgotten) <= restarts * Share
    BY <1>0 DEF RealInv
  <1>4. largest' \in Nat /\ largest <= largest'
    BY <1>1, BoundedStep
  <1>5. restarts * Share <= restarts * Share'
    BY <1>1, <1>4, ShareGrows
  <1>6. RiskLimit + Slack <= Share /\ RiskLimit + Slack \in Int /\ Share \in Int
    BY <1>1, SlackWithin, SlackPositive, ShareType, StrategyAssumption
  <1>7. ASSUME UNCHANGED <<forgotten, restarts>>
        PROVE  (Risk(forgotten) <= restarts * Share)'
    <2>1. Risk(forgotten) \in Int /\ restarts * Share \in Int
      BY <1>1, <1>2, RiskType, ShareType
    <2>2. restarts * Share' \in Int
      <3>1. Share' \in Int
        BY <1>4, StrategyAssumption, MulType DEF Share, MaxSlack
      <3> QED
        BY <1>2, <3>1, MulType
    <2>3. Risk(forgotten) <= restarts * Share'
      BY <1>3, <1>5, <2>1, <2>2
    <2> QED
      BY <1>7, <2>3
  <1>8. ASSUME UNCHANGED <<real, forgotten, pos, restarts>>
        PROVE  (real = Add(forgotten, pos))'
    BY <1>3, <1>8
  <1>9. CASE OrderFilled
    <2>1. real' = Bought(real, order.up, order.size, order.price)
      BY <1>9 DEF OrderFilled, Fill
    <2>2. real' = Add(forgotten, Bought(pos, order.up, order.size, order.price))
      BY <1>2, <1>3, <2>1, AddBought
    <2>3. (real = Add(forgotten, pos))'
      BY <1>9, <2>2 DEF OrderFilled, Book
    <2> QED
      BY <1>7, <1>9, <2>3 DEF OrderFilled
  <1>10. ASSUME NEW b \in Position, Risk(b) < RiskLimit + Slack, Dies,
                forgotten' = Add(forgotten, b), real' = Add(forgotten, b)
         PROVE  (real = Add(forgotten, pos) /\ Risk(forgotten) <= restarts * Share)'
    <2>1. Risk(b) < Share
      BY <1>6, <1>10, RiskType
    <2>2. Risk(Add(forgotten, b)) <= (restarts + 1) * Share
      BY <1>1, <1>2, <1>3, <2>1, OneMore
    <2>3. restarts' = restarts + 1 /\ Share' = Share /\ pos' = Empty
      BY <1>10 DEF Dies, Share, MaxSlack
    <2>4. Add(forgotten, b) \in Position
      BY <1>2, <1>10, AddType
    <2> QED
      BY <1>10, <2>2, <2>3, <2>4, AddEmpty
  <1>11. CASE \E qt \in Quotes : TickPanics(qt)
    <2>1. Dies /\ forgotten' = Add(forgotten, pos) /\ real' = real
      BY <1>11 DEF TickPanics
    <2> QED
      BY <1>1, <1>2, <1>3, <1>10, <2>1 DEF BelievedRiskBounded
  <1>12. CASE Crash
    <2>1. CASE forgotten' = Add(forgotten, pos) /\ UNCHANGED <<real, drifted>>
      BY <1>1, <1>2, <1>3, <1>10, <1>12, <2>1 DEF BelievedRiskBounded, Crash
    <2>2. ASSUME pc = "placing", NEW f \in FillSizes, Fill(f),
                 forgotten' = Add(forgotten, Bought(pos, order.up, f, order.price))
          PROVE  (real = Add(forgotten, pos) /\ Risk(forgotten) <= restarts * Share)'
      <3> DEFINE b == Bought(pos, order.up, order.size, order.price)
      <3>1. f = order.size
        BY <2>2 DEF Fill
      <3>2. b \in Position /\ Risk(b) < RiskLimit + Slack
        BY <1>1, <2>2, BookedRisk
      <3>3. real' = Add(forgotten, b)
        BY <1>2, <1>3, <2>2, <3>1, AddBought DEF Fill
      <3>4. forgotten' = Add(forgotten, b) /\ Dies
        BY <1>12, <2>2, <3>1 DEF Crash
      <3> HIDE DEF b
      <3> QED
        BY <1>10, <3>2, <3>3, <3>4
    <2> QED
      BY <1>12, <2>1, <2>2 DEF Crash
  <1>13. CASE (\E qt \in Quotes : TickNoTrade(qt) \/ TickTrade(qt)) \/ OrderRefused
                \/ Settle \/ Elapse \/ Restart \/ UNCHANGED vars
    BY <1>7, <1>8, <1>13 DEF TickNoTrade, TickTrade, GetPrices, OrderRefused, Settle, Elapse, Restart, vars
  <1>14. CASE OrderReplyLost
    BY <1>14 DEF OrderReplyLost
  <1> QED
    BY <1>9, <1>11, <1>12, <1>13, <1>14 DEF Next

\* The real risk grows by one share with each process that has traded, never
\* more (worker.go:75-105, :264).
THEOREM RealRisk ==
  Spec => []RealRiskPerProcess
PROOF
  <1>1. Init => RInv
    <2> SUFFICES ASSUME Init
                 PROVE  RInv
      OBVIOUS
    <2>1. IInv
      BY InitStep
    <2>2. OrderBounded
      BY StrategyAssumption DEF Init, NoOrder, OrderBounded
    <2>3. real = Add(forgotten, pos)
      BY EmptyRisk, AddEmpty DEF Init
    <2>4. Share \in Nat
      BY <2>1, ShareType DEF IInv
    <2>5. restarts * Share = 0
      BY <2>4, Z3 DEF Init
    <2>6. Risk(forgotten) <= restarts * Share
      BY <2>5, EmptyRisk DEF Init
    <2> QED
      BY <2>1, <2>2, <2>3, <2>6 DEF RInv, RealInv
  <1>2. RInv /\ [Next]_vars => RInv'
    BY TypeStep, ApprovedStep, BelievedStep, BoundedStep, RealStep DEF RInv, IInv
  <1>3. RInv => RealRiskPerProcess
    <2> SUFFICES ASSUME RInv, ~drifted
                 PROVE  Risk(real) <= (restarts + 1) * Share
      BY DEF RealRiskPerProcess, Share
    <2>1. /\ TypeOK /\ BelievedRiskBounded /\ OrderBounded
          /\ real = Add(forgotten, pos) /\ Risk(forgotten) <= restarts * Share
      BY DEF RInv, IInv, RealInv
    <2>2. pos \in Position /\ forgotten \in Position
      BY <2>1 DEF TypeOK
    <2>3. RiskLimit + Slack \in Int /\ Share \in Int
      BY <2>1, SlackPositive, ShareType, StrategyAssumption
    <2>4. Risk(pos) < Share
      BY <2>1, <2>2, <2>3, SlackWithin, RiskType DEF BelievedRiskBounded
    <2> QED
      BY <2>1, <2>2, <2>4, OneMore
  <1> QED
    BY <1>1, <1>2, <1>3, PTL DEF Spec

\* Until its first restart and as long as nothing drifted, the real risk in a
\* market is within its limit and the rounding: what README.md:26 says of
\* risk_limit holds of a process, if not of a market (worker.go:264).
THEOREM OneProcessWithinLimit ==
  Spec => [](restarts = 0 => RealRiskWithinLimit)
PROOF
  <1>1. TypeOK /\ RealRiskPerProcess => (restarts = 0 => RealRiskWithinLimit)
    <2> SUFFICES ASSUME TypeOK, restarts = 0, Risk(real) <= (restarts + 1) * (RiskLimit + MaxSlack)
                 PROVE  Risk(real) <= RiskLimit + MaxSlack
      BY DEF RealRiskPerProcess, RealRiskWithinLimit
    <2> DEFINE share == RiskLimit + MaxSlack
    <2>1. share \in Int
      <3>1. largest + 4 * Unit \in Int /\ HalfCent \in Int /\ RiskLimit \in Int
        BY StrategyAssumption DEF TypeOK
      <3> QED
        BY <3>1, MulType DEF MaxSlack
    <2> HIDE DEF share
    <2>2. (0 + 1) * share = share
      BY <2>1, Z3
    <2> QED
      BY <2>2 DEF share
  <1> QED
    BY <1>1, RealRisk, TypeCorrect, PTL

\* No order ever reaches the orders table, whatever is filled and booked: the
\* row PlaceOrder makes has an empty matched_size (worker.go:221-225,
\* client.go:590).
THEOREM NothingRecorded ==
  Spec => [](recorded = Empty)
PROOF
  <1>1. Init => recorded = Empty
    BY DEF Init
  <1>2. recorded = Empty /\ [Next]_vars => (recorded = Empty)'
    <2> SUFFICES ASSUME [Next]_vars
                 PROVE  UNCHANGED recorded
      OBVIOUS
    <2>1. CASE OrderFilled
      <3>1. Placed.matched_size \notin Nat /\ "matched_size" \in DOMAIN Placed
        BY DEF Placed, Blank
      <3> QED
        BY <2>1, <3>1 DEF OrderFilled, InsertOrder, Accepted
    <2>2. CASE \E qt \in Quotes : TickNoTrade(qt) \/ TickTrade(qt) \/ TickPanics(qt)
      BY <2>2 DEF TickNoTrade, TickTrade, TickPanics, Dies, tableVars
    <2>3. CASE OrderRefused \/ OrderReplyLost \/ Settle \/ Elapse \/ Crash \/ Restart
      BY <2>3 DEF OrderRefused, OrderReplyLost, Settle, Elapse, Crash, Dies, Restart, tableVars
    <2>4. CASE UNCHANGED vars
      BY <2>4 DEF vars, tableVars
    <2> QED
      BY <2>1, <2>2, <2>3, <2>4 DEF Next
  <1> QED
    BY <1>1, <1>2, PTL DEF Spec

-----------------------------------------------------------------------------
(***************************************************************************)
(* The price of an order.                                                  *)
(***************************************************************************)
\* The book of the side of the last order.
Bid == IF order.up THEN quote.bidUp ELSE quote.bidDown
Ask == IF order.up THEN quote.askUp ELSE quote.askDown

\* Before it was rounded the price in flight lay in the spread.
LimitInSpread ==
  pc = "placing" => order.limit \in Bid .. Ask /\ order.price = Fixed2(order.limit)

LEMMA LimitStep ==
  ASSUME KMax <= Unit, TypeOK, LimitInSpread, [Next]_vars
  PROVE  LimitInSpread'
PROOF
  <1>1. ASSUME UNCHANGED <<pc, quote, order>> \/ pc' # "placing"
        PROVE  LimitInSpread'
    BY <1>1 DEF LimitInSpread, Bid, Ask
  <1>2. ASSUME NEW qt \in Quotes, TickTrade(qt)
        PROVE  LimitInSpread'
    <2> DEFINE price == LimitPrice(qt)
    <2>1. PICK q : order' = Order(BuyUp(qt), q, price)
      BY <1>2 DEF TickTrade
    <2>2. tte \in Int /\ E(qt) \in Int /\ Unit \in Nat /\ qt \in Quotes
      BY SignalType, StrategyAssumption DEF TypeOK
    <2>3. price \in IF BuyUp(qt) THEN qt.bidUp .. qt.askUp ELSE qt.bidDown .. qt.askDown
      <3>1. ASSUME NEW bid \in 0 .. Unit, NEW ask \in 0 .. Unit, bid <= ask
            PROVE  ChooseLimitPrice(bid, ask, E(qt), tte) \in bid .. ask
        <4>1. bid \in Nat /\ ask \in Nat
          BY <2>2
        <4> QED
          BY <2>2, <3>1, <4>1, LimitPriceBounds
      <3> QED
        BY <3>1, QuoteType DEF LimitPrice
    <2> HIDE DEF price
    <2>4. /\ order'.up = BuyUp(qt) /\ order'.limit = price
          /\ order'.price = Fixed2(price)
      BY <2>1 DEF Order
    <2>5. quote' = qt
      BY <1>2 DEF TickTrade, GetPrices
    <2> QED
      BY <2>3, <2>4, <2>5 DEF LimitInSpread, Bid, Ask
  <1>3. CASE \E qt \in Quotes : TickNoTrade(qt) \/ TickPanics(qt)
    BY <1>1, <1>3 DEF TickNoTrade, TickPanics, Dies
  <1>4. CASE OrderFilled \/ OrderRefused \/ OrderReplyLost \/ Settle \/ Elapse \/ Crash \/ Restart
    BY <1>1, <1>4 DEF OrderFilled, OrderRefused, OrderReplyLost, Settle, Elapse, Crash, Dies, Restart
  <1>5. CASE UNCHANGED vars
    BY <1>1, <1>5 DEF vars
  <1> QED
    BY <1>2, <1>3, <1>4, <1>5 DEF Next

\* With coefficients up to one, an order leaves the spread it was made from by
\* half a cent at most (worker.go:279-286, :306-308).
THEOREM PriceStaysNear ==
  ASSUME KMax <= Unit
  PROVE  Spec => []PriceNearSpread
PROOF
  <1>1. Init => LimitInSpread
    BY DEF Init, LimitInSpread
  <1>2. IInv /\ LimitInSpread /\ [Next]_vars => LimitInSpread'
    BY LimitStep DEF IInv
  <1>3. IInv /\ LimitInSpread => PriceNearSpread
    <2> SUFFICES ASSUME TypeOK, order.limit \in Bid .. Ask, order.price = Fixed2(order.limit)
                 PROVE  Bid - HalfCent <= order.price /\ order.price <= Ask + HalfCent
      BY DEF IInv, LimitInSpread, PriceNearSpread, Bid, Ask
    <2>1. Bid \in 0 .. Unit /\ Ask \in 0 .. Unit /\ Unit \in Nat /\ HalfCent \in Nat
      BY QuoteType, StrategyAssumption DEF TypeOK, Bid, Ask
    <2> HIDE DEF Bid, Ask
    <2>2. order.limit \in Nat
      BY DEF TypeOK
    <2>3. /\ order.price \in Nat
          /\ order.price <= order.limit + HalfCent /\ order.limit <= order.price + HalfCent
      BY <2>2, Fixed2Bounds
    <2> QED
      BY <2>1, <2>2, <2>3
  <1> QED
    BY <1>1, <1>2, <1>3, Invariance, PTL DEF Spec

-----------------------------------------------------------------------------
(***************************************************************************)
(* The limit price of zero.                                                *)
(***************************************************************************)
LEMMA TimesUpPositive ==
  ASSUME NEW x \in Nat \ {0}, NEW y \in Nat \ {0}
  PROVE  TimesUp(x, y) \in Nat \ {0}
PROOF
  <1> DEFINE z == x * y
  <1>1. z \in Nat \ {0} /\ Unit \in Nat \ {0}
    BY StrategyAssumption, Z3
  <1> HIDE DEF z
  <1>2. (z + Unit - 1) \div Unit \in Nat \ {0}
    BY <1>1, Z3
  <1> QED
    BY <1>2 DEF TimesUp, z

\* A signal and a coefficient that are not zero make the strategy offer more
\* than nothing wherever somebody sells.
LEMMA PricePositive ==
  ASSUME KMin > 0, EMax \in 1 .. Unit,
         NEW bid \in Nat, NEW ask \in Nat \ {0}, bid <= ask,
         NEW x \in Int \ {0}, NEW t \in Int
  PROVE  ChooseLimitPrice(bid, ask, x, t) > 0
PROOF
  <1>1. /\ Unit \in Nat \ {0} /\ EMax \in Nat \ {0} /\ EMax <= Unit
        /\ KMin \in Nat /\ KMax \in Nat
    BY StrategyAssumption
  <1>2. CASE bid > 0
    <2> DEFINE p == ChooseLimitPrice(bid, ask, x, t)
    <2>1. ask \in Nat /\ x \in Int
      OBVIOUS
    <2>2. p \in Nat /\ p >= bid
      BY <2>1, LimitPriceBounds
    <2> HIDE DEF p
    <2>3. p > 0
      BY <1>2, <2>2
    <2> QED
      BY <2>3 DEF p
  <1>3. CASE bid = 0
    <2> DEFINE d == (Abs(x) * Unit) \div EMax
    <2>1. d \in Nat \ {0}
      <3> DEFINE y == Abs(x) * Unit
      <3>1. Abs(x) \in Nat \ {0}
        BY DEF Abs
      <3>2. y \in Nat /\ y >= Unit
        <4>1. Unit * 1 <= Unit * Abs(x)
          BY <1>1, <3>1, MulMono
        <4>2. Unit * Abs(x) = y /\ Unit * 1 = Unit
          BY <1>1, <3>1, Z3
        <4> QED
          BY <1>1, <3>1, <4>1, <4>2, MulNat
      <3> HIDE DEF y
      <3>3. y \div EMax \in Nat \ {0}
        BY <1>1, <3>2, Z3
      <3> QED
        BY <3>3 DEF y
    <2> DEFINE a == Clamp(d, 0, Unit)
               k == Clamp(KTTE(t), 0, Unit + Half)
    <2> HIDE DEF d
    <2>2. a \in Nat \ {0}
      BY <1>1, <2>1 DEF Clamp
    <2>3. k \in Nat \ {0}
      <3>1. Half \in Nat
        BY <1>1, DivNat DEF Half
      <3>2. KTTE(t) \in Nat \ {0}
        BY <1>1, KTTEBounds
      <3> QED
        BY <1>1, <3>1, <3>2 DEF Clamp
    <2> HIDE DEF a, k
    <2>4. Aggression(x, t) = TimesUp(a, k)
      BY DEF Aggression, a, k, d
    <2>5. Aggression(x, t) \in Nat \ {0}
      BY <2>2, <2>3, <2>4, TimesUpPositive
    <2>6. TimesUp(Aggression(x, t), ask - bid) \in Nat \ {0}
      BY <1>3, <2>5, TimesUpPositive
    <2>7. ChooseLimitPrice(bid, ask, x, t) = bid + TimesUp(Aggression(x, t), ask - bid)
      BY <1>1 DEF ChooseLimitPrice
    <2> QED
      BY <1>3, <2>6, <2>7
  <1> QED
    BY <1>2, <1>3

\* With coefficients above zero and a saturation within one, the division by
\* the limit price fails only where nobody sells (worker.go:289,
\* strategy.go:131-152).
THEOREM PanicOnEmptyBook ==
  ASSUME KMin > 0, EMax \in 1 .. Unit
  PROVE  Spec => []PanicNeedsEmptyBook
PROOF
  <1>1. TypeOK => PanicNeedsEmptyBook
    <2> SUFFICES ASSUME TypeOK, NEW qt \in Quotes, WantsToTrade(qt), LimitPrice(qt) = 0
                 PROVE  IF BuyUp(qt) THEN qt.askUp = 0 ELSE qt.askDown = 0
      BY DEF PanicNeedsEmptyBook
    <2>1. E(qt) \in Int \ {0} /\ tte \in Int
      <3>1. EpsTTE(tte) \in Nat /\ E(qt) \in Int /\ tte \in Int
        <4>1. tte \in Int /\ E(qt) \in Int
          BY SignalType DEF TypeOK
        <4>2. EpsMin \in Nat /\ EpsMax \in Nat
          BY StrategyAssumption
        <4> QED
          BY <4>1, <4>2, EpsBounds
      <3>2. Abs(E(qt)) > EpsTTE(tte)
        BY DEF WantsToTrade
      <3> QED
        BY <3>1, <3>2 DEF Abs
    <2>2. ASSUME NEW bid \in 0 .. Unit, NEW ask \in 0 .. Unit, bid <= ask,
                 ChooseLimitPrice(bid, ask, E(qt), tte) = 0
          PROVE  ask = 0
      <3>1. bid \in Nat /\ ask \in Nat
        BY StrategyAssumption
      <3>2. CASE ask # 0
        BY <2>1, <2>2, <3>1, <3>2, PricePositive
      <3> QED
        BY <3>2
    <2>3. CASE BuyUp(qt)
      <3>1. ChooseLimitPrice(qt.bidUp, qt.askUp, E(qt), tte) = 0
        BY <2>3 DEF LimitPrice
      <3> QED
        BY <2>2, <2>3, <3>1, QuoteType
    <2>4. CASE ~BuyUp(qt)
      <3>1. ChooseLimitPrice(qt.bidDown, qt.askDown, E(qt), tte) = 0
        BY <2>4 DEF LimitPrice
      <3> QED
        BY <2>2, <2>4, <3>1, QuoteType
    <2> QED
      BY <2>3, <2>4
  <1> QED
    BY <1>1, TypeCorrect, PTL

-----------------------------------------------------------------------------
(***************************************************************************)
(* Trading implements RiskLedger.                                          *)
(***************************************************************************)
\* The ledger reckons as the worker does.
LEMMA LedgerReckons ==
  /\ Ledger!Empty = Empty
  /\ \A p : Ledger!Risk(p) = Risk(p)
  /\ \A x : Ledger!Fixed2(x) = Fixed2(x)
  /\ \A p, up, q, x : Ledger!Bought(p, up, q, x) = Bought(p, up, q, x)
  /\ \A p, up, q, x : Ledger!SimulateNewRisk(p, up, q, x) = SimulateNewRisk(p, up, q, x)
PROOF
  <1>1. \A p : Ledger!Risk(p) = Risk(p)
    BY DEF Ledger!Risk, Risk, Ledger!Less, Less
  <1>2. \A p, up, q, x : Ledger!Bought(p, up, q, x) = Bought(p, up, q, x)
    BY DEF Ledger!Bought, Bought
  <1>3. \A p, up, q, x : Ledger!SimulateNewRisk(p, up, q, x) = SimulateNewRisk(p, up, q, x)
    BY <1>1, <1>2 DEF Ledger!SimulateNewRisk, SimulateNewRisk
  <1>4. \A x : Ledger!Fixed2(x) = Fixed2(x)
    BY DEF Ledger!Fixed2, Fixed2, Ledger!Cent, Cent
  <1> QED
    BY <1>1, <1>2, <1>3, <1>4 DEF Ledger!Empty, Empty

\* A fill of the order in flight, whole or in part, is a match of the ledger.
LEMMA FillMatches ==
  ASSUME TypeOK, NEW f \in FillSizes, real' = Bought(real, order.up, f, order.price)
  PROVE  Ledger!Match(order)
PROOF
  <1>1. order.size \in Nat /\ order.price \in Nat /\ order.up \in BOOLEAN /\ real \in Position
    BY DEF TypeOK
  <1>2. f \in Nat /\ f <= order.size
    <2>1. order.size \div 2 \in Nat /\ order.size \div 2 <= order.size
      BY <1>1, Z3
    <2> QED
      BY <1>1, <2>1 DEF FillSizes
  <1>3. /\ real'.qUp = IF order.up THEN real.qUp + f ELSE real.qUp
        /\ real'.qDown = IF order.up THEN real.qDown ELSE real.qDown + f
    <2> DEFINE cost == f * order.price
    <2>1. real' = IF order.up THEN [real EXCEPT !.qUp = @ + f, !.cUp = @ + cost]
                  ELSE [real EXCEPT !.qDown = @ + f, !.cDown = @ + cost]
      BY DEF Bought
    <2> HIDE DEF cost
    <2> QED
      BY <1>1, <2>1 DEF Position
  <1> DEFINE g == IF order.up THEN real'.qUp - real.qUp ELSE real'.qDown - real.qDown
  <1>4. g = f
    BY <1>1, <1>2, <1>3 DEF Position
  <1> HIDE DEF g
  <1>5. g \in 0 .. order.size /\ real' = Ledger!Bought(real, order.up, g, order.price)
    BY <1>1, <1>2, <1>4, LedgerReckons
  <1> QED
    BY <1>5 DEF Ledger!Match, g

\* The offer of the ledger, before and after a step.
Pending == IF pc = "placing" THEN {order} ELSE {}

LEMMA LedgerStep ==
  ASSUME IInv, [Next]_vars
  PROVE  [Ledger!Next]_(Ledger!ledger)
PROOF
  <1> USE DEF Pending
  <1>1. TypeOK /\ OrderApproved
    BY DEF IInv
  <1>2. ASSUME UNCHANGED <<pos, Pending, real>>
        PROVE  UNCHANGED Ledger!ledger
    BY <1>2 DEF Ledger!ledger
  <1>3. ASSUME Ledger!Next
        PROVE  [Ledger!Next]_(Ledger!ledger)
    BY <1>3
  <1>4. ASSUME NEW qt \in Quotes, TickNoTrade(qt)
        PROVE  UNCHANGED <<pos, Pending, real>>
    BY <1>4 DEF TickNoTrade
  <1>5. ASSUME NEW qt \in Quotes, TickTrade(qt)
        PROVE  Ledger!Next
    <2>1. /\ order'.size = Fixed2(order'.raw) /\ order'.price = Fixed2(order'.limit)
          /\ SimulateNewRisk(pos, order'.up, order'.raw, order'.limit) < RiskLimit
          /\ Risk(pos) <= RiskLimit
      BY <1>1, <1>5, Decision
    <2>2. Ledger!Approved(order')
      BY <2>1, LedgerReckons DEF Ledger!Approved
    <2>3. Pending = {} /\ Pending' = {order'} /\ pos' = pos /\ real' = real
      BY <1>5 DEF TickTrade
    <2>4. Ledger!Offer
      BY <2>2, <2>3 DEF Ledger!Offer
    <2> QED
      BY <2>4 DEF Ledger!Next
  <1>6. CASE OrderFilled
    <2>1. PICK f \in FillSizes : Fill(f)
      BY <1>6 DEF OrderFilled
    <2>2. Ledger!Match(order)
      BY <1>1, <2>1, FillMatches DEF Fill
    <2>3. pos' = Ledger!Bought(pos, order.up, order.size, order.price)
      BY <1>6, LedgerReckons DEF OrderFilled, Book
    <2>4. Ledger!Fill(order)
      BY <2>2, <2>3 DEF Ledger!Fill
    <2>5. Pending = {order} /\ Pending' = {}
      BY <1>6 DEF OrderFilled
    <2>6. Ledger!Settle
      BY <2>4, <2>5 DEF Ledger!Settle
    <2> QED
      BY <2>6 DEF Ledger!Next
  <1>7. ASSUME Pending = {order}, Pending' = {}, pos' = pos,
               Ledger!Match(order) \/ real' = real
        PROVE  Ledger!Next
    <2>1. Ledger!Fail(order)
      BY <1>7 DEF Ledger!Fail
    <2>2. Ledger!Settle
      BY <1>7, <2>1 DEF Ledger!Settle
    <2> QED
      BY <2>2 DEF Ledger!Next
  <1>8. CASE OrderRefused
    BY <1>7, <1>8 DEF OrderRefused
  <1>9. CASE OrderReplyLost
    <2>1. Ledger!Match(order)
      BY <1>1, <1>9, FillMatches DEF OrderReplyLost
    <2> QED
      BY <1>7, <1>9, <2>1 DEF OrderReplyLost
  <1>10. ASSUME Dies, real' = real \/ (pc = "placing" /\ Ledger!Match(order))
         PROVE  Ledger!Next
    <2>1. pos' = Ledger!Empty /\ Pending' = {}
      BY <1>10, LedgerReckons DEF Dies
    <2>2. Ledger!Forget
      BY <1>10, <2>1 DEF Ledger!Forget
    <2> QED
      BY <2>2 DEF Ledger!Next
  <1>11. CASE \E qt \in Quotes : TickPanics(qt)
    BY <1>10, <1>11 DEF TickPanics
  <1>12. CASE Crash
    <2>1. ASSUME pc = "placing", NEW f \in FillSizes, Fill(f)
          PROVE  Ledger!Match(order)
      BY <1>1, <2>1, FillMatches DEF Fill
    <2> QED
      BY <1>10, <1>12, <2>1 DEF Crash
  <1>13. CASE Settle \/ Elapse \/ Restart \/ UNCHANGED vars
    BY <1>2, <1>13 DEF Settle, Elapse, Restart, vars
  <1> QED
    BY <1>2, <1>3, <1>4, <1>5, <1>6, <1>8, <1>9, <1>11, <1>12, <1>13 DEF Next

\* One order at a time is offered, from a book that allows for it, matched and
\* booked once at most: the trading of a market keeps the ledger, for all
\* quotes, configurations, fills, lost replies and restarts (worker.go:205-308).
THEOREM ImplementsLedger ==
  Spec => LedgerSpec
PROOF
  <1>1. Init => Ledger!Init
    BY LedgerReckons DEF Init, Ledger!Init
  <1>2. IInv /\ [Next]_vars => [Ledger!Next]_(Ledger!ledger)
    BY LedgerStep
  <1> QED
    BY <1>1, <1>2, Invariance, PTL DEF Spec, LedgerSpec, Ledger!Spec
=============================================================================
