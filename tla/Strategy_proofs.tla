---------------------------- MODULE Strategy_proofs ----------------------------
(***************************************************************************)
(* Facts about the operators of Strategy, for all parameters: the signals  *)
(* stay within the configured bounds, the limit price stays in the spread  *)
(* while no coefficient exceeds one, the sizes of the loop are sizes, and  *)
(* rounding an order to two decimals adds a bounded amount of risk.        *)
(***************************************************************************)
EXTENDS Strategy, TLAPS

-----------------------------------------------------------------------------
(***************************************************************************)
(* Division and products.                                                  *)
(***************************************************************************)
LEMMA DivBounds ==
  ASSUME NEW a \in Int, NEW b \in Nat \ {0}
  PROVE  a \div b \in Int /\ (a \div b) * b <= a /\ a < (a \div b) * b + b
PROOF
  BY Z3

LEMMA DivNat ==
  ASSUME NEW a \in Nat, NEW b \in Nat \ {0}
  PROVE  a \div b \in Nat
PROOF
  BY Z3

LEMMA DivMono ==
  ASSUME NEW a \in Int, NEW c \in Int, NEW b \in Nat \ {0}, a <= c
  PROVE  a \div b <= c \div b
PROOF
  BY Z3

LEMMA MulType ==
  ASSUME NEW x \in Int, NEW y \in Int
  PROVE  x * y \in Int
PROOF
  BY Z3

LEMMA MulNat ==
  ASSUME NEW x \in Nat, NEW y \in Nat
  PROVE  x * y \in Nat
PROOF
  BY Z3

LEMMA MulMono ==
  ASSUME NEW x \in Nat, NEW y \in Int, NEW z \in Int, y <= z
  PROVE  x * y <= x * z
PROOF
  BY Z3

\* A part of d, weighed by x of Unit, is a part of d.
LEMMA TimesShare ==
  ASSUME NEW d \in Nat, NEW x \in 0 .. Unit
  PROVE  Times(d, x) \in 0 .. d /\ TimesUp(d, x) \in 0 .. d
PROOF
  <1> DEFINE y == d * x
  <1>1. Unit \in Nat \ {0}
    BY StrategyAssumption
  <1>2. y \in Nat /\ y <= d * Unit
    BY <1>1, MulNat, MulMono
  <1>3. d * Unit \in Nat
    BY <1>1, MulNat
  <1> HIDE DEF y
  <1>4. y \div Unit \in 0 .. d
    BY <1>1, <1>2, <1>3, Z3
  <1>5. (y + Unit - 1) \div Unit \in 0 .. d
    BY <1>1, <1>2, <1>3, Z3
  <1> QED
    BY <1>4, <1>5 DEF y, Times, TimesUp

LEMMA TimesMono ==
  ASSUME NEW d \in Nat, NEW x \in 0 .. Unit, NEW y \in 0 .. Unit, x <= y
  PROVE  Times(d, x) <= Times(d, y)
PROOF
  <1>1. Unit \in Nat \ {0}
    BY StrategyAssumption
  <1>2. d * x \in Int /\ d * y \in Int /\ d * x <= d * y
    BY <1>1, MulType, MulMono
  <1> QED
    BY <1>1, <1>2, DivMono DEF Times

LEMMA TimesType ==
  ASSUME NEW x \in Int, NEW y \in Int
  PROVE  Times(x, y) \in Int
PROOF
  BY StrategyAssumption, MulType, DivBounds DEF Times

LEMMA ClampBounds ==
  ASSUME NEW x \in Int, NEW a \in Int, NEW b \in Int, a <= b
  PROVE  Clamp(x, a, b) \in a .. b
PROOF
  BY DEF Clamp

LEMMA ClampMono ==
  ASSUME NEW x \in Int, NEW y \in Int, NEW a \in Int, NEW b \in Int, a <= b, x <= y
  PROVE  Clamp(x, a, b) <= Clamp(y, a, b)
PROOF
  BY DEF Clamp

-----------------------------------------------------------------------------
(***************************************************************************)
(* Signals.                                                                *)
(***************************************************************************)
LEMMA ElapsedBounds ==
  ASSUME NEW t \in Int, MarketTime > 0
  PROVE  Elapsed(t) \in 0 .. Unit
PROOF
  <1>1. MarketTime \in Nat \ {0} /\ Unit \in Nat
    BY StrategyAssumption
  <1>2. (t * Unit) \div MarketTime \in Int
    BY <1>1, MulType, DivBounds
  <1> HIDE DEF Elapsed
  <1>3. Unit - (t * Unit) \div MarketTime \in Int
    BY <1>1, <1>2
  <1> QED
    BY <1>1, <1>3, ClampBounds DEF Elapsed

\* With less time to expiry more of the market's life is over.
LEMMA ElapsedGrows ==
  ASSUME NEW t \in Int, NEW u \in Int, u <= t, MarketTime > 0
  PROVE  Elapsed(t) <= Elapsed(u)
PROOF
  <1>1. MarketTime \in Nat \ {0} /\ Unit \in Nat
    BY StrategyAssumption
  <1>2. Unit * u <= Unit * t
    BY <1>1, MulMono
  <1>3. t * Unit \in Int /\ u * Unit \in Int /\ u * Unit <= t * Unit
    BY <1>1, <1>2, MulType, Z3
  <1> DEFINE a == (t * Unit) \div MarketTime
             b == (u * Unit) \div MarketTime
  <1>4. a \in Int /\ b \in Int /\ b <= a
    BY <1>1, <1>3, DivBounds, DivMono
  <1> HIDE DEF a, b
  <1>5. Clamp(Unit - a, 0, Unit) <= Clamp(Unit - b, 0, Unit)
    BY <1>1, <1>4, ClampMono
  <1> QED
    BY <1>5 DEF a, b, Elapsed

LEMMA KTTEBounds ==
  ASSUME NEW t \in Int
  PROVE  KTTE(t) \in KMin .. KMax
PROOF
  <1>1. KMin \in Nat /\ KMax \in Nat /\ KMin <= KMax /\ MarketTime \in Int
    BY StrategyAssumption
  <1>2. CASE MarketTime <= 0
    BY <1>1, <1>2 DEF KTTE
  <1>3. CASE ~(MarketTime <= 0)
    <2>1. Elapsed(t) \in 0 .. Unit
      BY <1>1, <1>3, ElapsedBounds
    <2>2. PowAlpha[Elapsed(t)] \in 0 .. Unit
      BY <2>1, StrategyAssumption
    <2>3. Times(KMax - KMin, PowAlpha[Elapsed(t)]) \in 0 .. (KMax - KMin)
      BY <1>1, <2>2, TimesShare
    <2> QED
      BY <1>1, <1>3, <2>3 DEF KTTE
  <1> QED
    BY <1>2, <1>3

LEMMA EpsBounds ==
  ASSUME NEW t \in Int
  PROVE  EpsTTE(t) \in EpsMin .. EpsMax
PROOF
  <1>1. EpsMin \in Nat /\ EpsMax \in Nat /\ EpsMin <= EpsMax /\ Unit \in Nat /\ MarketTime \in Int
    BY StrategyAssumption
  <1>2. CASE MarketTime <= 0
    BY <1>1, <1>2 DEF EpsTTE
  <1>3. CASE ~(MarketTime <= 0)
    <2> DEFINE d == EpsMax - EpsMin
               x == Unit - Elapsed(t)
    <2>1. d \in Nat /\ x \in 0 .. Unit
      BY <1>1, <1>3, ElapsedBounds
    <2> HIDE DEF d, x
    <2>2. Times(d, x) \in 0 .. d
      BY <2>1, TimesShare
    <2>3. EpsTTE(t) = EpsMin + Times(d, x)
      BY <1>3 DEF EpsTTE, d, x
    <2> QED
      BY <1>1, <2>1, <2>2, <2>3 DEF d
  <1> QED
    BY <1>2, <1>3

LEMMA TiltBounds ==
  ASSUME NEW P \in Int, NEW t \in Int
  PROVE  TargetTilt(P, t) \in TauMin .. TauMax
PROOF
  <1>1. Half \in Int
    BY StrategyAssumption, DivBounds DEF Half
  <1>2. KTTE(t) \in Int
    BY KTTEBounds, StrategyAssumption
  <1> DEFINE x == Half + Times(KTTE(t), P - Half)
  <1>3. x \in Int
    BY <1>1, <1>2, TimesType
  <1>4. TauMin \in Int /\ TauMax \in Int /\ TauMin <= TauMax
    BY StrategyAssumption
  <1> HIDE DEF x
  <1>5. Clamp(x, TauMin, TauMax) \in TauMin .. TauMax
    BY <1>3, <1>4, ClampBounds
  <1> QED
    BY <1>5 DEF TargetTilt, x

\* As time passes the coefficient grows and the threshold falls.
LEMMA SignalsMove ==
  ASSUME NEW t \in Int, NEW u \in Int, u <= t
  PROVE  EpsTTE(u) <= EpsTTE(t) /\ KTTE(u) >= KTTE(t)
PROOF
  <1>1. /\ KMin \in Nat /\ KMax \in Nat /\ KMin <= KMax
        /\ EpsMin \in Nat /\ EpsMax \in Nat /\ EpsMin <= EpsMax
        /\ Unit \in Nat \ {0} /\ MarketTime \in Int
    BY StrategyAssumption
  <1>2. CASE MarketTime <= 0
    BY <1>1, <1>2 DEF KTTE, EpsTTE
  <1>3. CASE ~(MarketTime <= 0)
    <2> DEFINE x == Elapsed(t)
               y == Elapsed(u)
    <2>1. x \in 0 .. Unit /\ y \in 0 .. Unit /\ x <= y
      BY <1>1, <1>3, ElapsedBounds, ElapsedGrows
    <2>2. PowAlpha[x] \in 0 .. Unit /\ PowAlpha[y] \in 0 .. Unit /\ PowAlpha[x] <= PowAlpha[y]
      BY <2>1, StrategyAssumption
    <2>3. Unit - x \in 0 .. Unit /\ Unit - y \in 0 .. Unit /\ Unit - y <= Unit - x
      BY <1>1, <2>1
    <2> DEFINE dk == KMax - KMin
               de == EpsMax - EpsMin
    <2>4. dk \in Nat /\ de \in Nat
      BY <1>1
    <2>5. Times(dk, PowAlpha[x]) <= Times(dk, PowAlpha[y])
      BY <2>2, <2>4, TimesMono
    <2>6. Times(de, Unit - y) <= Times(de, Unit - x)
      BY <2>3, <2>4, TimesMono
    <2> HIDE DEF x, y, dk, de
    <2>7. /\ Times(dk, PowAlpha[x]) \in Int /\ Times(dk, PowAlpha[y]) \in Int
          /\ Times(de, Unit - x) \in Int /\ Times(de, Unit - y) \in Int
      <3>1. dk \in Int /\ PowAlpha[x] \in Int /\ PowAlpha[y] \in Int
        BY <1>1, <2>2, <2>4
      <3>2. de \in Int /\ Unit - x \in Int /\ Unit - y \in Int
        BY <1>1, <2>3, <2>4
      <3> QED
        BY <3>1, <3>2, TimesType
    <2>8. KMin + Times(dk, PowAlpha[x]) <= KMin + Times(dk, PowAlpha[y])
      BY <1>1, <2>5, <2>7
    <2>9. EpsMin + Times(de, Unit - y) <= EpsMin + Times(de, Unit - x)
      BY <1>1, <2>6, <2>7
    <2> QED
      BY <1>1, <1>3, <2>7, <2>8, <2>9 DEF KTTE, EpsTTE, x, y, dk, de
  <1> QED
    BY <1>2, <1>3

-----------------------------------------------------------------------------
\* The target moves away from a half as the coefficient grows.
LEMMA TimesAway ==
  ASSUME NEW k \in Nat, NEW l \in Nat, k <= l, NEW d \in Int
  PROVE  /\ d >= 0 => Times(k, d) <= Times(l, d)
         /\ d <= 0 => Times(l, d) <= Times(k, d)
PROOF
  <1>1. Unit \in Nat \ {0}
    BY StrategyAssumption
  <1>2. k * d \in Int /\ l * d \in Int
    BY MulType
  <1>3. d >= 0 => k * d <= l * d
    BY Z3
  <1>4. d <= 0 => l * d <= k * d
    BY Z3
  <1> QED
    BY <1>1, <1>2, <1>3, <1>4, DivMono DEF Times

LEMMA TargetMoves ==
  ASSUME NEW P \in Int, NEW t \in Int, NEW u \in Int, u <= t
  PROVE  /\ P >= Half => TargetTilt(P, t) <= TargetTilt(P, u)
         /\ P <= Half => TargetTilt(P, u) <= TargetTilt(P, t)
PROOF
  <1> DEFINE k == KTTE(t)
             l == KTTE(u)
             d == P - Half
             x == Half + Times(k, d)
             y == Half + Times(l, d)
  <1>1. Half \in Int /\ TauMin \in Int /\ TauMax \in Int /\ TauMin <= TauMax
    BY StrategyAssumption, DivBounds DEF Half
  <1>2. k \in Nat /\ l \in Nat /\ k <= l
    <2>1. k \in KMin .. KMax /\ l \in KMin .. KMax
      BY KTTEBounds
    <2>2. l >= k
      BY SignalsMove
    <2> HIDE DEF k, l
    <2> QED
      BY <2>1, <2>2, StrategyAssumption
  <1>3. TargetTilt(P, t) = Clamp(x, TauMin, TauMax) /\ TargetTilt(P, u) = Clamp(y, TauMin, TauMax)
    BY DEF TargetTilt
  <1> HIDE DEF k, l
  <1>4. d \in Int /\ (P >= Half <=> d >= 0) /\ (P <= Half <=> d <= 0)
    BY <1>1
  <1> HIDE DEF d
  <1>5. /\ d >= 0 => Times(k, d) <= Times(l, d)
        /\ d <= 0 => Times(l, d) <= Times(k, d)
    BY <1>2, <1>4, TimesAway
  <1>6. Times(k, d) \in Int /\ Times(l, d) \in Int
    <2>1. k \in Int /\ l \in Int
      BY <1>2
    <2> QED
      BY <1>4, <2>1, TimesType
  <1>7. /\ x \in Int /\ y \in Int
        /\ d >= 0 => x <= y
        /\ d <= 0 => y <= x
    BY <1>1, <1>5, <1>6
  <1> HIDE DEF x, y
  <1> QED
    BY <1>1, <1>3, <1>4, <1>7, ClampMono

-----------------------------------------------------------------------------
(***************************************************************************)
(* The limit price.                                                        *)
(***************************************************************************)
LEMMA AggressionBounds ==
  ASSUME NEW e \in Int, NEW t \in Int, EMax > 0
  PROVE  /\ Aggression(e, t) \in 0 .. Unit + Half
         /\ KMax <= Unit => Aggression(e, t) \in 0 .. Unit
PROOF
  <1>1. Unit \in Nat \ {0} /\ EMax \in Nat \ {0} /\ KMax \in Nat /\ KMin \in Nat
    BY StrategyAssumption
  <1>2. Half \in Nat
    BY <1>1, DivNat DEF Half
  <1> DEFINE a == Clamp((Abs(e) * Unit) \div EMax, 0, Unit)
             k == Clamp(KTTE(t), 0, Unit + Half)
  <1>3. a \in 0 .. Unit
    <2>1. Abs(e) \in Int
      BY DEF Abs
    <2> DEFINE x == (Abs(e) * Unit) \div EMax
    <2>2. x \in Int
      BY <1>1, <2>1, MulType, DivBounds
    <2> HIDE DEF x
    <2>3. Clamp(x, 0, Unit) \in 0 .. Unit
      BY <1>1, <2>2, ClampBounds
    <2> QED
      BY <2>3 DEF x
  <1>4. k \in 0 .. Unit + Half /\ (KMax <= Unit => k \in 0 .. Unit)
    BY <1>1, <1>2, KTTEBounds DEF Clamp
  <1> HIDE DEF a, k
  <1>5. TimesUp(a, k) = TimesUp(k, a)
    BY <1>1, <1>2, <1>3, <1>4, Z3 DEF TimesUp
  <1>6. TimesUp(k, a) \in 0 .. k
    BY <1>3, <1>4, <1>2, <1>1, TimesShare
  <1> QED
    BY <1>1, <1>2, <1>4, <1>5, <1>6 DEF Aggression, a, k

\* The price is at least the bid, at most half a spread above the ask, and in
\* the spread while no coefficient exceeds one.
LEMMA LimitPriceBounds ==
  ASSUME NEW bid \in Nat, NEW ask \in Nat, bid <= ask,
         NEW e \in Int, NEW t \in Int
  PROVE  /\ ChooseLimitPrice(bid, ask, e, t) \in Nat
         /\ ChooseLimitPrice(bid, ask, e, t) >= bid
         /\ ChooseLimitPrice(bid, ask, e, t) <= bid + 2 * (ask - bid)
         /\ KMax <= Unit => ChooseLimitPrice(bid, ask, e, t) \in bid .. ask
PROOF
  <1>1. Unit \in Nat \ {0} /\ EMax \in Int
    BY StrategyAssumption
  <1>2. CASE EMax <= 0
    BY <1>2 DEF ChooseLimitPrice
  <1>3. CASE ~(EMax <= 0)
    <2> DEFINE a == Aggression(e, t)
               s == ask - bid
               y == a * s
    <2>1. Half \in Nat /\ Half <= Unit
      BY <1>1, DivNat, Z3 DEF Half
    <2>2. s \in Nat
      OBVIOUS
    <2>3. a \in 0 .. Unit + Half /\ (KMax <= Unit => a \in 0 .. Unit)
      BY <1>1, <1>3, AggressionBounds
    <2> HIDE DEF a, s
    <2>4. a \in Nat /\ a <= 2 * Unit
      BY <1>1, <2>1, <2>3
    <2>5. y \in Nat
      BY <2>2, <2>4, MulNat
    <2>6. s * a <= s * (2 * Unit) /\ (a <= Unit => s * a <= s * Unit)
      BY <1>1, <2>2, <2>4, MulMono
    <2>7. y <= (2 * s) * Unit /\ (a <= Unit => y <= s * Unit)
      BY <1>1, <2>2, <2>4, <2>6, Z3
    <2> HIDE DEF y
    <2>8. (y + Unit - 1) \div Unit \in 0 .. 2 * s /\ (a <= Unit => (y + Unit - 1) \div Unit <= s)
      BY <1>1, <2>2, <2>4, <2>5, <2>7, Z3
    <2>9. ChooseLimitPrice(bid, ask, e, t) = bid + (y + Unit - 1) \div Unit
      BY <1>1, <1>3 DEF ChooseLimitPrice, TimesUp, y, a, s
    <2> QED
      BY <1>1, <2>2, <2>3, <2>8, <2>9 DEF s
  <1> QED
    BY <1>1, <1>2, <1>3

-----------------------------------------------------------------------------
(***************************************************************************)
(* Sizes.                                                                  *)
(***************************************************************************)
\* The first size is at least the smallest, whatever headroom is left.
LEMMA FirstSizeType ==
  ASSUME NEW headroom \in Int, NEW price \in Nat \ {0}
  PROVE  FirstSize(headroom, price) \in Nat /\ FirstSize(headroom, price) >= MinSize
PROOF
  <1>1. MinSize \in Nat /\ MaxStepRisk \in Nat
    BY StrategyAssumption
  <1> DEFINE d == Less(MaxStepRisk, headroom)
  <1>2. d \in Int
    BY <1>1 DEF Less
  <1> HIDE DEF d
  <1>3. d \div price \in Int
    BY <1>2, DivBounds
  <1> QED
    BY <1>1, <1>3 DEF FirstSize, More, d

\* Every size the loop tries is at least the smallest.
LEMMA SizeType ==
  ASSUME NEW first \in Nat, first >= MinSize, NEW i \in Rounds(first)
  PROVE  Size(first, i) \in Nat /\ Size(first, i) >= MinSize
PROOF
  <1>1. MinSize \in Nat /\ Unit \in Nat /\ Unit >= 2
    BY StrategyAssumption DEF Cent
  <1>2. Half \in Nat \ {0}
    BY <1>1, Z3 DEF Half
  <1> DEFINE d == first - MinSize
             r == d \div Half
  <1>3. d \in Nat
    BY <1>1
  <1> HIDE DEF d
  <1>4. r \in Nat /\ r * Half <= d
    BY <1>2, <1>3, DivNat, DivBounds
  <1> HIDE DEF r
  <1>5. i \in Nat /\ i <= r
    BY <1>4 DEF Rounds, r, d
  <1>6. Half * i <= Half * r
    BY <1>2, <1>4, <1>5, MulMono
  <1>7. i * Half \in Nat /\ i * Half <= d
    <2>1. i * Half = Half * i /\ r * Half = Half * r
      BY <1>2, <1>4, <1>5, Z3
    <2>2. i * Half \in Nat /\ r * Half \in Nat
      BY <1>2, <1>4, <1>5, MulNat
    <2> QED
      BY <1>3, <1>4, <1>6, <2>1, <2>2
  <1> QED
    BY <1>1, <1>7 DEF Size, d

\* Rounding to two decimals moves a number by half a cent at most.
LEMMA Fixed2Bounds ==
  ASSUME NEW x \in Nat
  PROVE  Fixed2(x) \in Nat /\ Fixed2(x) <= x + HalfCent /\ x <= Fixed2(x) + HalfCent
PROOF
  <1>1. HalfCent \in Nat \ {0} /\ Cent = 2 * HalfCent
    BY StrategyAssumption DEF Cent
  <1>4. Cent \in Nat \ {0}
    BY <1>1
  <1> DEFINE y == x + HalfCent
             k == y \div Cent
  <1>5. y \in Nat /\ y = x + HalfCent
    BY <1>1
  <1> HIDE DEF y
  <1>2. k \in Nat /\ k * Cent <= y /\ y < k * Cent + Cent
    BY <1>4, <1>5, DivNat, DivBounds
  <1> HIDE DEF k
  <1>3. k * Cent \in Nat
    BY <1>4, <1>2, MulNat
  <1>6. Fixed2(x) = k * Cent
    BY DEF Fixed2, k, y
  <1> QED
    BY <1>1, <1>2, <1>3, <1>5, <1>6

-----------------------------------------------------------------------------
(***************************************************************************)
(* Risk.                                                                   *)
(***************************************************************************)
LEMMA BoughtFields ==
  ASSUME NEW pos \in Position, NEW up \in BOOLEAN, NEW q \in Nat, NEW p \in Nat
  PROVE  LET new == Bought(pos, up, q, p)
         IN  /\ new \in Position
             /\ new.cUp + new.cDown = pos.cUp + pos.cDown + q * p
             /\ new.qUp = IF up THEN pos.qUp + q ELSE pos.qUp
             /\ new.qDown = IF up THEN pos.qDown ELSE pos.qDown + q
PROOF
  <1> DEFINE x == q * p
  <1>1. x \in Nat
    BY MulNat
  <1> DEFINE new == Bought(pos, up, q, p)
             Fields == /\ new \in Position
                       /\ new.cUp + new.cDown = pos.cUp + pos.cDown + x
                       /\ new.qUp = IF up THEN pos.qUp + q ELSE pos.qUp
                       /\ new.qDown = IF up THEN pos.qDown ELSE pos.qDown + q
  <1> HIDE DEF x
  <1>2. ASSUME up PROVE Fields
    <2>1. new = [qUp |-> pos.qUp + q, cUp |-> pos.cUp + x, qDown |-> pos.qDown, cDown |-> pos.cDown]
      BY <1>2 DEF Bought, Position, x
    <2> HIDE DEF new
    <2>2. /\ new \in Position
          /\ new.cUp + new.cDown = pos.cUp + pos.cDown + x
          /\ new.qUp = pos.qUp + q /\ new.qDown = pos.qDown
      BY <1>1, <2>1 DEF Position
    <2> QED
      BY <1>2, <2>2
  <1>3. ASSUME ~up PROVE Fields
    <2>1. new = [qUp |-> pos.qUp, cUp |-> pos.cUp, qDown |-> pos.qDown + q, cDown |-> pos.cDown + x]
      BY <1>3 DEF Bought, Position, x
    <2> HIDE DEF new
    <2>2. /\ new \in Position
          /\ new.cUp + new.cDown = pos.cUp + pos.cDown + x
          /\ new.qUp = pos.qUp /\ new.qDown = pos.qDown + q
      BY <1>1, <2>1 DEF Position
    <2> QED
      BY <1>3, <2>2
  <1>4. Fields
    BY <1>2, <1>3
  <1> QED
    BY <1>4 DEF x

LEMMA RiskType ==
  ASSUME NEW pos \in Position
  PROVE  Risk(pos) \in Int
PROOF
  <1>1. Less(pos.qUp, pos.qDown) \in Int /\ Unit \in Int
    BY StrategyAssumption DEF Position, Less
  <1>2. Unit * Less(pos.qUp, pos.qDown) \in Int
    BY <1>1, MulType
  <1> QED
    BY <1>2 DEF Risk, Position

\* The cost of an order and of its rounded form.
LEMMA RoundedCost ==
  ASSUME NEW q \in Nat, NEW p \in Nat, NEW h \in Nat,
         NEW r \in Nat, r <= q + h, NEW s \in Nat, s <= p + h
  PROVE  /\ r * s <= q * p + h * (q + s)
         /\ r <= q => r * s <= q * p + h * q
PROOF
  <1>1. q * s <= q * (p + h)
    BY MulMono
  <1>2. s * r <= s * (q + h) /\ (r <= q => s * r <= s * q)
    BY MulMono
  <1>3. q * (p + h) = q * p + h * q /\ s * (q + h) = q * s + h * s
    BY Z3
  <1>4. s * r = r * s /\ s * q = q * s /\ h * (q + s) = h * q + h * s
    BY Z3
  <1>5. q * s \in Int /\ q * p \in Int /\ h * q \in Int /\ h * s \in Int /\ r * s \in Int
    BY MulType
  <1> QED
    BY <1>1, <1>2, <1>3, <1>4, <1>5

\* Rounding an order adds half a cent of risk for each contract, for each
\* dollar of price and for each dollar a pair pays.
LEMMA RoundingRisk ==
  ASSUME NEW pos \in Position, NEW up \in BOOLEAN, NEW q \in Nat, NEW p \in Nat
  PROVE  Risk(Bought(pos, up, Fixed2(q), Fixed2(p)))
           <= Risk(Bought(pos, up, q, p)) + HalfCent * (q + Unit + Fixed2(p))
PROOF
  <1> DEFINE r == Fixed2(q)
             s == Fixed2(p)
             a == IF up THEN pos.qUp ELSE pos.qDown
             b == IF up THEN pos.qDown ELSE pos.qUp
             c == pos.cUp + pos.cDown
  <1>1. HalfCent \in Nat /\ Unit \in Nat
    BY StrategyAssumption
  <1>2. r \in Nat /\ r <= q + HalfCent /\ q <= r + HalfCent
    BY Fixed2Bounds
  <1>3. s \in Nat /\ s <= p + HalfCent
    BY Fixed2Bounds
  <1>4. a \in Nat /\ b \in Nat /\ c \in Nat
    BY DEF Position
  <1>5. /\ Risk(Bought(pos, up, q, p)) = c + q * p - Unit * Less(a + q, b)
        /\ Risk(Bought(pos, up, r, s)) = c + r * s - Unit * Less(a + r, b)
    <2>1. ASSUME NEW x \in Nat, NEW y \in Nat
          PROVE  Risk(Bought(pos, up, x, y)) = c + x * y - Unit * Less(a + x, b)
      <3> DEFINE new == Bought(pos, up, x, y)
                 z == x * y
                 l == Less(a + x, b)
      <3>1. /\ new \in Position
            /\ new.cUp + new.cDown = c + z
            /\ new.qUp = IF up THEN pos.qUp + x ELSE pos.qUp
            /\ new.qDown = IF up THEN pos.qDown ELSE pos.qDown + x
        BY <2>1, BoughtFields
      <3> HIDE DEF new, z
      <3>2. Less(new.qUp, new.qDown) = l
        <4>1. CASE up
          BY <3>1, <4>1
        <4>2. CASE ~up
          BY <1>4, <2>1, <3>1, <4>2 DEF Less
        <4> QED
          BY <4>1, <4>2
      <3>3. l \in Int /\ z \in Int
        BY <1>4, <2>1, MulType DEF Less, z
      <3>4. Unit * l \in Int
        BY <1>1, <3>3, MulType
      <3>5. new.cUp \in Int /\ new.cDown \in Int /\ c \in Int
        BY <1>4, <3>1 DEF Position
      <3> HIDE DEF a, b, c, l
      <3>6. Risk(new) = c + z - Unit * l
        BY <3>1, <3>2, <3>3, <3>4, <3>5 DEF Risk
      <3> QED
        BY <3>6 DEF new, z, l
    <2> QED
      BY <1>2, <1>3, <2>1
  <1> HIDE DEF r, s, a, b, c
  <1> DEFINE l == Less(a + q, b)
             m == Less(a + r, b)
  <1>6. l \in Int /\ m \in Int /\ l <= m + HalfCent /\ (q <= r => l <= m)
    BY <1>1, <1>2, <1>4 DEF Less
  <1> HIDE DEF l, m
  <1>7. Unit * l <= Unit * (m + HalfCent) /\ (q <= r => Unit * l <= Unit * m)
    BY <1>1, <1>6, MulMono
  <1>8. Unit * (m + HalfCent) = Unit * m + HalfCent * Unit
    BY <1>1, <1>6, Z3
  <1>9. r * s <= q * p + HalfCent * (q + s) /\ (r <= q => r * s <= q * p + HalfCent * q)
    BY <1>1, <1>2, <1>3, RoundedCost
  <1>10. /\ HalfCent * (q + Unit + s) = HalfCent * q + HalfCent * Unit + HalfCent * s
         /\ HalfCent * (q + s) = HalfCent * q + HalfCent * s
    BY <1>1, <1>3, Z3
  <1>11. /\ r * s \in Int /\ q * p \in Int /\ Unit * l \in Int /\ Unit * m \in Int
         /\ HalfCent * q \in Nat /\ HalfCent * Unit \in Nat /\ HalfCent * s \in Nat
    BY <1>1, <1>2, <1>3, <1>6, MulType, MulNat
  <1>12. r * s - Unit * m <= q * p - Unit * l + HalfCent * (q + Unit + s)
    BY <1>2, <1>7, <1>8, <1>9, <1>10, <1>11
  <1>13. c + r * s - Unit * m <= c + q * p - Unit * l + HalfCent * (q + Unit + s)
    BY <1>1, <1>3, <1>4, <1>10, <1>11, <1>12
  <1> QED
    BY <1>5, <1>13 DEF l, m, r, s
=============================================================================
