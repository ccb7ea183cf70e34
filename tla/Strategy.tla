------------------------------- MODULE Strategy -------------------------------
(***************************************************************************)
(* The arithmetic of the trading strategy (internal/engine/strategy.go and *)
(* the sizing of worker.go), in fixed point: a price, tilt, probability or *)
(* coefficient x of the code is the integer x * Unit, a size q contracts   *)
(* is q * Unit, an amount of dollars is scaled by Unit * Unit.  The        *)
(* divisions of the code keep 16 digits, those below keep as many as Unit  *)
(* has.                                                                    *)
(***************************************************************************)
EXTENDS Integers

CONSTANTS
  Unit,                \* the integer that stands for 1
  HalfCent,            \* half of the 0.01 that StringFixed(2) keeps
  KMin, KMax,          \* config.strategy, scaled
  TauMin, TauMax,
  EpsMin, EpsMax,
  EMax,
  RiskLimit, MaxStepRisk, MinSize,
  MarketTime,          \* EndTime - StartTime
  PowAlpha             \* x ^ alpha on the scaled interval from 0 to 1

Cent == 2 * HalfCent

ASSUME StrategyAssumption ==
  /\ Unit \in Nat \ {0} /\ HalfCent \in Nat \ {0} /\ Cent <= Unit
  /\ KMin \in Nat /\ KMax \in Nat /\ KMin <= KMax
  /\ TauMin \in Int /\ TauMax \in Int /\ TauMin <= TauMax
  /\ EpsMin \in Nat /\ EpsMax \in Nat /\ EpsMin <= EpsMax
  /\ EMax \in Int
  /\ RiskLimit \in Nat /\ MaxStepRisk \in Nat /\ MinSize \in Nat \ {0}
  /\ MarketTime \in Int
  /\ PowAlpha \in [0 .. Unit -> 0 .. Unit]
  /\ \A x, y \in 0 .. Unit : x <= y => PowAlpha[x] <= PowAlpha[y]

Half == Unit \div 2
Less(a, b) == IF a < b THEN a ELSE b
More(a, b) == IF a > b THEN a ELSE b
Abs(x) == IF x < 0 THEN -x ELSE x

Clamp(x, a, b) == IF x < a THEN a ELSE IF x > b THEN b ELSE x

\* The product of two scaled numbers; a price must not be rounded to zero.
Times(x, y) == (x * y) \div Unit
TimesUp(x, y) == (x * y + Unit - 1) \div Unit

-----------------------------------------------------------------------------
(***************************************************************************)
(* A position: the contracts held on both sides and what they cost.  The   *)
(* code keeps average prices; quantity times average price is the cost.    *)
(***************************************************************************)
Position == [qUp : Nat, cUp : Nat, qDown : Nat, cDown : Nat]

Empty == [qUp |-> 0, cUp |-> 0, qDown |-> 0, cDown |-> 0]

\* Variant: a pair that pays its dollar anyway is not held.
BoughtNetted(pos, up, q, p) ==
  IF up
  THEN [pos EXCEPT !.qUp = @ + q, !.cUp = @ + q * p, !.qDown = @ - q]
  ELSE [pos EXCEPT !.qDown = @ + q, !.cDown = @ + q * p, !.qUp = @ - q]

Bought(pos, up, q, p) ==
  IF up
  THEN [pos EXCEPT !.qUp = @ + q, !.cUp = @ + q * p]
  ELSE [pos EXCEPT !.qDown = @ + q, !.cDown = @ + q * p]

\* What the position may lose: a pair of one contract each pays a dollar.
Risk(pos) == pos.cUp + pos.cDown - Unit * Less(pos.qUp, pos.qDown)

SimulateNewRisk(pos, up, q, p) == Risk(Bought(pos, up, q, p))

-----------------------------------------------------------------------------
(***************************************************************************)
(* Signals.                                                                *)
(***************************************************************************)
PFair(midUp, midDown) ==
  IF midUp + midDown <= 0 THEN Half ELSE (midUp * Unit) \div (midUp + midDown)

\* Variant: tte / T in place of 1 - tte / T.
Remaining(tte) == Clamp((tte * Unit) \div MarketTime, 0, Unit)

\* The part of the market's life that is over.
Elapsed(tte) == Clamp(Unit - (tte * Unit) \div MarketTime, 0, Unit)

KTTE(tte) ==
  IF MarketTime <= 0 THEN KMin
  ELSE KMin + Times(KMax - KMin, PowAlpha[Elapsed(tte)])

TargetTilt(pFair, tte) ==
  Clamp(Half + Times(KTTE(tte), pFair - Half), TauMin, TauMax)

\* Variant: 1 - x is tte / T, which is more than one before the market opens.
EpsUnclamped(tte) ==
  IF MarketTime <= 0 THEN EpsMin
  ELSE EpsMin + Times(EpsMax - EpsMin, (tte * Unit) \div MarketTime)

EpsTTE(tte) ==
  IF MarketTime <= 0 THEN EpsMin
  ELSE EpsMin + Times(EpsMax - EpsMin, Unit - Elapsed(tte))

MoneyTilt(cUp, cDown) ==
  IF cUp + cDown = 0 THEN Half ELSE (cUp * Unit) \div (cUp + cDown)

Aggression(e, tte) ==
  TimesUp(Clamp((Abs(e) * Unit) \div EMax, 0, Unit),
          Clamp(KTTE(tte), 0, Unit + Half))

\* Variant: measured from zero, not from the bid.
ChooseLimitPriceNoBid(bid, ask, e, tte) ==
  IF EMax <= 0 THEN bid ELSE TimesUp(Aggression(e, tte), ask - bid)

ChooseLimitPrice(bid, ask, e, tte) ==
  IF EMax <= 0 THEN bid ELSE bid + TimesUp(Aggression(e, tte), ask - bid)

-----------------------------------------------------------------------------
(***************************************************************************)
(* Sizing.                                                                 *)
(***************************************************************************)
\* Variant: StringFixed(0).
Fixed0(x) == ((x + Half) \div Unit) * Unit

\* StringFixed(2) of a number that is not negative: half a cent rounds up.
Fixed2(x) == ((x + HalfCent) \div Cent) * Cent

\* decimal.Max(min(maxStepRisk, headroom) / price, minSize); price # 0.
FirstSize(headroom, price) ==
  More(Less(MaxStepRisk, headroom) \div price, MinSize)

\* The size of round i of the loop: half a contract less than the one before.
Size(first, i) == first - i * Half

Rounds(first) == 0 .. ((first - MinSize) \div Half)

Fits(pos, up, q, price) == SimulateNewRisk(pos, up, q, price) < RiskLimit

\* Variant: the loop ends with the size after the one that fits.
StopsOneLate(i, pos, up, first, price) ==
  /\ i > 0
  /\ Fits(pos, up, Size(first, i - 1), price)
  /\ \A j \in Rounds(first) : j < i - 1 => ~Fits(pos, up, Size(first, j), price)

\* The loop stops in round i: the first whose simulated risk is below the limit.
StopsAt(i, pos, up, first, price) ==
  /\ Fits(pos, up, Size(first, i), price)
  /\ \A j \in Rounds(first) : j < i => ~Fits(pos, up, Size(first, j), price)

\* The loop runs below MinSize: no size fits.
NoSizeFits(pos, up, first, price) ==
  \A i \in Rounds(first) : ~Fits(pos, up, Size(first, i), price)
=============================================================================
