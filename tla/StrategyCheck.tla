----------------------------- MODULE StrategyCheck -----------------------------
(***************************************************************************)
(* The functions of Strategy over bounded inputs: a state is a choice of   *)
(* arguments, a step lets a unit of time pass.                             *)
(***************************************************************************)
EXTENDS Strategy

CONSTANTS
  Steps,   \* grid: the inputs are multiples of Unit \div Steps
  Early    \* bound: units of time before the market opens and after its end

ASSUME StepsAssumption == Steps \in Nat \ {0} /\ Early \in Nat

VARIABLES tte, pFair, e, bid, ask, pos

vars == <<tte, pFair, e, bid, ask, pos>>

Grid == {(i * Unit) \div Steps : i \in 0 .. Steps}

Init ==
  /\ tte = MarketTime + Early
  /\ pFair \in Grid
  /\ e \in Grid \cup {-x : x \in Grid}
  /\ bid \in Grid \cup {0} /\ ask \in Grid \ {0} /\ bid <= ask
  /\ pos \in {Empty, Bought(Empty, TRUE, MinSize, Half),
              Bought(Bought(Empty, TRUE, 2 * MinSize, Half), FALSE, MinSize, Half)}

TimePasses ==
  /\ tte > -Early
  /\ tte' = tte - 1
  /\ UNCHANGED <<pFair, e, bid, ask, pos>>

Spec == Init /\ [][TimePasses]_vars

-----------------------------------------------------------------------------
\* Whatever the prices and the clock say, the coefficient, the target and the
\* threshold stay within the configured bounds (strategy.go:83-117), also at
\* times before the market opens and after its end, which the functions guard
\* against and worker.go does not reach.
SignalsInBounds ==
  /\ KTTE(tte) \in KMin .. KMax
  /\ TargetTilt(pFair, tte) \in TauMin .. TauMax
  /\ EpsTTE(tte) \in EpsMin .. EpsMax

\* The allocation by mid prices that make pFair, which scaling both leaves as
\* it is, and the signal against it.
Tilt == MoneyTilt(Times(pos.qUp, pFair), Times(pos.qDown, Unit - pFair))
Signal == TargetTilt(pFair, tte) - Tilt

\* A signal to buy the side that prices favour, once above the threshold, stays
\* above it and on its side while only time passes, so that one held back by
\* the debounce or by an order that failed is still there at the next tick:
\* target and threshold move together (strategy.go:83-117, worker.go:259-275).
\* A signal for the other side has no such promise: the target moves away from
\* a half, and may take it below the threshold or turn it.
FavouredSignalStays ==
  [][ /\ pFair >= Half /\ Signal > EpsTTE(tte) => Signal' > EpsTTE(tte)'
      /\ pFair <= Half /\ -Signal > EpsTTE(tte) => -Signal' > EpsTTE(tte)' ]_vars

\* With coefficients up to one the limit price stays between bid and ask, for
\* the strongest signal too (strategy.go:134-152).
PriceFromBidToAsk ==
  KMax <= Unit /\ EMax > 0 => ChooseLimitPrice(bid, ask, e, tte) \in bid .. ask

\* The sizing loop of worker.go:292-298, as it is written: the size it ends
\* with when it is entered with q.
SizingLoop(up, price) ==
  LET loop[q \in Int] ==
        IF q < MinSize THEN q
        ELSE IF SimulateNewRisk(pos, up, q, price) < RiskLimit THEN q
        ELSE loop[q - Half]
  IN  loop

\* The round Strategy!StopsAt names is the one the loop ends in, and no size
\* fits exactly when the loop runs below the minimum (worker.go:288-302).
SizingEndsAsTheLoop ==
  \A up \in BOOLEAN :
    LET first == FirstSize(RiskLimit - Risk(pos), ask)
        q == SizingLoop(up, ask)[first]
    IN  /\ \A i \in Rounds(first) : StopsAt(i, pos, up, first, ask) => Size(first, i) = q
        /\ NoSizeFits(pos, up, first, ask) <=> q < MinSize
        /\ q >= MinSize => \E i \in Rounds(first) : StopsAt(i, pos, up, first, ask)
=============================================================================
