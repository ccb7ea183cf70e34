-------------------------- MODULE StrategyCheck_proofs --------------------------
(***************************************************************************)
(* The properties of StrategyCheck that hold for every configuration.      *)
(***************************************************************************)
EXTENDS StrategyCheck, Strategy_proofs, WellFoundedInduction

\* The arguments: a clock, a probability, a signal, a quote and a position.
Arguments ==
  /\ tte \in Int
  /\ pFair \in 0 .. Unit
  /\ e \in Int
  /\ bid \in Nat /\ ask \in Nat \ {0} /\ bid <= ask
  /\ pos \in Position

LEMMA HalfPositive == Half \in Nat \ {0} /\ MinSize \in Nat \ {0}
PROOF
  <1>1. MinSize \in Nat \ {0} /\ Unit \in Nat /\ Unit >= 2
    BY StrategyAssumption DEF Cent
  <1> QED
    BY <1>1, Z3 DEF Half

LEMMA GridNat == Grid \subseteq 0 .. Unit
PROOF
  <1>1. ASSUME NEW i \in 0 .. Steps
        PROVE  (i * Unit) \div Steps \in 0 .. Unit
    <2> DEFINE x == i * Unit
               m == Steps * Unit
    <2>1. i \in Nat /\ Unit \in Nat /\ Steps \in Nat \ {0} /\ i <= Steps
      BY StepsAssumption, StrategyAssumption
    <2>2. x \in Nat /\ m \in Nat /\ x <= m
      BY <2>1, MulNat, Z3
    <2>3. m \div Steps = Unit
      BY <2>1, Z3
    <2> HIDE DEF x, m
    <2>4. x \div Steps \in Nat /\ x \div Steps <= m \div Steps
      BY <2>1, <2>2, DivNat, DivMono
    <2> QED
      BY <2>1, <2>3, <2>4 DEF x
  <1> QED
    BY <1>1 DEF Grid

\* The arguments are what the functions of Strategy take.
THEOREM ArgumentsKept ==
  Spec => []Arguments
PROOF
  <1>1. Init => Arguments
    <2>1. MinSize \in Nat /\ 2 * MinSize \in Nat /\ Half \in Nat /\ Empty \in Position
      BY HalfPositive, StrategyAssumption DEF Empty, Position
    <2>2. /\ Bought(Empty, TRUE, MinSize, Half) \in Position
          /\ Bought(Bought(Empty, TRUE, 2 * MinSize, Half), FALSE, MinSize, Half) \in Position
      BY <2>1, BoughtFields
    <2>3. Init => /\ tte \in Int /\ pFair \in 0 .. Unit /\ e \in Int
                  /\ bid \in Nat /\ ask \in Nat \ {0} /\ bid <= ask
      BY GridNat, StrategyAssumption, StepsAssumption DEF Init
    <2>4. Init => pos \in Position
      BY <2>1, <2>2 DEF Init
    <2> QED
      BY <2>3, <2>4 DEF Arguments
  <1>2. Arguments /\ [TimePasses]_vars => Arguments'
    BY StepsAssumption DEF Arguments, TimePasses, vars
  <1> QED
    BY <1>1, <1>2, PTL DEF Spec

\* The signals stay within the configured bounds at any time
\* (strategy.go:83-117).
THEOREM SignalBounds ==
  Spec => []SignalsInBounds
PROOF
  <1>1. Arguments => SignalsInBounds
    <2>1. Arguments => tte \in Int /\ pFair \in Int
      BY StrategyAssumption DEF Arguments
    <2> QED
      BY <2>1, KTTEBounds, TiltBounds, EpsBounds DEF SignalsInBounds
  <1> QED
    BY <1>1, ArgumentsKept, PTL

LEMMA TiltType ==
  ASSUME Arguments
  PROVE  Tilt \in Int
PROOF
  <1> DEFINE x == Times(pos.qUp, pFair)
             y == Times(pos.qDown, Unit - pFair)
  <1>1. /\ pos.qUp \in Nat /\ pos.qDown \in Nat
        /\ Unit \in Nat \ {0} /\ Half \in Int
        /\ pFair \in Nat /\ Unit - pFair \in Nat
    BY StrategyAssumption, HalfPositive DEF Arguments, Position
  <1>2. x \in Nat /\ y \in Nat
    BY <1>1, MulNat, DivNat DEF Times
  <1> HIDE DEF x, y
  <1>3. x * Unit \in Nat
    BY <1>1, <1>2, MulNat
  <1>4. x + y # 0 => (x * Unit) \div (x + y) \in Nat
    BY <1>2, <1>3, DivNat
  <1>5. MoneyTilt(x, y) \in Int
    BY <1>1, <1>4 DEF MoneyTilt
  <1> QED
    BY <1>5 DEF Tilt, x, y

\* A signal for the side that prices favour does not fade with time, for every
\* configuration, clock, probability and position (strategy.go:83-117,
\* worker.go:259-275).
THEOREM FavouredSignalsStay ==
  Spec => FavouredSignalStays
PROOF
  <1> DEFINE Stays ==
        /\ pFair >= Half /\ Signal > EpsTTE(tte) => Signal' > EpsTTE(tte)'
        /\ pFair <= Half /\ -Signal > EpsTTE(tte) => -Signal' > EpsTTE(tte)'
  <1>1. Arguments /\ [TimePasses]_vars => [Stays]_vars
    <2> SUFFICES ASSUME Arguments, TimePasses
                 PROVE  Stays
      OBVIOUS
    <2>1. tte \in Int /\ tte' \in Int /\ tte' <= tte /\ pFair \in Int
      BY StrategyAssumption DEF Arguments, TimePasses
    <2> DEFINE a == TargetTilt(pFair, tte)
               b == TargetTilt(pFair, tte')
               m == EpsTTE(tte)
               n == EpsTTE(tte')
               v == Tilt
    <2>2. a \in Int /\ b \in Int /\ m \in Int /\ n \in Int /\ v \in Int
      <3>1. a \in TauMin .. TauMax /\ b \in TauMin .. TauMax
        BY <2>1, TiltBounds
      <3>2. m \in EpsMin .. EpsMax /\ n \in EpsMin .. EpsMax
        BY <2>1, EpsBounds
      <3>3. v \in Int
        BY TiltType
      <3> HIDE DEF a, b, m, n, v
      <3> QED
        BY <3>1, <3>2, <3>3, StrategyAssumption
    <2>3. n <= m
      BY <2>1, SignalsMove
    <2>4. (pFair >= Half => a <= b) /\ (pFair <= Half => b <= a)
      BY <2>1, TargetMoves
    <2>5. Signal = a - v /\ Signal' = b - v /\ EpsTTE(tte)' = n
      BY DEF Signal, Tilt, TimePasses
    <2> HIDE DEF a, b, m, n, v
    <2>6. (pFair >= Half /\ a - v > m => b - v > n) /\ (pFair <= Half /\ -(a - v) > m => -(b - v) > n)
      BY <2>2, <2>3, <2>4
    <2> QED
      BY <2>5, <2>6 DEF m
  <1> QED
    BY <1>1, ArgumentsKept, PTL DEF Spec, FavouredSignalStays

\* With coefficients up to one the limit price lies in the spread
\* (strategy.go:134-152).
THEOREM PriceInSpread ==
  Spec => []PriceFromBidToAsk
PROOF
  <1>1. Arguments => PriceFromBidToAsk
    BY LimitPriceBounds DEF Arguments, PriceFromBidToAsk
  <1> QED
    BY <1>1, ArgumentsKept, PTL

-----------------------------------------------------------------------------
(***************************************************************************)
(* The sizing loop.  That a loop which takes off half a contract at a time *)
(* ends, and in which round, is an induction on its rounds: the first in   *)
(* which it may leave exists because a set of natural numbers has a least  *)
(* element, and so does the first in which it would compute anything else. *)
(***************************************************************************)
\* A set of natural numbers has a least element.
LEMMA Least ==
  ASSUME NEW S \in SUBSET Nat, S # {}
  PROVE  \E n \in S : \A m \in S : n <= m
PROOF
  <1> DEFINE R == OpToRel(<, Nat)
  <1>1. IsWellFoundedOn(R, Nat)
    BY NatLessThanWellFounded
  <1> HIDE DEF R
  <1>2. PICK n \in S : \A m \in S : ~(<<m, n>> \in R)
    BY <1>1, WFMin
  <1>3. \A m \in S : m < n => <<m, n>> \in R
    BY DEF R, OpToRel
  <1>4. ASSUME NEW m \in S
        PROVE  n <= m
    <2>1. m \in Nat /\ n \in Nat
      OBVIOUS
    <2>2. ~(m < n)
      BY <1>2, <1>3
    <2> QED
      BY <2>1, <2>2
  <1> QED
    BY <1>4

\* The loop entered with q leaves at the latest in the first of these rounds,
\* when the sizes in fits are those that fit.
Exits(q, fits) == {i \in Nat : Size(q, i) < MinSize \/ Size(q, i) \in fits}

LastRound(q, fits) == CHOOSE i \in Exits(q, fits) : \A j \in Exits(q, fits) : i <= j

\* f is what the loop computes.
IsLoop(f, fits) ==
  f = [q \in Int |-> IF q < MinSize \/ q \in fits THEN q ELSE f[q - Half]]

\* Size, round by round.
LEMMA SizeSteps ==
  ASSUME NEW q \in Int, NEW i \in Nat
  PROVE  /\ q - Half \in Int
         /\ Size(q, i) \in Int
         /\ Size(q, 0) = q
         /\ Size(q, i + 1) = Size(q - Half, i)
         /\ \A j \in Nat : i <= j => Size(q, j) <= Size(q, i)
PROOF
  <1>1. Half \in Nat \ {0}
    BY HalfPositive
  <1>2. i * Half \in Int /\ (i + 1) * Half = i * Half + Half /\ 0 * Half = 0
    BY <1>1, Z3
  <1>3. ASSUME NEW j \in Nat, i <= j
        PROVE  Size(q, j) <= Size(q, i)
    <2>1. Half * i <= Half * j
      BY <1>1, <1>3, MulMono
    <2>2. Half * i = i * Half /\ Half * j = j * Half
      BY <1>1, Z3
    <2>3. j * Half \in Int
      BY <1>1, MulType
    <2> QED
      BY <1>2, <2>1, <2>2, <2>3 DEF Size
  <1> HIDE DEF Half
  <1> QED
    BY <1>1, <1>2, <1>3 DEF Size

\* The rounds of the model are those in which the loop looks at a size.
LEMMA RoundsLook ==
  ASSUME NEW q \in Nat, q >= MinSize, NEW i \in Nat
  PROVE  i \in Rounds(q) <=> Size(q, i) >= MinSize
PROOF
  <1> DEFINE d == q - MinSize
             r == d \div Half
  <1>1. Half \in Nat \ {0} /\ MinSize \in Nat
    BY HalfPositive
  <1>2. d \in Nat
    BY <1>1
  <1> HIDE DEF d
  <1>3. r \in Nat /\ r * Half <= d /\ d < r * Half + Half
    BY <1>1, <1>2, DivNat, DivBounds
  <1> HIDE DEF r
  <1>4. i * Half \in Int /\ r * Half \in Int /\ (r + 1) * Half = r * Half + Half
    BY <1>1, <1>3, Z3
  <1>5. CASE i <= r
    <2>1. i \in Rounds(q)
      BY <1>3, <1>5 DEF Rounds, r, d
    <2> QED
      BY <1>1, <2>1, SizeType
  <1>6. CASE ~(i <= r)
    <2>1. Half * (r + 1) <= Half * i
      BY <1>1, <1>3, <1>6, MulMono
    <2>2. Half * (r + 1) = (r + 1) * Half /\ Half * i = i * Half
      BY <1>1, <1>3, Z3
    <2>3. d < i * Half
      BY <1>1, <1>2, <1>3, <1>4, <2>1, <2>2
    <2>4. i \notin Rounds(q)
      BY <1>3, <1>6 DEF Rounds, r, d
    <2> QED
      BY <1>1, <1>4, <2>3, <2>4 DEF Size, d
  <1> QED
    BY <1>5, <1>6

\* The loop ends: a size falls below the minimum in the end.
LEMMA LastRoundType ==
  ASSUME NEW q \in Int, NEW fits
  PROVE  /\ LastRound(q, fits) \in Exits(q, fits)
         /\ \A j \in Exits(q, fits) : LastRound(q, fits) <= j
PROOF
  <1>1. Half \in Nat \ {0} /\ MinSize \in Nat \ {0}
    BY HalfPositive
  <1>2. Exits(q, fits) # {}
    <2>1. CASE q < MinSize
      <3>1. 0 \in Exits(q, fits)
        BY <2>1, SizeSteps DEF Exits
      <3> QED
        BY <3>1
    <2>2. CASE ~(q < MinSize)
      <3>1. q \in Nat
        BY <1>1, <2>2
      <3>2. q * 1 <= q * Half /\ q * 1 = q /\ q * Half \in Int
        BY <1>1, <3>1, MulMono, MulType
      <3>3. q \in Exits(q, fits)
        BY <1>1, <3>1, <3>2 DEF Exits, Size
      <3> QED
        BY <3>3
    <2> QED
      BY <2>1, <2>2
  <1>3. Exits(q, fits) \in SUBSET Nat
    BY DEF Exits
  <1>4. \E i \in Exits(q, fits) : \A j \in Exits(q, fits) : i <= j
    BY <1>2, <1>3, Least
  <1> QED
    BY <1>4 DEF LastRound

\* From a size the loop does not leave with it goes on as if entered with the
\* next one.
LEMMA LastRoundStep ==
  ASSUME NEW q \in Int, NEW fits
  PROVE  /\ q < MinSize \/ q \in fits => LastRound(q, fits) = 0
         /\ ~(q < MinSize \/ q \in fits) =>
              LastRound(q, fits) = LastRound(q - Half, fits) + 1
PROOF
  <1> DEFINE l == LastRound(q, fits)
             k == LastRound(q - Half, fits)
  <1>1. q - Half \in Int /\ Size(q, 0) = q
    BY SizeSteps
  <1>2. l \in Exits(q, fits) /\ \A j \in Exits(q, fits) : l <= j
    BY LastRoundType
  <1>3. k \in Exits(q - Half, fits) /\ \A j \in Exits(q - Half, fits) : k <= j
    BY <1>1, LastRoundType
  <1> HIDE DEF l, k
  <1>4. l \in Nat /\ k \in Nat
    BY <1>2, <1>3 DEF Exits
  <1>5. CASE q < MinSize \/ q \in fits
    <2>1. 0 \in Exits(q, fits)
      BY <1>1, <1>5 DEF Exits
    <2>2. l = 0
      BY <1>2, <1>4, <2>1
    <2> QED
      BY <1>5, <2>2 DEF l
  <1>6. CASE ~(q < MinSize \/ q \in fits)
    <2>1. ASSUME NEW i \in Nat
          PROVE  i + 1 \in Exits(q, fits) <=> i \in Exits(q - Half, fits)
      <3>1. Size(q, i + 1) = Size(q - Half, i) /\ i + 1 \in Nat
        BY SizeSteps
      <3> QED
        BY <3>1 DEF Exits
    <2>2. l # 0
      BY <1>1, <1>2, <1>6 DEF Exits
    <2>3. l - 1 \in Nat /\ l = (l - 1) + 1
      BY <1>4, <2>2
    <2>4. k <= l - 1
      BY <1>2, <1>3, <2>1, <2>3
    <2>5. l <= k + 1
      BY <1>2, <1>3, <1>4, <2>1
    <2>6. l = k + 1
      BY <1>4, <2>4, <2>5
    <2> QED
      BY <1>6, <2>6 DEF l, k
  <1> QED
    BY <1>5, <1>6

\* The loop is well defined.
LEMMA LoopExists ==
  ASSUME NEW fits
  PROVE  \E f : IsLoop(f, fits)
PROOF
  <1> DEFINE g == [q \in Int |-> Size(q, LastRound(q, fits))]
  <1>1. ASSUME NEW q \in Int
        PROVE  g[q] = IF q < MinSize \/ q \in fits THEN q ELSE g[q - Half]
    <2>1. q - Half \in Int /\ Size(q, 0) = q
      BY SizeSteps
    <2>2. CASE q < MinSize \/ q \in fits
      BY <2>1, <2>2, LastRoundStep
    <2>3. CASE ~(q < MinSize \/ q \in fits)
      <3> DEFINE k == LastRound(q - Half, fits)
      <3>1. k \in Nat
        BY <2>1, LastRoundType DEF Exits
      <3>2. g[q] = Size(q, k + 1) /\ g[q - Half] = Size(q - Half, k)
        BY <2>1, <2>3, LastRoundStep
      <3> QED
        BY <2>3, <3>1, <3>2, SizeSteps
    <2> QED
      BY <2>2, <2>3
  <1>2. g = [q \in Int |-> IF q < MinSize \/ q \in fits THEN q ELSE g[q - Half]]
    <2> HIDE DEF g
    <2>1. g = [q \in Int |-> g[q]]
      BY DEF g
    <2> QED
      BY <1>1, <2>1
  <1> HIDE DEF g
  <1> QED
    BY <1>2 DEF IsLoop

\* What it computes: the size of its last round.
LEMMA LoopUnrolls ==
  ASSUME NEW f, NEW fits, IsLoop(f, fits), NEW q \in Int
  PROVE  f[q] = Size(q, LastRound(q, fits))
PROOF
  <1> DEFINE Wrong == {i \in Nat : \E x \in Int : /\ LastRound(x, fits) = i
                                                 /\ f[x] # Size(x, i)}
  <1>1. \A x \in Int : f[x] = IF x < MinSize \/ x \in fits THEN x ELSE f[x - Half]
    BY DEF IsLoop
  <1>2. Wrong = {}
    <2> SUFFICES ASSUME Wrong # {}
                 PROVE  FALSE
      OBVIOUS
    <2>1. PICK n \in Wrong : \A m \in Wrong : n <= m
      <3>1. Wrong \in SUBSET Nat
        OBVIOUS
      <3> HIDE DEF Wrong
      <3> QED
        BY <3>1, Least
    <2>2. PICK x \in Int : LastRound(x, fits) = n /\ f[x] # Size(x, n)
      OBVIOUS
    <2>3. n \in Nat /\ x - Half \in Int /\ Size(x, 0) = x
      BY SizeSteps
    <2>4. CASE x < MinSize \/ x \in fits
      BY <1>1, <2>2, <2>3, <2>4, LastRoundStep
    <2>5. CASE ~(x < MinSize \/ x \in fits)
      <3> DEFINE k == LastRound(x - Half, fits)
      <3>1. k \in Nat
        BY <2>3, LastRoundType DEF Exits
      <3>2. n = k + 1
        BY <2>2, <2>5, LastRoundStep
      <3>3. f[x - Half] # Size(x - Half, k)
        BY <1>1, <2>2, <2>5, <3>1, <3>2, SizeSteps
      <3>4. k \in Wrong
        BY <2>3, <3>1, <3>3
      <3>5. n <= k
        BY <2>1, <3>4
      <3> QED
        BY <3>1, <3>2, <3>5
    <2> QED
      BY <2>4, <2>5
  <1>3. LastRound(q, fits) \in Nat
    BY LastRoundType DEF Exits
  <1> QED
    BY <1>2, <1>3

\* ... and for the loop of the worker.
LEMMA SizingLoopEnds ==
  ASSUME NEW up \in BOOLEAN, NEW price, NEW q \in Int
  PROVE  SizingLoop(up, price)[q] = Size(q, LastRound(q, {x \in Int : Fits(pos, up, x, price)}))
PROOF
  <1> DEFINE fits == {x \in Int : Fits(pos, up, x, price)}
             loop == SizingLoop(up, price)
  <1>1. \A f : IsLoop(f, fits) <=>
              f = [x \in Int |-> IF x < MinSize THEN x
                                 ELSE IF SimulateNewRisk(pos, up, x, price) < RiskLimit THEN x
                                 ELSE f[x - Half]]
    <2> SUFFICES ASSUME NEW f
                 PROVE  [x \in Int |-> IF x < MinSize \/ x \in fits THEN x ELSE f[x - Half]]
                          = [x \in Int |-> IF x < MinSize THEN x
                                 ELSE IF SimulateNewRisk(pos, up, x, price) < RiskLimit THEN x
                                 ELSE f[x - Half]]
      BY DEF IsLoop
    <2> QED
      BY DEF Fits
  <1>2. PICK f : IsLoop(f, fits)
    BY LoopExists
  <1>3. IsLoop(loop, fits)
    <2>1. loop = CHOOSE g : g = [x \in Int |-> IF x < MinSize THEN x
                                 ELSE IF SimulateNewRisk(pos, up, x, price) < RiskLimit THEN x
                                 ELSE g[x - Half]]
      BY DEF SizingLoop
    <2> HIDE DEF loop, fits
    <2> QED
      BY <1>1, <1>2, <2>1
  <1> HIDE DEF loop, fits
  <1>4. loop[q] = Size(q, LastRound(q, fits))
    BY <1>3, LoopUnrolls
  <1> QED
    BY <1>4 DEF loop, fits

\* Some size is left whose simulated risk is below the limit, or none.
LEMMA LoopStops ==
  ASSUME NEW up \in BOOLEAN, NEW price, NEW first \in Nat, first >= MinSize
  PROVE  LET q == SizingLoop(up, price)[first]
         IN  /\ \A i \in Rounds(first) : StopsAt(i, pos, up, first, price) => Size(first, i) = q
             /\ NoSizeFits(pos, up, first, price) <=> q < MinSize
             /\ q >= MinSize => \E i \in Rounds(first) : StopsAt(i, pos, up, first, price)
PROOF
  <1> DEFINE fits == {x \in Int : Fits(pos, up, x, price)}
             l == LastRound(first, fits)
             q == Size(first, l)
  <1>1. /\ l \in Nat /\ (q < MinSize \/ q \in fits)
        /\ \A j \in Exits(first, fits) : l <= j
    BY LastRoundType DEF Exits
  <1>2. MinSize \in Nat /\ first \in Int
    BY HalfPositive
  <1>3. SizingLoop(up, price)[first] = q
    BY <1>2, SizingLoopEnds
  <1> HIDE DEF l
  <1>4. ASSUME NEW i \in Nat
        PROVE  Size(first, i) \in Int /\ (l <= i => Size(first, i) <= q)
    BY <1>1, <1>2, <1>4, SizeSteps
  <1>5. q \in Int
    BY <1>1, <1>4
  <1>6. \A i \in Nat : i \in Rounds(first) <=> Size(first, i) >= MinSize
    BY RoundsLook
  <1>7. Rounds(first) \subseteq Nat
    <2>1. (first - MinSize) \div Half \in Int
      BY <1>2, HalfPositive, DivBounds
    <2> QED
      BY <2>1 DEF Rounds
  <1>8. \A i \in Rounds(first) : Fits(pos, up, Size(first, i), price) => l <= i
    BY <1>1, <1>4, <1>7 DEF Exits
  <1> HIDE DEF q
  <1>9. q >= MinSize => l \in Rounds(first) /\ Fits(pos, up, q, price)
    BY <1>1, <1>2, <1>5, <1>6 DEF q
  <1>10. ASSUME NEW i \in Rounds(first), Fits(pos, up, Size(first, i), price)
         PROVE  q >= MinSize /\ l <= i
    <2>1. i \in Nat /\ l <= i /\ Size(first, i) >= MinSize
      BY <1>6, <1>7, <1>8, <1>10
    <2> QED
      BY <1>2, <1>4, <1>5, <2>1
  <1>11. ASSUME NEW i \in Rounds(first), StopsAt(i, pos, up, first, price)
         PROVE  Size(first, i) = q
    <2>1. q >= MinSize /\ l <= i
      BY <1>10, <1>11 DEF StopsAt
    <2>2. ~(l < i)
      BY <1>9, <1>11, <2>1 DEF StopsAt, q
    <2>3. l = i
      BY <1>1, <1>7, <2>1, <2>2
    <2> QED
      BY <2>3 DEF q
  <1>12. NoSizeFits(pos, up, first, price) <=> q < MinSize
    <2>1. q < MinSize => NoSizeFits(pos, up, first, price)
      BY <1>2, <1>5, <1>10 DEF NoSizeFits
    <2>2. NoSizeFits(pos, up, first, price) => ~(q >= MinSize)
      BY <1>9 DEF NoSizeFits, q
    <2> QED
      BY <1>2, <1>5, <2>1, <2>2
  <1>13. q >= MinSize => \E i \in Rounds(first) : StopsAt(i, pos, up, first, price)
    <2> SUFFICES ASSUME q >= MinSize
                 PROVE  StopsAt(l, pos, up, first, price) /\ l \in Rounds(first)
      OBVIOUS
    <2>1. l \in Rounds(first) /\ Fits(pos, up, Size(first, l), price)
      BY <1>9 DEF q
    <2>2. \A j \in Rounds(first) : j < l => ~Fits(pos, up, Size(first, j), price)
      <3>1. \A j \in Rounds(first) : j < l => ~(l <= j)
        BY <1>1, <1>7
      <3> QED
        BY <1>8, <3>1
    <2> QED
      BY <2>1, <2>2 DEF StopsAt
  <1> QED
    BY <1>3, <1>11, <1>12, <1>13

\* For every configuration, position, price and side the round the model stops
\* in is the one the loop ends in, the loop ends, and it ends below the minimum
\* exactly when no size fits (worker.go:288-302).
THEOREM SizingAsTheLoop ==
  Spec => []SizingEndsAsTheLoop
PROOF
  <1>1. Arguments => SizingEndsAsTheLoop
    <2> SUFFICES ASSUME Arguments
                 PROVE  SizingEndsAsTheLoop
      OBVIOUS
    <2> DEFINE first == FirstSize(RiskLimit - Risk(pos), ask)
    <2>1. RiskLimit - Risk(pos) \in Int
      BY RiskType, StrategyAssumption DEF Arguments
    <2>2. first \in Nat /\ first >= MinSize
      BY <2>1, FirstSizeType DEF Arguments
    <2> HIDE DEF first
    <2>3. ASSUME NEW up \in BOOLEAN
          PROVE  LET q == SizingLoop(up, ask)[first]
                 IN  /\ \A i \in Rounds(first) : StopsAt(i, pos, up, first, ask) => Size(first, i) = q
                     /\ NoSizeFits(pos, up, first, ask) <=> q < MinSize
                     /\ q >= MinSize => \E i \in Rounds(first) : StopsAt(i, pos, up, first, ask)
      BY <2>2, LoopStops
    <2> QED
      BY <2>3 DEF SizingEndsAsTheLoop, first
  <1> QED
    BY <1>1, ArgumentsKept, PTL
=============================================================================
