-------------------------- MODULE Redemption_proofs --------------------------
(***************************************************************************)
(* What Redemption promises, proved for any conditions, gas prices, sizes  *)
(* of the nonce space and numbers of faults and restarts.                  *)
(***************************************************************************)
EXTENDS Redemption, FiniteSetTheorems, TLAPS

\* At most one transaction is pending and it is the next to be mined.
PoolInv ==
  /\ \A t \in pool : t.nonce = eoaNonce
  /\ \A t, u \in pool : t = u

\* The nonce of an attempt is that of the latest block, or of the one before
\* it when the pending transaction was mined in between.
NonceInv ==
  pc = "send" => nonce = eoaNonce \/ (NextNonce(nonce) = eoaNonce /\ pool = {})

\* A call is for one condition; what it sent redeems that condition; a
\* transaction with a receipt is not pending, and one whose receipt says
\* "successful" has redeemed the condition.
CallInv ==
  /\ \A a, b \in cond : a = b
  /\ pc \notin {"receipt", "mark"} => sent = {} /\ receipt = "none"
  /\ \A t, u \in sent : t = u
  /\ \A t \in sent : t.cond \in cond
  /\ receipt # "none" => sent \cap pool = {}
  /\ receipt = "successful" => cond \subseteq paid
  /\ pc = "mark" => receipt = "successful"

\* Without a disturbance, what is pending is what this call sent, signed for
\* the Safe nonce that is current.
CalmInv ==
  faults = 0 /\ stops = 0 =>
    /\ attempt = 0
    /\ pool \subseteq sent
    /\ \A t \in pool : t.safe = safeNonce
    /\ pc \in {"nonce", "send"} => signed = safeNonce
    /\ pc = "send" => nonce = eoaNonce
    /\ pc = "receipt" /\ receipt = "none" => sent \cap pool # {}

\* The worker has at most one market in hand, and none that is recorded.
TodoInv ==
  /\ todo \cap recorded = {} /\ cond \cap recorded = {} /\ cond \cap todo = {}
  /\ pc \in {"idle", "next"} => cond = {}

IInv ==
  /\ TypeOK
  /\ PoolInv
  /\ NonceInv
  /\ CallInv
  /\ CalmInv
  /\ TodoInv
  /\ RecordedMeansPaid

\* The next nonce is a nonce; a nonce that is one behind the latest block is
\* too low, the latest itself is not.
LEMMA NonceFacts ==
  ASSUME NEW n \in Nonces
  PROVE  /\ NextNonce(n) \in Nonces
         /\ Distance(NextNonce(n), n) > NonceSpace \div 2
         /\ Distance(n, n) = 0
PROOF
  <1>1. NonceSpace \in Nat /\ NonceSpace >= 4
    BY RedemptionAssumption
  <1>2. (NonceSpace \div 2) * 2 <= NonceSpace
    BY <1>1, SMT
  <1> QED
    BY <1>1, <1>2, SMT DEF Nonces, NextNonce, Distance

\* A transaction that is built has the type of one.
LEMMA TransactionType ==
  ASSUME TypeOK, NEW c \in Conditions, NEW p \in Prices
  PROVE  Transaction(c, p) \in Tx
PROOF
  <1>1. p \in Nat
    BY RedemptionAssumption
  <1>2. Boost \in Nat
    BY DEF TypeOK, Boost
  <1>3. (p * Boost) \div 100 \in Nat
    <2> DEFINE x == p * Boost
    <2>1. x \in Nat
      BY <1>1, <1>2, SMT
    <2> HIDE DEF x
    <2>2. x \div 100 \in Nat
      BY <2>1, SMT
    <2> QED
      BY <2>2 DEF x
  <1>4. Fee(p) \in Nat
    BY <1>1, <1>3 DEF Fee
  <1> QED
    BY <1>4 DEF Tx, Transaction, TypeOK

\* Nonces start at zero.
LEMMA ZeroNonce == 0 \in Nonces
PROOF
  BY RedemptionAssumption, SMT DEF Nonces

\* A failed call is counted, and the count keeps to its bound.
LEMMA FaultCounts ==
  ASSUME faults \in 0 .. MaxFaults, Fault
  PROVE  faults' \in 0 .. MaxFaults /\ faults' # 0
PROOF
  BY RedemptionAssumption DEF Fault

\* A transaction the node accepts carries the nonce of the latest block.
LEMMA AcceptedIsNext ==
  ASSUME TypeOK, NonceInv, pc = "send",
         NEW c \in Conditions, NEW p \in Prices, Acceptable(Transaction(c, p))
  PROVE  Transaction(c, p).nonce = eoaNonce
PROOF
  <1>1. Transaction(c, p).nonce = nonce
    BY DEF Transaction
  <1>2. ~(Distance(eoaNonce, nonce) > NonceSpace \div 2)
    BY <1>1 DEF Acceptable, TooLow
  <1>3. NextNonce(nonce) # eoaNonce
    BY <1>2, NonceFacts DEF TypeOK
  <1> QED
    BY <1>1, <1>3 DEF NonceInv

\* A transaction with the nonce of the latest block is accepted when nothing
\* is pending.
LEMMA CalmAccepts ==
  ASSUME TypeOK, nonce = eoaNonce, pool = {}, NEW c \in Conditions, NEW p \in Prices
  PROVE  Acceptable(Transaction(c, p))
PROOF
  <1>1. Transaction(c, p).nonce = nonce
    BY DEF Transaction
  <1>2. Distance(eoaNonce, nonce) = 0
    BY NonceFacts DEF TypeOK
  <1>3. ~(0 > NonceSpace \div 2)
    BY RedemptionAssumption, SMT
  <1> QED
    BY <1>1, <1>2, <1>3 DEF Acceptable, TooLow

\* A call that is not answered is told from one without a fault or a stop.
LEMMA Disturbed ==
  ASSUME TypeOK
  PROVE  /\ Fault => faults' # 0
         /\ Stop => stops' # 0
PROOF
  BY FaultCounts DEF TypeOK, Stop

\* The initial state.
LEMMA InitStep ==
  Init => IInv
PROOF
  <1>1. 0 \in Nonces /\ 0 \in 0 .. MaxFaults /\ 0 \in 0 .. MaxStops
    BY RedemptionAssumption, SMT DEF Nonces
  <1> QED
    BY <1>1, SMT DEF Init, NoCall, IInv, TypeOK, PoolInv, NonceInv, CallInv, CalmInv, TodoInv, RecordedMeansPaid

\* Every step keeps the types.
LEMMA TypeStep ==
  ASSUME TypeOK, [Next]_vars
  PROVE  TypeOK'
PROOF
  <1> USE ZeroNonce DEF TypeOK
  <1>1. CASE RoundStarts
    BY <1>1 DEF RoundStarts, chainVars, callVars
  <1>2. CASE RoundEnds
    BY <1>2 DEF RoundEnds, chainVars, callVars
  <1>3. ASSUME NEW c \in Conditions, StartRedeem(c)
        PROVE  TypeOK'
    BY <1>3 DEF StartRedeem, chainVars
  <1>4. CASE Sign
    BY <1>4 DEF Sign, GetSafeNonce, chainVars
  <1>5. CASE GetNonce
    BY <1>5 DEF GetNonce, chainVars
  <1>6. CASE ReceiptSuccessful
    BY <1>6 DEF ReceiptSuccessful, chainVars, callVars
  <1>7. CASE ReceiptFailed
    BY <1>7 DEF ReceiptFailed, Continue, EndCall, chainVars
  <1>8. CASE CallFails
    BY <1>8, FaultCounts DEF CallFails, Continue, EndCall, chainVars
  <1>9. CASE Mark
    BY <1>9, FaultCounts DEF Mark, Continue, EndCall, chainVars
  <1>10. ASSUME NEW c \in Conditions, NEW p \in Prices, SendAccepted(c, p)
        PROVE  TypeOK'
    BY <1>10, TransactionType DEF SendAccepted, Accept
  <1>11. ASSUME NEW c \in Conditions, NEW p \in Prices, SendRejected(c, p)
        PROVE  TypeOK'
    BY <1>11 DEF SendRejected, Continue, EndCall, chainVars, MaxRetries
  <1>12. ASSUME NEW c \in Conditions, NEW p \in Prices, SendLost(c, p)
        PROVE  TypeOK'
    BY <1>12, TransactionType, FaultCounts DEF SendLost, Continue, EndCall, Accept
  <1>13. CASE Stop
    BY <1>13, RedemptionAssumption DEF Stop, chainVars, Nonces
  <1>14. ASSUME NEW t \in pool, Mine(t)
        PROVE  TypeOK'
    BY <1>14, NonceFacts, RedemptionAssumption DEF Mine, Tx, Nonces
  <1>15. ASSUME NEW t \in pool, Drop(t)
        PROVE  TypeOK'
    BY <1>15, FaultCounts DEF Drop, callVars
  <1>16. ASSUME NEW c \in Conditions, Report(c)
        PROVE  TypeOK'
    BY <1>16 DEF Report, callVars
  <1>17. CASE UNCHANGED vars
    BY <1>17 DEF vars, chainVars, callVars
  <1> QED
    BY <1>1, <1>2, <1>3, <1>4, <1>5, <1>6, <1>7, <1>8, <1>9, <1>10, <1>11, <1>12, <1>13, <1>14, <1>15, <1>16, <1>17 DEF Next, RedeemWorker, Redeem, MineSome

\* A transaction that is accepted takes the place of the one that was
\* pending, because both carry the nonce of the latest block.
LEMMA PoolStep ==
  ASSUME TypeOK, PoolInv, NonceInv, [Next]_vars
  PROVE  PoolInv'
PROOF
  <1> USE DEF PoolInv
  <1>1. CASE RoundStarts
    BY <1>1 DEF RoundStarts, chainVars, callVars
  <1>2. CASE RoundEnds
    BY <1>2 DEF RoundEnds, chainVars, callVars
  <1>3. ASSUME NEW c \in Conditions, StartRedeem(c)
        PROVE  PoolInv'
    BY <1>3 DEF StartRedeem, chainVars
  <1>4. CASE Sign
    BY <1>4 DEF Sign, GetSafeNonce, chainVars
  <1>5. CASE GetNonce
    BY <1>5 DEF GetNonce, chainVars
  <1>6. CASE ReceiptSuccessful
    BY <1>6 DEF ReceiptSuccessful, chainVars, callVars
  <1>7. CASE ReceiptFailed
    BY <1>7 DEF ReceiptFailed, Continue, EndCall, chainVars
  <1>8. CASE CallFails
    BY <1>8 DEF CallFails, Continue, EndCall, chainVars
  <1>9. CASE Mark
    BY <1>9 DEF Mark, Continue, EndCall, chainVars
  <1>10. ASSUME NEW c \in Conditions, NEW p \in Prices, SendAccepted(c, p)
        PROVE  PoolInv'
    BY <1>10, AcceptedIsNext DEF SendAccepted, Accept
  <1>11. ASSUME NEW c \in Conditions, NEW p \in Prices, SendRejected(c, p)
        PROVE  PoolInv'
    BY <1>11 DEF SendRejected, Continue, EndCall, chainVars
  <1>12. ASSUME NEW c \in Conditions, NEW p \in Prices, SendLost(c, p)
        PROVE  PoolInv'
    BY <1>12, AcceptedIsNext DEF SendLost, Continue, EndCall, Accept
  <1>13. CASE Stop
    BY <1>13 DEF Stop, chainVars
  <1>14. ASSUME NEW t \in pool, Mine(t)
        PROVE  PoolInv'
    BY <1>14 DEF Mine
  <1>15. ASSUME NEW t \in pool, Drop(t)
        PROVE  PoolInv'
    BY <1>15 DEF Drop, callVars
  <1>16. ASSUME NEW c \in Conditions, Report(c)
        PROVE  PoolInv'
    BY <1>16 DEF Report, callVars
  <1>17. CASE UNCHANGED vars
    BY <1>17 DEF vars, chainVars, callVars
  <1> QED
    BY <1>1, <1>2, <1>3, <1>4, <1>5, <1>6, <1>7, <1>8, <1>9, <1>10, <1>11, <1>12, <1>13, <1>14, <1>15, <1>16, <1>17 DEF Next, RedeemWorker, Redeem, MineSome

\* Between the choice of a nonce and its use at most one transaction is mined.
LEMMA NonceStep ==
  ASSUME TypeOK, PoolInv, NonceInv, [Next]_vars
  PROVE  NonceInv'
PROOF
  <1> USE DEF NonceInv
  <1>1. CASE RoundStarts
    BY <1>1 DEF RoundStarts, chainVars, callVars
  <1>2. CASE RoundEnds
    BY <1>2 DEF RoundEnds, chainVars, callVars
  <1>3. ASSUME NEW c \in Conditions, StartRedeem(c)
        PROVE  NonceInv'
    BY <1>3 DEF StartRedeem, chainVars
  <1>4. CASE Sign
    BY <1>4 DEF Sign, GetSafeNonce, chainVars
  <1>5. CASE GetNonce
    BY <1>5 DEF GetNonce, chainVars
  <1>6. CASE ReceiptSuccessful
    BY <1>6 DEF ReceiptSuccessful, chainVars, callVars
  <1>7. CASE ReceiptFailed
    BY <1>7 DEF ReceiptFailed, Continue, EndCall, chainVars
  <1>8. CASE CallFails
    BY <1>8 DEF CallFails, Continue, EndCall, chainVars
  <1>9. CASE Mark
    BY <1>9 DEF Mark, Continue, EndCall, chainVars
  <1>10. ASSUME NEW c \in Conditions, NEW p \in Prices, SendAccepted(c, p)
        PROVE  NonceInv'
    BY <1>10 DEF SendAccepted, Accept
  <1>11. ASSUME NEW c \in Conditions, NEW p \in Prices, SendRejected(c, p)
        PROVE  NonceInv'
    BY <1>11 DEF SendRejected, Continue, EndCall, chainVars
  <1>12. ASSUME NEW c \in Conditions, NEW p \in Prices, SendLost(c, p)
        PROVE  NonceInv'
    BY <1>12 DEF SendLost, Continue, EndCall, Accept
  <1>13. CASE Stop
    BY <1>13 DEF Stop, chainVars
  <1>14. ASSUME NEW t \in pool, Mine(t)
        PROVE  NonceInv'
    BY <1>14 DEF Mine, PoolInv
  <1>15. ASSUME NEW t \in pool, Drop(t)
        PROVE  NonceInv'
    BY <1>15 DEF Drop, callVars
  <1>16. ASSUME NEW c \in Conditions, Report(c)
        PROVE  NonceInv'
    BY <1>16 DEF Report, callVars
  <1>17. CASE UNCHANGED vars
    BY <1>17 DEF vars, chainVars, callVars
  <1> QED
    BY <1>1, <1>2, <1>3, <1>4, <1>5, <1>6, <1>7, <1>8, <1>9, <1>10, <1>11, <1>12, <1>13, <1>14, <1>15, <1>16, <1>17 DEF Next, RedeemWorker, Redeem, MineSome

\* The receipt is that of this call and tells of its condition.
LEMMA CallStep ==
  ASSUME TypeOK, CallInv, [Next]_vars
  PROVE  CallInv'
PROOF
  <1> USE DEF CallInv
  <1>1. CASE RoundStarts
    BY <1>1 DEF RoundStarts, chainVars, callVars
  <1>2. CASE RoundEnds
    BY <1>2 DEF RoundEnds, chainVars, callVars
  <1>3. ASSUME NEW c \in Conditions, StartRedeem(c)
        PROVE  CallInv'
    BY <1>3 DEF StartRedeem, chainVars
  <1>4. CASE Sign
    BY <1>4 DEF Sign, GetSafeNonce, chainVars
  <1>5. CASE GetNonce
    BY <1>5 DEF GetNonce, chainVars
  <1>6. CASE ReceiptSuccessful
    BY <1>6 DEF ReceiptSuccessful, chainVars, callVars
  <1>7. CASE ReceiptFailed
    BY <1>7 DEF ReceiptFailed, Continue, EndCall, chainVars
  <1>8. CASE CallFails
    BY <1>8 DEF CallFails, Continue, EndCall, chainVars
  <1>9. CASE Mark
    BY <1>9 DEF Mark, Continue, EndCall, chainVars
  <1>10. ASSUME NEW c \in Conditions, NEW p \in Prices, SendAccepted(c, p)
        PROVE  CallInv'
    BY <1>10 DEF SendAccepted, Accept, Transaction
  <1>11. ASSUME NEW c \in Conditions, NEW p \in Prices, SendRejected(c, p)
        PROVE  CallInv'
    BY <1>11 DEF SendRejected, Continue, EndCall, chainVars
  <1>12. ASSUME NEW c \in Conditions, NEW p \in Prices, SendLost(c, p)
        PROVE  CallInv'
    BY <1>12 DEF SendLost, Continue, EndCall, Accept
  <1>13. CASE Stop
    BY <1>13 DEF Stop, chainVars
  <1>14. ASSUME NEW t \in pool, Mine(t)
        PROVE  CallInv'
    BY <1>14 DEF Mine
  <1>15. ASSUME NEW t \in pool, Drop(t)
        PROVE  CallInv'
    BY <1>15 DEF Drop, callVars
  <1>16. ASSUME NEW c \in Conditions, Report(c)
        PROVE  CallInv'
    BY <1>16 DEF Report, callVars
  <1>17. CASE UNCHANGED vars
    BY <1>17 DEF vars, chainVars, callVars
  <1> QED
    BY <1>1, <1>2, <1>3, <1>4, <1>5, <1>6, <1>7, <1>8, <1>9, <1>10, <1>11, <1>12, <1>13, <1>14, <1>15, <1>16, <1>17 DEF Next, RedeemWorker, Redeem, MineSome

\* Without a disturbance the worker waits for each transaction it sends.
LEMMA CalmStep ==
  ASSUME TypeOK, PoolInv, NonceInv, CallInv, CalmInv, [Next]_vars
  PROVE  CalmInv'
PROOF
  <1> USE DEF CallInv, CalmInv
  <1>1. CASE RoundStarts
    BY <1>1 DEF RoundStarts, chainVars, callVars
  <1>2. CASE RoundEnds
    BY <1>2 DEF RoundEnds, chainVars, callVars
  <1>3. ASSUME NEW c \in Conditions, StartRedeem(c)
        PROVE  CalmInv'
    BY <1>3 DEF StartRedeem, chainVars
  <1>4. CASE Sign
    BY <1>4 DEF Sign, GetSafeNonce, chainVars
  <1>5. CASE GetNonce
    BY <1>5 DEF GetNonce, chainVars
  <1>6. CASE ReceiptSuccessful
    BY <1>6 DEF ReceiptSuccessful, chainVars, callVars
  <1>7. CASE ReceiptFailed
    BY <1>7 DEF ReceiptFailed, Continue, EndCall, chainVars
  <1>8. CASE CallFails
    BY <1>8, Disturbed DEF CallFails, Continue, EndCall, chainVars
  <1>9. CASE Mark
    BY <1>9, Disturbed DEF Mark, Continue, EndCall, chainVars
  <1>10. ASSUME NEW c \in Conditions, NEW p \in Prices, SendAccepted(c, p)
        PROVE  CalmInv'
    BY <1>10 DEF SendAccepted, Accept, Transaction
  <1>11. ASSUME NEW c \in Conditions, NEW p \in Prices, SendRejected(c, p)
        PROVE  CalmInv'
    BY <1>11, CalmAccepts DEF SendRejected, Continue, EndCall, chainVars
  <1>12. ASSUME NEW c \in Conditions, NEW p \in Prices, SendLost(c, p)
        PROVE  CalmInv'
    BY <1>12, Disturbed DEF SendLost, Continue, EndCall, Accept
  <1>13. CASE Stop
    BY <1>13, Disturbed DEF Stop, chainVars
  <1>14. ASSUME NEW t \in pool, Mine(t)
        PROVE  CalmInv'
    BY <1>14 DEF Mine, PoolInv
  <1>15. ASSUME NEW t \in pool, Drop(t)
        PROVE  CalmInv'
    BY <1>15, Disturbed DEF Drop, callVars
  <1>16. ASSUME NEW c \in Conditions, Report(c)
        PROVE  CalmInv'
    BY <1>16 DEF Report, callVars
  <1>17. CASE UNCHANGED vars
    BY <1>17 DEF vars, chainVars, callVars
  <1> QED
    BY <1>1, <1>2, <1>3, <1>4, <1>5, <1>6, <1>7, <1>8, <1>9, <1>10, <1>11, <1>12, <1>13, <1>14, <1>15, <1>16, <1>17 DEF Next, RedeemWorker, Redeem, MineSome


\* The worker holds no market that is recorded already.
LEMMA TodoStep ==
  ASSUME TodoInv, [Next]_vars
  PROVE  TodoInv'
PROOF
  <1> USE DEF TodoInv
  <1>1. CASE RoundStarts
    BY <1>1 DEF RoundStarts, chainVars, callVars
  <1>2. CASE RoundEnds
    BY <1>2 DEF RoundEnds, chainVars, callVars
  <1>3. ASSUME NEW c \in Conditions, StartRedeem(c)
        PROVE  TodoInv'
    BY <1>3 DEF StartRedeem, chainVars
  <1>4. CASE Sign
    BY <1>4 DEF Sign, GetSafeNonce, chainVars
  <1>5. CASE GetNonce
    BY <1>5 DEF GetNonce, chainVars
  <1>6. CASE ReceiptSuccessful
    BY <1>6 DEF ReceiptSuccessful, chainVars, callVars
  <1>7. CASE ReceiptFailed
    BY <1>7 DEF ReceiptFailed, Continue, EndCall, chainVars
  <1>8. CASE CallFails
    BY <1>8 DEF CallFails, Continue, EndCall, chainVars
  <1>9. CASE Mark
    BY <1>9 DEF Mark, Continue, EndCall, chainVars
  <1>10. ASSUME NEW c \in Conditions, NEW p \in Prices, SendAccepted(c, p)
        PROVE  TodoInv'
    BY <1>10 DEF SendAccepted, Accept
  <1>11. ASSUME NEW c \in Conditions, NEW p \in Prices, SendRejected(c, p)
        PROVE  TodoInv'
    BY <1>11 DEF SendRejected, Continue, EndCall, chainVars
  <1>12. ASSUME NEW c \in Conditions, NEW p \in Prices, SendLost(c, p)
        PROVE  TodoInv'
    BY <1>12 DEF SendLost, Continue, EndCall, Accept
  <1>13. CASE Stop
    BY <1>13 DEF Stop, chainVars
  <1>14. ASSUME NEW t \in pool, Mine(t)
        PROVE  TodoInv'
    BY <1>14 DEF Mine
  <1>15. ASSUME NEW t \in pool, Drop(t)
        PROVE  TodoInv'
    BY <1>15 DEF Drop, callVars
  <1>16. ASSUME NEW c \in Conditions, Report(c)
        PROVE  TodoInv'
    BY <1>16 DEF Report, callVars
  <1>17. CASE UNCHANGED vars
    BY <1>17 DEF vars, chainVars, callVars
  <1> QED
    BY <1>1, <1>2, <1>3, <1>4, <1>5, <1>6, <1>7, <1>8, <1>9, <1>10, <1>11, <1>12, <1>13, <1>14, <1>15, <1>16, <1>17 DEF Next, RedeemWorker, Redeem, MineSome

\* Recorded is only what a receipt showed to be paid.
LEMMA PaidStep ==
  ASSUME CallInv, RecordedMeansPaid, [Next]_vars
  PROVE  RecordedMeansPaid'
PROOF
  <1> USE DEF RecordedMeansPaid
  <1>1. CASE RoundStarts
    BY <1>1 DEF RoundStarts, chainVars, callVars
  <1>2. CASE RoundEnds
    BY <1>2 DEF RoundEnds, chainVars, callVars
  <1>3. ASSUME NEW c \in Conditions, StartRedeem(c)
        PROVE  RecordedMeansPaid'
    BY <1>3 DEF StartRedeem, chainVars
  <1>4. CASE Sign
    BY <1>4 DEF Sign, GetSafeNonce, chainVars
  <1>5. CASE GetNonce
    BY <1>5 DEF GetNonce, chainVars
  <1>6. CASE ReceiptSuccessful
    BY <1>6 DEF ReceiptSuccessful, chainVars, callVars
  <1>7. CASE ReceiptFailed
    BY <1>7 DEF ReceiptFailed, Continue, EndCall, chainVars
  <1>8. CASE CallFails
    BY <1>8 DEF CallFails, Continue, EndCall, chainVars
  <1>9. CASE Mark
    BY <1>9 DEF Mark, Continue, EndCall, chainVars, CallInv
  <1>10. ASSUME NEW c \in Conditions, NEW p \in Prices, SendAccepted(c, p)
        PROVE  RecordedMeansPaid'
    BY <1>10 DEF SendAccepted, Accept
  <1>11. ASSUME NEW c \in Conditions, NEW p \in Prices, SendRejected(c, p)
        PROVE  RecordedMeansPaid'
    BY <1>11 DEF SendRejected, Continue, EndCall, chainVars
  <1>12. ASSUME NEW c \in Conditions, NEW p \in Prices, SendLost(c, p)
        PROVE  RecordedMeansPaid'
    BY <1>12 DEF SendLost, Continue, EndCall, Accept
  <1>13. CASE Stop
    BY <1>13 DEF Stop, chainVars
  <1>14. ASSUME NEW t \in pool, Mine(t)
        PROVE  RecordedMeansPaid'
    BY <1>14 DEF Mine
  <1>15. ASSUME NEW t \in pool, Drop(t)
        PROVE  RecordedMeansPaid'
    BY <1>15 DEF Drop, callVars
  <1>16. ASSUME NEW c \in Conditions, Report(c)
        PROVE  RecordedMeansPaid'
    BY <1>16 DEF Report, callVars
  <1>17. CASE UNCHANGED vars
    BY <1>17 DEF vars, chainVars, callVars
  <1> QED
    BY <1>1, <1>2, <1>3, <1>4, <1>5, <1>6, <1>7, <1>8, <1>9, <1>10, <1>11, <1>12, <1>13, <1>14, <1>15, <1>16, <1>17 DEF Next, RedeemWorker, Redeem, MineSome

-----------------------------------------------------------------------------
\* IInv is an inductive invariant of the specification.
THEOREM Invariance ==
  Spec => []IInv
PROOF
  <1>1. Init => IInv
    BY InitStep
  <1>2. IInv /\ [Next]_vars => IInv'
    BY TypeStep, PoolStep, NonceStep, CallStep, CalmStep, TodoStep, PaidStep DEF IInv
  <1> QED
    BY <1>1, <1>2, PTL DEF Spec

\* The variables keep their types (redeem.go, blockchain.go:160-173).
THEOREM TypeCorrect ==
  Spec => []TypeOK
PROOF
  <1>1. IInv => TypeOK
    BY DEF IInv
  <1> QED
    BY <1>1, Invariance, PTL

\* A market is recorded as redeemed only if its condition was paid
\* (redeem.go:58-70, engine.go:171-178).
THEOREM RecordedPaid ==
  Spec => []RecordedMeansPaid
PROOF
  <1>1. IInv => RecordedMeansPaid
    BY DEF IInv
  <1> QED
    BY <1>1, Invariance, PTL

\* Redemptions never queue behind each other (blockchain.go:173).
THEOREM NeverQueued ==
  Spec => []OnePending
PROOF
  <1>1. ASSUME PoolInv
        PROVE  Cardinality(pool) <= 1
    <2>1. CASE pool = {}
      BY <2>1, FS_EmptySet
    <2>2. CASE pool # {}
      <3>1. PICK t : t \in pool
        BY <2>2
      <3>2. pool = {t}
        BY <3>1, <1>1 DEF PoolInv
      <3>3. Cardinality({t}) = 1
        BY FS_Singleton
      <3> QED
        BY <3>2, <3>3
    <2> QED
      BY <2>1, <2>2
  <1>2. IInv => OnePending
    BY <1>1 DEF IInv, PoolInv, OnePending
  <1> QED
    BY <1>2, Invariance, PTL

\* Without a failed call or a stop redemptions do not collide
\* (engine.go:185, blockchain.go:240-262).
THEOREM CalmNeverCollides ==
  Spec => []UndisturbedNeverCollides
PROOF
  <1>1. IInv => UndisturbedNeverCollides
    BY DEF IInv, CalmInv, UndisturbedNeverCollides
  <1> QED
    BY <1>1, Invariance, PTL

-----------------------------------------------------------------------------
\* Twenty percent, of a price that is not a handful of wei, are a tenth and more.
LEMMA BoostCovers ==
  ASSUME NEW p \in Nat, p >= 5, NEW b \in {20, 30}
  PROVE  LET f == p + (p * b) \div 100 IN f \in Nat /\ f * 10 >= p * 11
PROOF
  <1> DEFINE x == p * b
             d == x \div 100
  <1>1. x \in Nat
    <2>1. CASE b = 20
      BY <2>1
    <2>2. CASE b = 30
      BY <2>2
    <2> QED
      BY <2>1, <2>2
  <1>2. d \in Nat /\ x < 100 * d + 100
    <2> HIDE DEF x
    <2> QED
      BY <1>1
  <1>3. d * 10 >= p
    <2> HIDE DEF d
    <2>1. CASE b = 20
      BY <1>2, <2>1
    <2>2. CASE b = 30
      BY <1>2, <2>2
    <2> QED
      BY <2>1, <2>2
  <1>4. p + d \in Nat /\ (p + d) * 10 >= p * 11
    <2> HIDE DEF d
    <2> QED
      BY <1>2, <1>3
  <1> QED
    BY <1>4

\* What is true of "boost gas prices on retries to ensure transaction
\* replacement" (blockchain.go:188): a retry replaces whatever was sent for no
\* more than the price the node suggests now, so only a pending transaction
\* that was boosted itself, or sent while gas was dearer, can refuse it.
THEOREM RetriesReplaceUnboosted ==
  Spec => [](pc = "send" /\ attempt > 0 =>
               \A p \in Prices, t \in pool : p >= 5 /\ t.fee <= p => Replaces(Fee(p), t))
PROOF
  <1>1. ASSUME TypeOK, attempt > 0, NEW p \in Prices, NEW t \in pool, p >= 5, t.fee <= p
        PROVE  Replaces(Fee(p), t)
    <2>1. p \in Nat
      BY RedemptionAssumption
    <2>2. t.fee \in Nat
      BY <1>1, TransactionType DEF TypeOK, Tx
    <2>3. Boost \in {20, 30}
      BY <1>1 DEF TypeOK, Boost
    <2>4. Fee(p) \in Nat /\ Fee(p) * 10 >= p * 11
      BY <1>1, <2>1, <2>3, BoostCovers DEF Fee
    <2> QED
      BY <1>1, <2>1, <2>2, <2>4 DEF Replaces
  <1>2. IInv => (pc = "send" /\ attempt > 0 =>
                   \A p \in Prices, t \in pool : p >= 5 /\ t.fee <= p => Replaces(Fee(p), t))
    BY <1>1 DEF IInv
  <1> QED
    BY <1>2, Invariance, PTL

-----------------------------------------------------------------------------
(***************************************************************************)
(* What is repeated is owed.  A repetition needs a market that was paid    *)
(* and that no call will record, or a pending transaction that no call     *)
(* waits for; a crash or a failed call leaves one of the two behind, never *)
(* both, and the repetition uses it up.                                    *)
(***************************************************************************)
\* The market this call has paid and is about to record.
Own == IF receipt = "successful" THEN cond ELSE {}

Unrecorded == paid \ (recorded \cup Own)
Left == IF pool \subseteq sent THEN 0 ELSE 1

OwedInv == repeats + Cardinality(Unrecorded) + Left <= faults + stops

LEMMA UnrecordedFinite ==
  ASSUME TypeOK
  PROVE  IsFiniteSet(Unrecorded) /\ Cardinality(Unrecorded) \in Nat
PROOF
  <1>1. Unrecorded \subseteq Conditions
    BY DEF TypeOK, Unrecorded
  <1>2. IsFiniteSet(Unrecorded)
    BY <1>1, RedemptionAssumption, FS_Subset
  <1> QED
    BY <1>2, FS_CardinalityType

\* The sum of three counts is raised by no more than their bound.
LEMMA SumRaised ==
  ASSUME NEW r \in Int, NEW n \in Int, NEW m \in Int, NEW l \in Int, NEW k \in Int,
         NEW f \in Int, NEW g \in Int, NEW a \in {0, 1}, NEW b \in {0, 1},
         m <= n + a, k <= l + b, r + n + l <= f, f + a + b <= g
  PROVE  r + m + k <= g
PROOF
  <1>1. a \in Int /\ b \in Int
    OBVIOUS
  <1> QED
    BY <1>1

LEMMA CountsInt ==
  ASSUME TypeOK
  PROVE  repeats \in Nat /\ faults \in Int /\ stops \in Int
PROOF
  BY RedemptionAssumption DEF TypeOK

\* A step that leaves a behind, one unrecorded market at most, and b, one
\* pending transaction at most, and that counts as many faults or stops.
LEMMA Owes ==
  ASSUME TypeOK, TypeOK', OwedInv, repeats' = repeats,
         NEW a \in {0, 1}, NEW b \in {0, 1}, NEW c,
         Unrecorded' \subseteq IF a = 0 THEN Unrecorded ELSE Unrecorded \cup {c},
         Left' <= Left + b,
         faults + stops + a + b <= faults' + stops'
  PROVE  OwedInv'
PROOF
  <1>1. IsFiniteSet(Unrecorded) /\ Cardinality(Unrecorded) \in Nat /\ Cardinality(Unrecorded') \in Nat
    <2>1. IsFiniteSet(Unrecorded)' /\ (Cardinality(Unrecorded) \in Nat)'
      BY UnrecordedFinite, PTL
    <2> QED
      BY <2>1, UnrecordedFinite
  <1>2. Cardinality(Unrecorded') <= Cardinality(Unrecorded) + a
    <2>1. CASE a = 0
      BY <1>1, <2>1, FS_Subset
    <2>2. CASE a = 1
      <3>1. /\ IsFiniteSet(Unrecorded \cup {c})
            /\ Cardinality(Unrecorded \cup {c}) <= Cardinality(Unrecorded) + 1
        <4>1. /\ IsFiniteSet(Unrecorded \cup {c})
              /\ Cardinality(Unrecorded \cup {c})
                   = IF c \in Unrecorded THEN Cardinality(Unrecorded) ELSE Cardinality(Unrecorded) + 1
          BY <1>1, FS_AddElement
        <4> HIDE DEF Unrecorded
        <4>2. CASE c \in Unrecorded
          BY <1>1, <4>1, <4>2
        <4>3. CASE c \notin Unrecorded
          BY <1>1, <4>1, <4>3
        <4> QED
          BY <4>2, <4>3
      <3>2. Cardinality(Unrecorded') <= Cardinality(Unrecorded \cup {c})
        BY <2>2, <3>1, FS_Subset
      <3>3. Cardinality(Unrecorded \cup {c}) \in Nat
        BY <3>1, FS_CardinalityType
      <3> QED
        BY <1>1, <2>2, <3>1, <3>2, <3>3
    <2> QED
      BY <2>1, <2>2
  <1>3. Left \in {0, 1} /\ Left' \in {0, 1}
    BY DEF Left
  <1>4. /\ repeats \in Nat /\ faults \in Int /\ stops \in Int
        /\ faults' \in Int /\ stops' \in Int
    <2>1. (repeats \in Nat /\ faults \in Int /\ stops \in Int)'
      BY CountsInt, PTL
    <2> QED
      BY <2>1, CountsInt
  <1>5. repeats' + Cardinality(Unrecorded') + Left' <= faults' + stops'
    <2>1. repeats + Cardinality(Unrecorded) + Left <= faults + stops
      BY DEF OwedInv
    <2> DEFINE n == Cardinality(Unrecorded)
               m == Cardinality(Unrecorded')
               l == Left
               k == Left'
               f == faults + stops
               g == faults' + stops'
    <2>2. n \in Int /\ m \in Int /\ l \in Int /\ k \in Int /\ m <= n + a /\ k <= l + b
      BY <1>1, <1>2, <1>3
    <2>3. f \in Int /\ g \in Int /\ repeats \in Int
      BY <1>4
    <2>4. repeats + n + l <= f
      BY <2>1
    <2>5. f + a + b <= g
      BY Zenon
    <2> HIDE DEF n, m, l, k, f, g
    <2>6. repeats + m + k <= g
      BY <2>2, <2>3, <2>4, <2>5, SumRaised
    <2> QED
      BY <2>6 DEF n, m, l, k, f, g
  <1> QED
    BY <1>5 DEF OwedInv

\* A call that ends, whatever for, leaves its payment or its transaction
\* behind, never both.
LEMMA EndLeaves ==
  ASSUME TypeOK, TypeOK', CallInv, OwedInv,
         sent' = {}, receipt' = "none", UNCHANGED <<pool, paid, repeats>>,
         recorded' = recorded \/ recorded' = recorded \cup cond,
         faults + stops + 1 <= faults' + stops'
  PROVE  OwedInv'
PROOF
  <1> DEFINE f == faults + stops
             g == faults' + stops'
  <1>0. f + 0 + 1 <= g /\ f + 1 + 0 <= g
    <2>1. faults \in Int /\ stops \in Int
      BY CountsInt
    <2>2. (repeats \in Nat /\ faults \in Int /\ stops \in Int)'
      BY CountsInt, PTL
    <2>3. f \in Int /\ g \in Int
      BY <2>1, <2>2
    <2>4. f + 1 <= g
      BY Zenon
    <2> HIDE DEF f, g
    <2> QED
      BY <2>3, <2>4
  <1>1. CASE receipt = "none"
    <2>1. Unrecorded' \subseteq Unrecorded
      BY <1>1 DEF Unrecorded, Own
    <2>2. Left' <= Left + 1
      BY DEF Left
    <2>3. faults + stops + 0 + 1 <= faults' + stops'
      BY <1>0, Zenon
    <2> QED
      BY <2>1, <2>2, <2>3, Owes
  <1>2. CASE receipt # "none"
    <2>1. PICK c : cond \subseteq {c}
      BY DEF CallInv
    <2>2. Unrecorded' \subseteq Unrecorded \cup {c}
      BY <2>1 DEF Unrecorded, Own
    <2>3. Left' <= Left + 0
      BY <1>2 DEF Left, CallInv
    <2>4. faults + stops + 1 + 0 <= faults' + stops'
      BY <1>0, Zenon
    <2> QED
      BY <2>2, <2>3, <2>4, Owes
  <1> QED
    BY <1>1, <1>2

\* A step that leaves nothing behind.
LEMMA Keeps ==
  ASSUME TypeOK, TypeOK', OwedInv, repeats' = repeats,
         Unrecorded' \subseteq Unrecorded, Left' <= Left,
         faults + stops <= faults' + stops'
  PROVE  OwedInv'
PROOF
  <1>1. Left' <= Left + 0
    BY DEF Left
  <1>2. faults + stops + 0 + 0 <= faults' + stops'
    <2>1. (repeats \in Nat /\ faults \in Int /\ stops \in Int)'
      BY CountsInt, PTL
    <2> QED
      BY <2>1, CountsInt
  <1> QED
    BY <1>1, <1>2, Owes

\* A transaction that is mined repeats a redemption only at the cost of what
\* was left behind.
LEMMA MineOwes ==
  ASSUME IInv, TypeOK', OwedInv, NEW t \in pool, Mine(t)
  PROVE  OwedInv'
PROOF
  <1> USE DEF IInv
  <1>1. /\ pool = {t} /\ pool' = {} /\ Left' = 0
        /\ UNCHANGED <<recorded, cond, sent, faults, stops>>
    BY DEF Mine, PoolInv, Left
  <1>2. CASE ~Succeeds(t)
    <2>1. UNCHANGED <<paid, repeats>>
      BY <1>2 DEF Mine
    <2>2. t \in sent => receipt = "none" /\ receipt' = "failed"
      BY <1>2 DEF Mine, CallInv
    <2>3. Unrecorded' \subseteq Unrecorded
      BY <1>1, <2>1, <2>2 DEF Mine, Unrecorded, Own
    <2> QED
      BY <1>1, <2>1, <2>3, Keeps DEF Left, TypeOK
  <1>3. CASE Succeeds(t) /\ t.cond \notin paid
    <2>1. repeats' = repeats /\ paid' = paid \cup {t.cond}
      BY <1>3 DEF Mine
    <2>2. CASE t \in sent
      <3>1. receipt = "none" /\ receipt' = "successful" /\ t.cond \in cond
        BY <1>3, <2>2 DEF Mine, CallInv
      <3>2. Unrecorded' \subseteq Unrecorded
        BY <1>1, <2>1, <3>1 DEF Unrecorded, Own
      <3> QED
        BY <1>1, <2>1, <3>2, Keeps DEF Left, TypeOK
    <2>3. CASE t \notin sent
      <3>1. Left = 1 /\ receipt' = receipt
        BY <1>1, <2>3 DEF Left, Mine
      <3>2. Unrecorded' \subseteq Unrecorded \cup {t.cond}
        BY <1>1, <2>1, <3>1 DEF Unrecorded, Own
      <3>3. Cardinality(Unrecorded') <= Cardinality(Unrecorded) + 1
        <4>1. IsFiniteSet(Unrecorded) /\ Cardinality(Unrecorded) \in Nat
          BY UnrecordedFinite
        <4>2. /\ IsFiniteSet(Unrecorded \cup {t.cond})
              /\ Cardinality(Unrecorded \cup {t.cond}) <= Cardinality(Unrecorded) + 1
          BY <4>1, FS_AddElement
        <4>3. Cardinality(Unrecorded \cup {t.cond}) \in Nat
          BY <4>2, FS_CardinalityType
        <4>4. /\ Cardinality(Unrecorded') <= Cardinality(Unrecorded \cup {t.cond})
              /\ IsFiniteSet(Unrecorded')
          BY <3>2, <4>2, FS_Subset
        <4>5. Cardinality(Unrecorded') \in Nat
          BY <4>4, FS_CardinalityType
        <4> QED
          BY <4>1, <4>2, <4>3, <4>4, <4>5
      <3>4. IsFiniteSet(Unrecorded)' /\ (Cardinality(Unrecorded) \in Nat)'
        BY UnrecordedFinite, PTL
      <3>5. Cardinality(Unrecorded) \in Nat
        BY UnrecordedFinite
      <3> QED
        BY <1>1, <2>1, <3>1, <3>3, <3>4, <3>5 DEF OwedInv, TypeOK
    <2> QED
      BY <2>2, <2>3
  <1>4. CASE Succeeds(t) /\ t.cond \in paid
    <2>1. repeats' = repeats + 1 /\ paid' = paid
      BY <1>4 DEF Mine
    <2>2. IsFiniteSet(Unrecorded) /\ Cardinality(Unrecorded) \in Nat
      BY UnrecordedFinite
    <2>3. (Cardinality(Unrecorded) \in Nat)'
      BY UnrecordedFinite, PTL
    <2>4. CASE t \in sent
      <3>1. receipt = "none" /\ receipt' = "successful" /\ t.cond \in cond
        BY <1>4, <2>4 DEF Mine, CallInv
      <3>2. t.cond \in Unrecorded
        BY <1>4, <3>1 DEF TodoInv, Unrecorded, Own
      <3>3. Unrecorded' \subseteq Unrecorded \ {t.cond}
        BY <1>1, <2>1, <3>1 DEF Unrecorded, Own
      <3>4. /\ IsFiniteSet(Unrecorded \ {t.cond})
            /\ Cardinality(Unrecorded \ {t.cond}) = Cardinality(Unrecorded) - 1
        BY <2>2, <3>2, FS_RemoveElement
      <3>5. Cardinality(Unrecorded') <= Cardinality(Unrecorded) - 1
        BY <3>3, <3>4, FS_Subset
      <3>6. Left \in {0, 1}
        BY DEF Left
      <3> QED
        BY <1>1, <2>1, <2>2, <2>3, <3>5, <3>6 DEF OwedInv, TypeOK
    <2>5. CASE t \notin sent
      <3>1. Left = 1 /\ receipt' = receipt
        BY <1>1, <2>5 DEF Left, Mine
      <3>2. Unrecorded' = Unrecorded
        BY <1>1, <2>1, <3>1 DEF Unrecorded, Own
      <3> QED
        BY <1>1, <2>1, <2>2, <3>1, <3>2 DEF OwedInv, TypeOK
    <2> QED
      BY <2>4, <2>5
  <1> QED
    BY <1>2, <1>3, <1>4

LEMMA OwedStep ==
  ASSUME IInv, TypeOK', OwedInv, [Next]_vars
  PROVE  OwedInv'
PROOF
  <1>1. TypeOK /\ CallInv
    BY DEF IInv
  <1>2. ASSUME UNCHANGED <<repeats, paid, recorded, cond, receipt, faults, stops>>,
               pool' \ sent' \subseteq pool \ sent
        PROVE  OwedInv'
    <2>1. Unrecorded' \subseteq Unrecorded /\ Left' <= Left
      BY <1>2 DEF Unrecorded, Own, Left
    <2> QED
      BY <1>1, <1>2, <2>1, Keeps DEF TypeOK
  <1>3. CASE RoundStarts \/ RoundEnds \/ Sign \/ GetNonce \/ ReceiptSuccessful
    BY <1>2, <1>3 DEF RoundStarts, RoundEnds, Sign, GetSafeNonce, GetNonce, ReceiptSuccessful,
        chainVars, callVars
  <1>4. ASSUME NEW c \in Conditions, StartRedeem(c)
        PROVE  OwedInv'
    <2>1. Unrecorded' \subseteq Unrecorded /\ Left' <= Left
      BY <1>1, <1>4 DEF StartRedeem, CallInv, chainVars, Unrecorded, Own, Left
    <2> QED
      BY <1>1, <1>4, <2>1, Keeps DEF StartRedeem, chainVars, TypeOK
  <1>5. CASE ReceiptFailed
    <2>1. Unrecorded' \subseteq Unrecorded /\ Left' <= Left
      BY <1>1, <1>5 DEF ReceiptFailed, Continue, EndCall, CallInv, chainVars, Unrecorded, Own, Left
    <2> QED
      BY <1>1, <1>5, <2>1, Keeps DEF ReceiptFailed, chainVars, TypeOK
  <1>6. CASE CallFails
    <2>1. CASE Fault
      <3>1. faults + stops + 1 <= faults' + stops'
        BY <1>1, <1>6, <2>1 DEF CallFails, Fault, TypeOK
      <3> QED
        BY <1>1, <1>6, <3>1, EndLeaves DEF CallFails, Continue, EndCall, chainVars
    <2>2. CASE receipt = "none" /\ sent \cap pool = {} /\ UNCHANGED faults
      <3>1. Unrecorded' \subseteq Unrecorded /\ Left' <= Left
        BY <1>6, <2>2 DEF CallFails, Continue, EndCall, chainVars, Unrecorded, Own, Left
      <3> QED
        BY <1>1, <1>6, <2>2, <3>1, Keeps DEF CallFails, chainVars, TypeOK
    <2> QED
      BY <1>6, <2>1, <2>2 DEF CallFails
  <1>7. CASE Mark
    <2>1. CASE Fault
      <3>1. faults + stops + 1 <= faults' + stops'
        BY <1>1, <1>7, <2>1 DEF Mark, Fault, TypeOK
      <3> QED
        BY <1>1, <1>7, <2>1, <3>1, EndLeaves DEF Mark, Continue, EndCall, chainVars
    <2>2. CASE recorded' = recorded \cup cond /\ UNCHANGED faults
      <3>1. Unrecorded' \subseteq Unrecorded /\ Left' <= Left
        BY <1>1, <1>7, <2>2 DEF Mark, Continue, EndCall, CallInv, chainVars, Unrecorded, Own, Left
      <3> QED
        BY <1>1, <1>7, <2>2, <3>1, Keeps DEF Mark, chainVars, TypeOK
    <2> QED
      BY <1>7, <2>1, <2>2 DEF Mark
  <1>8. ASSUME NEW c \in Conditions, NEW p \in Prices, SendAccepted(c, p)
        PROVE  OwedInv'
    <2>1. pool' \ sent' \subseteq pool \ sent
      BY <1>1, <1>8 DEF SendAccepted, Accept, CallInv
    <2> QED
      BY <1>2, <1>8, <2>1 DEF SendAccepted
  <1>9. ASSUME NEW c \in Conditions, NEW p \in Prices, SendRejected(c, p)
        PROVE  OwedInv'
    <2>1. Unrecorded' \subseteq Unrecorded /\ Left' <= Left
      BY <1>1, <1>9 DEF SendRejected, Continue, EndCall, CallInv, chainVars, Unrecorded, Own, Left
    <2> QED
      BY <1>1, <1>9, <2>1, Keeps DEF SendRejected, chainVars, TypeOK
  <1>10. ASSUME NEW c \in Conditions, NEW p \in Prices, SendLost(c, p)
         PROVE  OwedInv'
    <2>1. Unrecorded' \subseteq Unrecorded
      BY <1>1, <1>10 DEF SendLost, Continue, EndCall, CallInv, Unrecorded, Own
    <2>2. Left' <= Left + 1
      BY DEF Left
    <2>3. faults + stops + 0 + 1 <= faults' + stops'
      BY <1>1, <1>10 DEF SendLost, Fault, TypeOK
    <2> QED
      BY <1>1, <1>10, <2>1, <2>2, <2>3, Owes DEF SendLost
  <1>11. CASE Stop
    <2>1. faults + stops + 1 <= faults' + stops'
      BY <1>1, <1>11 DEF Stop, TypeOK
    <2> QED
      BY <1>1, <1>11, <2>1, EndLeaves DEF Stop, chainVars
  <1>12. ASSUME NEW t \in pool, Mine(t)
         PROVE  OwedInv'
    BY <1>12, MineOwes
  <1>13. ASSUME NEW t \in pool, Drop(t)
         PROVE  OwedInv'
    <2>1. Unrecorded' \subseteq Unrecorded /\ Left' <= Left
      BY <1>13 DEF Drop, callVars, Unrecorded, Own, Left
    <2> QED
      BY <1>1, <1>13, <2>1, Keeps DEF Drop, Fault, TypeOK
  <1>14. ASSUME NEW c \in Conditions, Report(c)
         PROVE  OwedInv'
    BY <1>2, <1>14 DEF Report, callVars
  <1>15. CASE UNCHANGED vars
    BY <1>2, <1>15 DEF vars, chainVars, callVars
  <1> QED
    BY <1>3, <1>4, <1>5, <1>6, <1>7, <1>8, <1>9, <1>10, <1>11, <1>12, <1>13, <1>14, <1>15
        DEF Next, RedeemWorker, Redeem, MineSome

\* Every redemption that is repeated is owed to a crash or a failed call of its
\* own, whatever is replaced, reverted, dropped or mined late
\* (engine.go:156-187, blockchain.go:163-262).
THEOREM RepeatsOwed ==
  Spec => []RepeatsAreOwed
PROOF
  <1>1. Init => OwedInv
    <2>1. Init => Unrecorded = {} /\ Left = 0
      BY DEF Init, NoCall, Unrecorded, Left
    <2> QED
      BY <2>1, FS_EmptySet DEF Init, OwedInv
  <1>2. IInv /\ TypeOK' /\ OwedInv /\ [Next]_vars => OwedInv'
    BY OwedStep
  <1>3. TypeOK /\ OwedInv => RepeatsAreOwed
    <2> SUFFICES ASSUME TypeOK, OwedInv
                 PROVE  RepeatsAreOwed
      OBVIOUS
    <2>1. Cardinality(Unrecorded) \in Nat /\ Left \in {0, 1}
      BY UnrecordedFinite DEF Left
    <2> QED
      BY <2>1 DEF OwedInv, RepeatsAreOwed, TypeOK
  <1> QED
    BY <1>1, <1>2, <1>3, Invariance, TypeCorrect, PTL DEF Spec
=============================================================================
