------------------------------ MODULE Redemption ------------------------------
(***************************************************************************)
(* Redeeming resolved markets on the chain: the loop of startRedeemWorker  *)
(* (internal/engine/engine.go) with Client.Redeem and its helpers          *)
(* (internal/exchange/polymarket/redeem.go, blockchain.go).  A redemption  *)
(* is a call of a Gnosis Safe, signed for one Safe nonce, inside a         *)
(* transaction of the relayer account, which has a nonce of its own.  The  *)
(* chain, its pool of pending transactions and the Safe outlive the        *)
(* process.  When a market is due for redemption is the subject of         *)
(* MarketLifecycle: here every market is.                                  *)
(***************************************************************************)
EXTENDS Integers, FiniteSets

CONSTANTS
  Conditions,   \* the condition of each resolved market
  Unreported,   \* conditions whose result the oracle need never report
  Prices,       \* the gas prices the node may suggest
  NonceSpace,   \* number of nonces of an account: 2^64
  MaxFaults,    \* bound: failed calls, timeouts, dropped transactions
  MaxStops      \* bound: crashes and shutdowns

ASSUME RedemptionAssumption ==
  /\ IsFiniteSet(Conditions) /\ Unreported \subseteq Conditions
  /\ Prices \subseteq Nat \ {0}
  /\ NonceSpace \in Nat /\ NonceSpace >= 4
  /\ MaxFaults \in Nat /\ MaxStops \in Nat

VARIABLES
  reported,   \* conditions with a result on the chain
  paid,       \* conditions a redemption of the Safe has succeeded for
  safeNonce,  \* the nonce of the Safe
  eoaNonce,   \* the nonce of the relayer in the latest block
  pool,       \* pending transactions of the relayer
  recorded,   \* conditions whose market has the status "redeemed"
  pc,         \* the redeem worker
  todo,       \* what is left of resolvedMarkets
  cond,       \* the condition in redemption: one or none
  signed,     \* the Safe nonce the signatures of this call are for
  attempt,    \* executeSafeTransaction
  nonce,      \* the relayer nonce of this attempt
  sent,       \* the transaction of this call the node accepted: one or none
  receipt,    \* its receipt
  repeats,    \* history: redemptions mined of conditions that were paid before
  faults, stops

chainVars == <<reported, paid, safeNonce, eoaNonce, pool, repeats>>
callVars  == <<cond, signed, attempt, nonce, sent, receipt>>
vars == <<chainVars, recorded, pc, todo, callVars, faults, stops>>

Nonces == 0 .. NonceSpace - 1
Tx == [cond : Conditions, safe : Nonces, nonce : Nonces, fee : Nat]

TypeOK ==
  /\ reported \subseteq Conditions /\ paid \subseteq Conditions
  /\ safeNonce \in Nonces /\ eoaNonce \in Nonces
  /\ pool \subseteq Tx
  /\ recorded \subseteq Conditions
  /\ pc \in {"idle", "next", "sign", "nonce", "send", "receipt", "mark"}
  /\ todo \subseteq Conditions /\ cond \subseteq Conditions
  /\ signed \in Nonces /\ nonce \in Nonces
  /\ attempt \in 0 .. 2
  /\ sent \subseteq Tx
  /\ receipt \in {"none", "successful", "failed"}
  /\ repeats \in Nat
  /\ faults \in 0 .. MaxFaults /\ stops \in 0 .. MaxStops

NoCall ==
  /\ cond = {} /\ signed = 0 /\ attempt = 0 /\ nonce = 0
  /\ sent = {} /\ receipt = "none"

Init ==
  /\ reported = {} /\ paid = {} /\ safeNonce = 0 /\ eoaNonce = 0 /\ pool = {}
  /\ recorded = {} /\ repeats = 0
  /\ pc = "idle" /\ todo = {} /\ NoCall
  /\ faults = 0 /\ stops = 0

Fault == faults < MaxFaults /\ faults' = faults + 1

-----------------------------------------------------------------------------
(***************************************************************************)
(* The chain.                                                              *)
(***************************************************************************)
NextNonce(n) == IF n = NonceSpace - 1 THEN 0 ELSE n + 1

\* How far nonce b is ahead of nonce a.
Distance(a, b) == IF a <= b THEN b - a ELSE b - a + NonceSpace

TooLow(t) == Distance(eoaNonce, t.nonce) > NonceSpace \div 2

\* A node replaces a pending transaction by one that pays a tenth more.
Replaces(fee, t) == fee * 10 >= t.fee * 11

Acceptable(t) ==
  ~TooLow(t) /\ \A u \in pool : u.nonce = t.nonce => Replaces(t.fee, u)

Accept(t) == pool' = {u \in pool : u.nonce # t.nonce} \cup {t}

\* The Safe checks the signatures against its nonce and takes back the whole
\* call if the redemption in it fails.
Succeeds(t) == t.safe = safeNonce /\ t.cond \in reported

Mine(t) ==
  /\ t \in pool /\ t.nonce = eoaNonce
  /\ pool' = pool \ {t}
  /\ eoaNonce' = NextNonce(eoaNonce)
  /\ safeNonce' = IF Succeeds(t) THEN NextNonce(safeNonce) ELSE safeNonce
  /\ paid' = IF Succeeds(t) THEN paid \cup {t.cond} ELSE paid
  /\ repeats' = IF Succeeds(t) /\ t.cond \in paid THEN repeats + 1 ELSE repeats
  /\ receipt' = IF t \notin sent THEN receipt
                ELSE IF Succeeds(t) THEN "successful" ELSE "failed"
  /\ UNCHANGED <<reported, recorded, pc, todo, cond, signed, attempt, nonce, sent,
                 faults, stops>>

Report(c) ==
  /\ c \notin reported
  /\ reported' = reported \cup {c}
  /\ UNCHANGED <<paid, safeNonce, eoaNonce, pool, repeats, recorded, pc, todo, callVars, faults, stops>>

\* The node forgets a pending transaction.
Drop(t) ==
  /\ Fault
  /\ t \in pool
  /\ pool' = pool \ {t}
  /\ UNCHANGED <<reported, paid, safeNonce, eoaNonce, repeats, recorded, pc, todo, callVars,
                 stops>>

-----------------------------------------------------------------------------
(***************************************************************************)
(* redeemFn.                                                               *)
(***************************************************************************)
\* Variant: the list is of the markets that are over, whatever their status.
RoundStartsAgain ==
  /\ pc = "idle"
  /\ pc' = "next" /\ todo' = Conditions
  /\ UNCHANGED <<chainVars, recorded, callVars, faults, stops>>

RoundStarts ==
  /\ pc = "idle"
  /\ pc' = "next" /\ todo' = Conditions \ recorded
  /\ UNCHANGED <<chainVars, recorded, callVars, faults, stops>>

RoundEnds ==
  /\ pc = "next" /\ todo = {}
  /\ pc' = "idle"
  /\ UNCHANGED <<chainVars, recorded, todo, callVars, faults, stops>>

StartRedeem(c) ==
  /\ pc = "next" /\ c \in todo
  /\ pc' = "sign"
  /\ todo' = todo \ {c} /\ cond' = {c}
  /\ UNCHANGED <<chainVars, recorded, signed, attempt, nonce, sent, receipt, faults, stops>>

EndCall ==
  /\ pc' = "next"
  /\ cond' = {} /\ signed' = 0 /\ attempt' = 0 /\ nonce' = 0
  /\ sent' = {} /\ receipt' = "none"

\* Variant: the error ends the round.
ReturnRound ==
  /\ pc' = "next" /\ todo' = {}
  /\ cond' = {} /\ signed' = 0 /\ attempt' = 0 /\ nonce' = 0
  /\ sent' = {} /\ receipt' = "none"

\* Redeem returned an error: the next market of the list, without a delay.
Continue == EndCall /\ UNCHANGED todo

-----------------------------------------------------------------------------
(***************************************************************************)
(* Client.Redeem.                                                          *)
(***************************************************************************)
\* The nonce of the Safe in the latest block.
GetSafeNonce == signed' = safeNonce

\* The signatures, made once in a call, are for that nonce.
Sign ==
  /\ pc = "sign"
  /\ pc' = "nonce"
  /\ GetSafeNonce
  /\ UNCHANGED <<chainVars, recorded, todo, cond, attempt, nonce, sent, receipt, faults, stops>>

\* Variant: PendingNonceAt counts the pending transactions.
GetPendingNonce ==
  /\ pc = "nonce"
  /\ pc' = "send"
  /\ nonce' = IF pool = {} THEN eoaNonce ELSE NextNonce(eoaNonce)
  /\ UNCHANGED <<chainVars, recorded, todo, cond, signed, attempt, sent, receipt, faults, stops>>

\* NonceAt the latest block.
GetNonce ==
  /\ pc = "nonce"
  /\ pc' = "send"
  /\ nonce' = eoaNonce
  /\ UNCHANGED <<chainVars, recorded, todo, cond, signed, attempt, sent, receipt, faults, stops>>

Boost == IF attempt = 0 THEN 0 ELSE 10 + attempt * 10
Fee(p) == p + (p * Boost) \div 100

Transaction(c, p) == [cond |-> c, safe |-> signed, nonce |-> nonce, fee |-> Fee(p)]

SendAccepted(c, p) ==
  /\ pc = "send" /\ c \in cond /\ Acceptable(Transaction(c, p))
  /\ Accept(Transaction(c, p))
  /\ sent' = {Transaction(c, p)}
  /\ pc' = "receipt"
  /\ UNCHANGED <<reported, paid, safeNonce, eoaNonce, repeats, recorded, todo, cond,
                 signed, attempt, nonce, receipt, faults, stops>>

\* Variant: the first attempt is not counted.
FourAttempts == 4

MaxRetries == 3

\* "nonce too low", "replacement transaction underpriced", "already known": a
\* new attempt, two and then four seconds later, three in all.
SendRejected(c, p) ==
  /\ pc = "send" /\ c \in cond /\ ~Acceptable(Transaction(c, p))
  /\ \/ /\ attempt + 1 < MaxRetries
        /\ attempt' = attempt + 1
        /\ pc' = "nonce"
        /\ UNCHANGED <<todo, cond, signed, nonce, sent, receipt>>
     \/ attempt + 1 >= MaxRetries /\ Continue
  /\ UNCHANGED <<chainVars, recorded, faults, stops>>

\* The node takes the transaction and its answer is lost.
SendLost(c, p) ==
  /\ Fault
  /\ pc = "send" /\ c \in cond /\ Acceptable(Transaction(c, p))
  /\ Accept(Transaction(c, p))
  /\ Continue
  /\ UNCHANGED <<reported, paid, safeNonce, eoaNonce, repeats, recorded, stops>>

\* Variant: the status of the receipt is not looked at.
ReceiptAny ==
  /\ pc = "receipt" /\ receipt # "none"
  /\ pc' = "mark"
  /\ UNCHANGED <<chainVars, recorded, todo, callVars, faults, stops>>

\* waitForTransaction returns a receipt whose status is right.  Its logs then
\* hold the PayoutRedemption event of the condition: the Safe takes back the
\* call of a redemption that fails, and sent is of this condition.
ReceiptSuccessful ==
  /\ pc = "receipt" /\ receipt = "successful"
  /\ pc' = "mark"
  /\ UNCHANGED <<chainVars, recorded, todo, callVars, faults, stops>>

ReceiptFailed ==
  /\ pc = "receipt" /\ receipt = "failed"
  /\ Continue
  /\ UNCHANGED <<chainVars, recorded, faults, stops>>

\* Variant: waitForTransaction gives up on the first NotFound.
GivesUp ==
  /\ pc \in {"sign", "nonce", "send", "receipt"}
  /\ Continue
  /\ UNCHANGED <<chainVars, recorded, faults, stops>>

\* A call to the node fails or the fifteen seconds are over, which they will
\* be if the transaction that was sent is neither pending nor mined.
CallFails ==
  /\ pc \in {"sign", "nonce", "send", "receipt"}
  /\ \/ Fault
     \/ pc = "receipt" /\ receipt = "none" /\ sent \cap pool = {} /\ UNCHANGED faults
  /\ Continue
  /\ UNCHANGED <<chainVars, recorded, stops>>

\* UpdateMarketStatus; a failing transaction may have been committed.
Mark ==
  /\ pc = "mark"
  /\ \/ recorded' = recorded \cup cond /\ UNCHANGED faults
     \/ Fault /\ (UNCHANGED recorded \/ recorded' = recorded \cup cond)
  /\ Continue
  /\ UNCHANGED <<chainVars, stops>>

Redeem ==
  \/ Sign \/ GetNonce \/ ReceiptSuccessful \/ ReceiptFailed \/ CallFails \/ Mark
  \/ \E c \in Conditions, p \in Prices :
       SendAccepted(c, p) \/ SendRejected(c, p) \/ SendLost(c, p)

RedeemWorker == RoundStarts \/ RoundEnds \/ (\E c \in Conditions : StartRedeem(c)) \/ Redeem

\* The process dies, or the context is cancelled, and it is started again.
Stop ==
  /\ stops < MaxStops
  /\ stops' = stops + 1
  /\ pc' = "idle" /\ todo' = {}
  /\ cond' = {} /\ signed' = 0 /\ attempt' = 0 /\ nonce' = 0
  /\ sent' = {} /\ receipt' = "none"
  /\ UNCHANGED <<chainVars, recorded, faults>>

MineSome == \E t \in pool : Mine(t)

Next ==
  \/ RedeemWorker \/ Stop \/ MineSome
  \/ \E t \in pool : Drop(t)
  \/ \E c \in Conditions : Report(c)

Spec == Init /\ [][Next]_vars

\* The worker runs, transactions are mined and results are reported.
FairSpec ==
  /\ Spec
  /\ WF_vars(RedeemWorker) /\ WF_vars(MineSome)
  /\ \A c \in Conditions \ Unreported : WF_vars(Report(c))

-----------------------------------------------------------------------------
(***************************************************************************)
(* Properties.                                                             *)
(***************************************************************************)
\* A market is recorded as redeemed only if its own condition was redeemed,
\* whichever transactions of earlier calls were replaced, mined late or
\* reverted in between (redeem.go:58-70, engine.go:171-178).
RecordedMeansPaid == recorded \subseteq paid

\* Redemptions never queue behind each other: at most one transaction of the
\* relayer is pending and it is the next to be mined, because every attempt
\* takes the nonce of the latest block (blockchain.go:173).
OnePending ==
  /\ \A t \in pool : t.nonce = eoaNonce
  /\ Cardinality(pool) <= 1

\* As long as no call failed and no process stopped, redemptions do not
\* collide: no attempt is rejected and no transaction is pending that carries
\* a Safe nonce already used (engine.go:185, blockchain.go:22-50, :240-262).
UndisturbedNeverCollides ==
  faults = 0 /\ stops = 0 => attempt = 0 /\ \A t \in pool : t.safe = safeNonce

\* Every market whose result is reported is recorded as redeemed in the end:
\* collisions, stale signatures, replaced and dropped transactions cost an
\* attempt, never the market, and a market without a result does not keep
\* the others waiting (engine.go:161-187).
ReportedMarketsRedeem == \A c \in Conditions \ Unreported : <>(c \in recorded)

\* A redemption that is repeated, at the cost of its gas, is owed to a crash or
\* a failed call of its own: each may cost one, and replacements, stale
\* signatures, rejected attempts and transactions that are mined late, when the
\* next round has taken up their market again, cost none (engine.go:156-187,
\* blockchain.go:163-262).
RepeatsAreOwed == repeats <= faults + stops

\* "Boost gas prices on retries to ensure transaction replacement"
\* (blockchain.go:188): a retry pays enough to replace what is pending.
RetriesReplace ==
  pc = "send" /\ attempt > 0 => \A p \in Prices, t \in pool : Replaces(Fee(p), t)
=============================================================================
