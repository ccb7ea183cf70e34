# A formal model of polymarket-go-bot

This directory holds TLA+ models of the bot, TLC configurations that check them
on small instances, and proofs, checked by TLAPS, of the results that matter for
every size. Paths below are relative to the repository (`src/`).

## 1. The system

The bot trades short binary markets ("Up"/"Down") on an exchange. One process
holds, besides the main goroutine:

| Part | State | Operations | Interaction |
|---|---|---|---|
| Engine loop (`engine.go:59-125`) | `marketWorkers`, `wgMarket`, lists local to a round | every `update_interval`: read the saved markets, fetch the listing, insert new ones, start a worker for each that has none | database, exchange, starts goroutines under `e.mutex` |
| Market worker (`worker.go`) | quotes, position in memory, `closed`, `lastDecision` | load its row, wait for the opening, write "active", tick until the end, write "resolved" | database, exchange; its goroutine reruns `Run` on errors |
| Strategy (`strategy.go`) | none | fair price, tilts, thresholds, limit price, risk | called by the worker |
| Redeem worker (`engine.go:149-201`) | list of a round | every minute: redeem each resolved market whose window is open, write "redeemed" | database, chain |
| Exchange client (`client.go`, `auth.go`) | credentials | list, price, place an order | HTTP |
| Redemption (`redeem.go`, `blockchain.go`) | none of its own | sign for the Safe's nonce, send with up to three attempts, wait for the receipt | node, Safe, oracle |
| Markets table (`postgres/market.go`) | one row per market with a status | insert, update status, three queries | shared by loop, workers, redeem worker; outlives the process |
| Orders (`order.go`) | one row per order | insert | written by the worker, read by nothing; the statistics have no caller |
| Migrations, health check (`postgres.go`) | the schema | run what is missing, ping | at the start; the ping only logs |
| API credentials (`client.go:49-164`) | a key at the exchange, a copy in the client | derive, else create | at the start, over HTTP |
| Main (`main.go`) | the context | configuration, announcement, database, client, engine; on a signal: announce, cancel, `Engine.Stop`, return | the container restarts the process |
| Notifications (`notify/telegram`) | `lastSent` | every log line passes a throttled writer, which sends in a goroutine of its own | called by every goroutine, without a lock |
| Configuration (`config.go`) | constants of the process | load, `IsAllowedUnderlying` | may change between two processes |
| Signatures (`auth.go`), balance tracker (`balance.go`) | see section 8 | | |

What is hard here: the loop, the workers, the redeem worker and main run
concurrently and share only the table, one map, a wait group and a context;
errors of status writes are ignored; `Stop` waits for the workers and for nothing
else; positions live in memory while the money lives at the exchange; a
redemption crosses two nonces, a pool of pending transactions and a timeout, and
each round may stumble over what an earlier one left behind; calls of the exchange
have no timeout; a start that fails half way leaves a schema or a key behind; the
configuration a market was stored under need not be the one it is traded under.

What makes each part correct:

* **Life cycle.** A status column that readers may trust; no worker for a market
  that is over; a wait group that agrees with the goroutines; a shutdown that
  ends; no stored market forgotten.
* **Trading.** The risk limit, in the worker's book and for real; a limit price
  inside the spread; no panic in the sizing; the side the signal calls for.
* **Redemption.** Nothing recorded that was not paid; no self-inflicted
  collisions; every reported market redeemed in the end.
* **Discovery.** A worker only for a stored, tradable, allowed market; a row
  written once; a worker in the end for every stored market.
* **Start and notifications.** The engine only on a finished start; a start that
  succeeds in the end; bounded bursts without a lock; silence after a shutdown.

## 2. The modules

| Module | Stands for | Extends |
|---|---|---|
| `MarketRecord` | abstract: what a reader of the status column may rely on | |
| `RiskLedger` | abstract: what the trading of a market promises about orders, book and limit | `Strategy` |
| `MarketLifecycle` | engine loop, workers around their ticks, redeem worker, table, main, crash and restart | |
| `Strategy` | `strategy.go` and the sizing of `worker.go`, as operators in fixed point | |
| `StrategyCheck` | the functions of `Strategy` over bounded arguments | `Strategy` |
| `Trading` | the ticks and orders of one worker, the exchange's fills, crash and restart | `Strategy` |
| `Redemption` | the redeem worker's calls with the relayer account, the pool and the Safe | |
| `Discovery` | listing, filter, inserts and the start list, with end dates and changing configurations | |
| `Startup` | main from the configuration to the signal: migrations and credentials | |
| `Notifications` | the writer, its goroutines and contexts, beside the steps of main | `Startup` |
| `MC...` | the instances TLC checks | the module of that name |
| `..._proofs` | theorems and lemmas | the module of that name |

Operators whose comment begins with "Variant" are not part of the models: each is a
definition with a plausible bug in it. Put in the place of the definition that
follows it, it breaks the property `PROJECT.json` names under "mutants".

### MarketLifecycle

Every goroutine has a program counter (`loopPC`, `worker[m]`, `redeemPC`,
`mainPC`); one step is what it does between two calls that leave the process or
two synchronisation operations. A call that reads is the step that uses its
result; a call that writes is one step that succeeds or fails, and a failing
transaction may have been committed (`UpdateMarketStatusFails`), because
`TxWrap` reports a lost acknowledgement of a commit as an error.

* `processMarkets` becomes `LoopTick` (read the saved list), `LoopFetched` or
  `LoopFetchFails`, one `LoopInsert`/`LoopInsertFails` per new market, `LoopLock`,
  one `StartWorker` per market without an entry, `LoopUnlock`. The failed insert
  ends the round as the `return` of `engine.go:99` does. The order of inserts and
  starts is left open; no property depends on it.
* `Run`, `tradingLoop` and `processTick` become the program counters load, sleep,
  wait, activate, tick, order, resolve and select. `SelectTick` may be taken
  though the worker is closed or cancelled: Go's `select` picks any ready case.
  After a tick that decides nothing the worker is back in its select.
* The clock is `phase[m]`: before the opening, open, past the end, past the
  redemption window. `Relistable` markets are those whose end date the exchange
  moves; they may be listed although the stored date has passed.
* A call over HTTP may hang (`LoopHangs`, `CallHangs`): the goroutine is "stuck"
  from then on. Hanging calls are counted faults.
* Main cancels the root context before `Stop` calls the cancel functions of the
  map, so one flag stands for both. `Stop`'s read lock is the guard
  `loopPC # "start"`.
* `Exit`, `Crash` and `Restart` empty what lives in memory and keep the table and
  the chain.

The refinement maps the status column as it is, `ended` to the phase and `paid`
to the redemption mined on the chain. `MarketRecord` admits one step back,
"redeemed" to "resolved": a tick that the worker's `select` takes after it was
closed may come after the redemption. `Truthful` and `Lasting` state what a reader of
the column may conclude from it, whoever implements the record.

### Strategy, StrategyCheck, Trading

Numbers are integers: a price, tilt or coefficient `x` is `x * Unit`, a cost is
scaled by `Unit * Unit` and so exact. Quantity times average price is kept as the
cost of a side; the code's division for the average and multiplication back
cancel. Quotients round down to the grid of `Unit` where the code keeps sixteen
digits; the product that moves the limit price away from the bid rounds up, so
that the model does not produce a zero price the code would not have. `x ^ alpha`
is the constant `PowAlpha`, assumed monotone from the scaled unit interval into
itself, which holds for every `alpha` that is not negative.

A tick is one step from the quotes to the decision (`TickNoTrade`, `TickTrade`,
`TickPanics`), because nothing else touches the worker's state in between; the
order is in flight afterwards (`pc = "placing"`), and the process may die there.
`OrderFilled` books what was asked for, as `worker.go:227-246` does, whatever the
exchange matched. `OrderReplyLost` is an order that was matched and whose reply
did not arrive. `InsertOrder` stores the row of a filled order if its columns take
what `PlaceOrder` left in it; `recorded` is what the rows add up to. `real` is the
exchange's position and `forgotten` what processes
that are gone had bought. The sizing loop is stated by the round it stops in
(`StopsAt`); `StrategyCheck` compares that with the loop as written. `Settle` and
`Elapse` are the debounce time and the clock. `largest`, `forgotten` and `drifted`
(was an order matched in part, or its reply lost?) are history, read by properties
only.

`RiskLedger` is the promise without quotes, signals and clocks: one order on offer at
most, which the book as it is then allows for; matched and booked once at most, the
booking as it was sent; nothing else moves the book but a process that forgets it.
The refinement maps `pos` to the book, the order in flight to the offer and `real` to
what is held. A lost reply is an offer that was matched and failed, a crash between
order and answer is a `Forget` that may match.

### Redemption

`Sign` reads the Safe's nonce once in a call; `GetNonce` the relayer's, in every
attempt; the signatures of all attempts are for the first. The node (external)
refuses a nonce that is too low and a replacement that pays less than a tenth
more. The Safe (external) takes back the whole call when its nonce has moved or
when the condition has no result. `Report` is the oracle, which need not report
the conditions in `Unreported`. The window of redemption belongs to
`MarketLifecycle`: here every market is due. Pauses between attempts and
redemptions are not modelled: any step of the chain may come at any time, which
includes all of them. `CallFails` covers each call to the node and the fifteen
seconds; a timeout is a fault, bounded by `MaxFaults`, unless what was sent has
vanished from the pool, when it is bound to come. Nonces are modulo `NonceSpace`.
A receipt that says "successful" is of a call whose logs hold the
`PayoutRedemption` event of the condition asked for, so the error path for a missing
event (`blockchain.go:321`) is not taken. `repeats` counts the redemptions mined of
conditions that were paid before; it is history.

### Discovery

`MarketLifecycle` lets any market be listed and follows the goroutines;
`Discovery` follows the data of a round. `LoopTick` reads the planned rows, a
`LoopFetched` takes any part of the catalogue through `GetMarkets` (two outcomes
and two tokens), `extractUnderlying` and `filterMarkets`, the inserts run one by
one, and a refused one (`InsertRefused`: the key exists, or the transaction fails
with or without effect) ends the round before `StartWorkers`. `left` is the time
to the end date the exchange shows, `kept` to the one in the row, which nothing
updates; `Postpone` lets them part. `Restart` picks another configuration.
`storedUnder` is history. A row that is planned or active counts as planned.

### Startup and Notifications

`Startup` is the program counter of main with what outlives a failed start: the
schema in the database and the key at the exchange. `DeriveFails` is any error of
the first call, and leads to the second; `CreateCreds` may receive a reply without
fields, which passes; `StartFails` is every exit before the engine, with or without
the effect of the call that failed; `StartHangs` a call without a timeout.

`Notifications` adds the writer. `Check` and `Stamp` are apart, for there is no
lock; a `Write` that the level or the throttle ends changes nothing and is no step.
`Return` runs the deferred `cancel`. `Begin`, `Answer` and `Abandon` are the
goroutine's request, which does not begin under a context that is done. `window`
counts the messages of each goroutine while `lastSent` is fresh; it is history.

## 3. The runs

Every run ends within three minutes.

| Run | Question | Instance | Result |
|---|---|---|---|
| `lifecycle_safety` | does the table tell the truth, whatever is interleaved? | 2 markets, both may be listed again, 1 failing or hanging call, 2 stops; 2.0 million states | holds |
| `lifecycle_live` | do shutdowns end, are markets resolved and redeemed? | 1 market, 2 failing or hanging calls, 2 stops; 49 000 states | holds |
| `lifecycle_stop` | is "all markets closed" true when `Stop` says so? | 1 market, 1 stop | violated |
| `trading_full` | are limit and prices kept, whatever happens to the orders? can the sizing panic? | 3 orders, 4 kinds of quotes, partial fills, lost replies, 1 restart; 570 000 states | holds |
| `trading_restart` | is the limit kept across a restart? | 4 orders, 1 restart | violated |
| `trading_signal` | does the worker buy what the allocation by cost calls for? | 5 orders | violated |
| `trading_persist` | is an order that was booked found in the table? | 2 orders, no fault | violated |
| `strategy_functions` | do the functions keep their bounds, is the sizing loop what the model says? | a grid of prices and signals, 3 positions, 9 points in time; 36 000 states | holds |
| `redemption_full` | do redemptions collide, do they end, what makes one happen twice? | 2 conditions, 1 perhaps never reported, 2 prices, 2 faults, 1 stop, nonces modulo 4; 113 000 states | holds |
| `redemption_boost` | does a retry replace what is pending? | 2 conditions, steady price | violated |
| `discovery` | who gets a row and a worker, and does every stored market get one? | 3 markets, 2 configurations, 2 faults, 2 restarts; 255 000 states | holds |
| `notifications` | what does a start leave behind, and what do unlocked writers send? | 2 loggers, 3 senders, 2 faults; 93 000 states | holds |

### Properties that hold

* `RecordSpec`: the status column moves planned, active, resolved, redeemed, each
  for its reason, with the one step back named above.
* `WorkersServeOpenRecords`: no worker is started for, activates or trades a
  market whose end was recorded, although the list it starts from is old.
* `WaitGroupCountsWorkers`, `RedeemedMeansPaid`, `RedemptionsAreDue`.
* `ShutdownCompletes`, with its exception: a shutdown waits for ever for a worker
  whose call hangs, and for no other.
* `ResolvedMarketsRedeem`, and `StoredMarketsResolve` with its exceptions: if the
  one write of "resolved" fails, or a call of the worker or of the loop hangs, the
  market waits for a restart, because the map keeps its entry for ever.
* `OnlyFaultsStrand`: a stored market whose entry stays while its worker is closed or
  has returned came to that in the very step in which a call failed, and in no other:
  no order of fetches, inserts, starts, ticks and shutdowns leaves one behind. With
  the calls that hang, which keep a goroutine and not just its entry, it is the
  safety half of `StoredMarketsResolve`.
* `LedgerSpec`: the worker implements `RiskLedger`, partial fills, lost replies and
  crashes with an order under way included.
* `BelievedRiskBounded`: over any sequence of orders and faults the worker's own
  risk is below the limit plus the rounding of the last order.
* `RealRiskPerProcess`: while no order is matched in part and no reply is lost,
  each process adds at most one limit to the real risk.
* `PriceNearSpread`: an order in flight is priced within half a cent of the spread
  it was made from. Rounding may take it outside, by no more than that. Coefficients
  are at most one.
* `PanicNeedsEmptyBook`: only a side without any quote brings the price to zero, with
  a positive `k_min` and an `e_max` in (0, 1].
* `SignalsInBounds`, `PriceFromBidToAsk`, `SizingEndsAsTheLoop`.
* `FavouredSignalStays`: the target moves with the clock alone, the allocation does
  not. A signal to buy the side that prices favour stays above the threshold and on
  its side while neither prices nor position move; one for the other side may fade
  or turn.
* `RecordedMeansPaid`, `OnePending`, `UndisturbedNeverCollides`,
  `ReportedMarketsRedeem`.
* `RepeatsAreOwed`: a condition that was paid is redeemed again, at the cost of gas
  alone, at most once for each fault (a failed call, a timeout) and each stop. Attempts that are rejected
  or reverted and transactions that are mined late do not add to it. The bound is
  reached in the run.
* `WorkersHaveRows`: although a market joins the start list before it is inserted.
* `WorkersWereAllowed`: a worker serves a market that was allowed when it was
  stored; the stored ones are not filtered again, so it need not be allowed now.
* `SavedMarketsStart`: failed listings and refused rows delay a stored market, the
  latter until the end date the exchange moved is near, but do not keep it waiting.
* `EngineStartsReady` (the alternative with empty credentials is real: a reply to
  the creation of a key is not checked) and `StartsInTheEnd`.
* `BurstBounded`: one message per goroutine and window, lock or no lock.
* `ShutdownSilences`. The delivery of log messages is not claimed: the deferred
  `cancel` of `Write` ends the request of a goroutine that was not scheduled, or not
  answered, before `Write` returned (`writer.go:53-59`).

### Where code and documentation differ

Each is a run that TLC must find violated.

* `AllMarketsClosed`: `Stop` returns and logs "all markets closed, shutdown"
  (`engine.go:56`); the loop goroutine, in the middle of a round, starts a worker.
  The harm is small, for the process is about to end: the worker may write
  "active" or place an order in that time.
* `RealRiskWithinLimit`: `risk_limit` is per market (`README.md:26`); a restart
  starts the count again.
* `OrdersPersisted`: `worker.go:221` says "Persist order"; `InsertOrder` hands an
  empty text to the numeric column `matched_size`, the row is refused, the error
  logged. No order is ever stored.
* `SideByDollarCost`: `README.md:21` measures the allocation by dollar cost; the
  worker passes mid prices, so it is measured by market value.
* `RetriesReplace`: `blockchain.go:188` boosts retries to ensure replacement;
  relative to the suggestion and not to the pending transaction, the boost of the
  first retry falls short when what is pending was itself boosted.

### Bounds

`MaxFaults`, `MaxStops`, `MaxOrders` and `MaxRestarts` bound failures and steps
that could go on for ever. Two markets are enough for one to interfere with the
other through a shared list, the wait group and the redeem worker; one fault and
two stops give a lost write before or after a crash and a crash during a shutdown.
Three orders reach the limit of risk with the example configuration (limit 15,
step 10), on either side of a restart. The quotes are an even market, a leaning
one, one without a spread and one whose losing side nobody buys. Two conditions
let one redemption leave a transaction behind for another; two faults let it be
left behind and then dropped or its retry fail; four nonces let them wrap around,
while "too low" still means something. In `discovery` a market to store, one that
blocks the round and one that must be skipped are three; an end date of three days
lies beyond the two of the minimum; two restarts let the configuration change and
change back. In `notifications` two loggers race for the throttle, three senders
let a third message be sent while two are under way, and two faults are a failed
derivation and a lost reply of the creation. The proofs of section 5 have none of
these bounds.

Deadlock is checked in `lifecycle_stop`, `discovery`, `notifications` and the
redemption runs, which go on for ever. The other life cycle runs really may stop:
a worker whose call hangs holds the shutdown, and with it the process. In the
trading and strategy runs the clock ends.

## 4. Fairness

`FairSpec` of `MarketLifecycle` assumes weak fairness of the loop, of the redeem
worker, of each worker and of main's steps after a signal: goroutines are
scheduled and the calls they make return, except those that hang, which are counted
faults: the HTTP client has no timeout. Time passes and a transaction that was sent is
mined. `Restart` is fair because `docker-compose.yml:30` says
`restart: unless-stopped`. `SelectClosed` is strongly fair: Go's `select` chooses
uniformly among ready cases, so a worker that can leave its loop again and again
leaves it. Nothing makes signals, crashes or failures happen.

`FairSpec` of `Redemption` assumes the worker runs, pending transactions are
mined and results are reported, except those of `Unreported`.

`FairSpec` of `Discovery` assumes that the loop runs and that time passes, to both
end dates of each market; nothing makes the exchange list a market or keep its
dates. `FairSpec` of `Notifications` assumes that main runs, its calls return but for
those that hang, the container restarts (`docker-compose.yml:30`), and that a
sender gives up (`Abandon`): five seconds of its context (`writer.go:53`), ten of the
client (`telegram.go:44`). Nothing is expected of Telegram, and no signal.

## 5. What is proved

All for every value of the constants that satisfies the named assumptions
(`LifecycleAssumption`, `StrategyAssumption`, `TradingAssumption`,
`StepsAssumption`, `RedemptionAssumption`, `DiscoveryAssumption`,
`StartupAssumption`): finite sets of markets and conditions, parameters of the
strategy in their order.

* `MarketLifecycle_proofs`: `TypeCorrect`, `OpenRecords`, `WaitGroupExact`,
  `RedeemedPaid`, `RedemptionsDue`, `FaultsStrand`, `WaitMeansDone`, and
  `ImplementsRecord`, the refinement of `MarketRecord`. One invariant carries them. Besides the properties it says that
  what the loop has in hand and not yet a worker for is still planned or active
  (`StartableIsOpen`), that a resolved row implies the market's end
  (`RecordsAreHonest`), and which market the redeem worker holds (`RedeemInHand`).
  The first is what makes the stale list harmless: a market on it can be resolved
  only by a worker, and then `marketWorkers` has it. The refinement adds the step
  simulation, one step per action. `FaultsStrand` adds that an entry of
  `marketWorkers` has a row, that only a worker that was started is closed, and that
  no entry outlives the process (`EntriesInv`). `WaitMeansDone` is what is true of
  "all markets closed": no worker is live when `Wait` returns, though one may be
  again when it is said.
* `MarketRecord_proofs`: `RowsTellTheTruth` and `RowsLast`, of the abstract record
  alone. Its invariant is their own conjunction with the types. Through
  `ImplementsRecord` they become `RowsAreTrue` and `RowsAreLasting` of the life
  cycle: the record of that module is an instance of the one they are proved of.
* `Redemption_proofs`: `TypeCorrect`, `RecordedPaid`, `NeverQueued`,
  `CalmNeverCollides`, `RepeatsOwed`. The invariant: a pending transaction has the nonce of the
  latest block (`PoolInv`); the nonce in hand is that or the one before it, with
  an empty pool (`NonceInv`), so what is sent replaces or is too low; what a call
  sent redeems its condition and its receipt is final (`CallInv`); undisturbed,
  the pool holds at most the transaction of this call (`CalmInv`); what is left of
  the round and the market in hand are not recorded yet (`TodoInv`). For `RepeatsOwed`
  the books are kept in `OwedInv`: what was repeated, the paid conditions that no call
  is about to record, and a pending transaction that no call waits for, together never
  exceed the failed calls and stops; a failed call or a stop leaves one of the last two
  behind, never both, and a repetition uses one up. `RetriesReplaceUnboosted` is
  what is true of the boost: a retry replaces what was sent for no more than the
  price suggested now, if that is at least five units (wei).
* `Strategy_proofs`: lemmas about the operators (bounds and monotonicity of the
  coefficient, threshold, tilt and price; exactness of the simulated risk; what
  rounding may add to a cost and a risk).
* `StrategyCheck_proofs`: `SignalBounds`, `PriceInSpread`, for every grid and time,
  `FavouredSignalsStay`, from the monotone coefficient and threshold and the target
  that moves away from a half (`TargetMoves`), and `SizingAsTheLoop`. The loop is a recursive function,
  defined by CHOOSE, so it must be shown to exist before it can be unrolled. Every
  nonempty set of naturals has a least element (`Least`, from the well-foundedness
  of their order); so there is a first round in which the size fits or is below the
  minimum (`LastRound`), and the size of that round, as a function of the first size,
  satisfies the equation of the loop (`LoopExists`). Any function that does ends with
  this size (`SizingLoopEnds`), because `LastRound` falls by one from a round to the
  next (`LastRoundStep`), and it is the round of `StopsAt` (`LoopStops`).
* `Discovery_proofs`: `TypeCorrect`, `RowsFirst`, `AllowedWhenStored`, and the
  refinement `ImplementsRecord`. The invariant: what is saved, to be started or
  started has a row; what is to be inserted passed the filter of this process; every
  row passed the filter of the process it is from. It needs the lemma that the
  underlying of a market is one its slug names, or BTC.
* `Notifications_proofs`: `TypeCorrect`, `StartsReady`, `BurstOfOneEach`,
  `RequestsBounded`. The invariant adds that the schema is there once the client is
  made (`SchemaInv`), and that a logger that passed the throttle has sent nothing in
  this window (`WindowInv`), however long it waits with its stale check. `RequestsBounded`
  follows from `MessageInv`, for finitely many goroutines that log: each request that
  may still be sent has the Write of a logger to itself.
* `Trading_proofs`: `TypeCorrect`; `BelievedRisk`, by the invariant that an order
  in flight, at its exact size and price, leaves the risk below the limit
  (`OrderApproved`), and the lemma on rounding; `RealRisk`, by the invariant that
  the exchange holds what forgotten processes bought and what this one believes
  in as long as nothing drifted, and that two positions together never risk more
  than each on its own; `PriceStaysNear`, under coefficients of at most one;
  `PanicOnEmptyBook`, under a positive `k_min` and an `e_max` of at most one,
  neither of which the configuration enforces; `ImplementsLedger`, where every step
  of the worker is one of `RiskLedger` or leaves it alone, an approved order by
  `OrderApproved`. `OneProcessWithinLimit` is what is true of `risk_limit` per market:
  it holds until the first restart. `NothingRecorded` says how far "Persist order" is
  from true: the table stays empty, whatever is traded.

Only model-checked: the liveness properties (`ShutdownCompletes`,
`StoredMarketsResolve`, `ResolvedMarketsRedeem`, `ReportedMarketsRedeem`,
`SavedMarketsStart`, `StartsInTheEnd`, `ShutdownSilences`), for TLAPS proves nothing
about ENABLED and fairness here. Every invariant, action property and refinement
that a passing run checks has its theorem. The theorems that no run states are what
remains of a statement a run refutes, or consequences of one a run checks.

## 6. Hazards

`PROJECT.json` lists every hazard at its line with the properties about it. Four
have none:

* Intervals of zero in the configuration make `NewTicker` panic (`engine.go:60`); the
  models leave durations to fairness, and what is missing is one comparison in
  `validate`.
* An entry of the listing that cannot be decoded loses the whole listing
  (`client.go:210`). `Discovery` counts a failed listing as a fault; while the entry
  stays, every round fails.
* The fields of a created key are not checked (`client.go:163`). `EngineStartsReady`
  admits the empty credentials, as the code does.
* The deferred `cancel` may end a message before it is sent (`writer.go:54`). Nothing
  promises that it arrives.

Partial fills and lost replies make the real position
differ from the book without a bound, because nothing in the code reconciles the
two; `BelievedRiskBounded` holds under them, for the book, and `RealRiskPerProcess`
says what holds until the first of them.

## 7. Limits of the models

* Fixed point instead of sixteen digits (section 2); the runs use three digits
  and `alpha = 2`.
* `Trading` follows one market. Workers share nothing but the exchange, and
  markets have separate books.
* In `MarketLifecycle` a redemption fails for a counted fault or for the
  shutdown; the ways it fails are those of `Redemption`.
* Calls to the database and to the node do not hang in the models; those to the node end
  with the fifteen seconds of their redemption. The redeem worker therefore never waits for ever, and
  `ResolvedMarketsRedeem` says nothing of a hang there.
* `StrategyCheck` lets the clock run before the opening and after the end, which the
  functions guard against and `worker.go` does not reach: a worker waits for the
  opening, and after the end it only records it.
* The strategy's bounds are assumed to be in order (`StrategyAssumption`), and
  `PriceFromBidToAsk`, `PriceNearSpread` and `PanicNeedsEmptyBook` rest on the ranges
  of the coefficients named with them. `validate` does not enforce these.
* A redemption of a market without a balance succeeds with a payout of zero, as
  the conditional-tokens contract does; that contract is outside `src/`.
* In `Discovery` each market has its own clock, so any order of end dates occurs.
  A date is moved only once a market is stored: before that, a later date is just
  another initial one. The listing is any part of the catalogue, not the 36 events
  of a page.
* `lastSent` is written without a lock. It is three words, of which the monotonic
  reading decides, and a torn read gives an old or a fresh value, as the separate
  steps `Check` and `Stamp` do.
* `Notifications` bounds the senders at one time (`Senders`): `Stamp` waits for a
  free one. `window` counts to two, which is enough to break `BurstBounded`.

## 8. Not modelled, and what is left

* Signatures (`auth.go`) and the encoding of orders: functions of their arguments,
  a matter of bytes and keys.
* The balance tracker (`balance.go`): nothing in the program constructs it.
* `GetOrder`, `GetOrdersByCondition`, the statistics, `WriteLevel`, `SendError`,
  `SendWarning`, `SendSuccess`: without callers.
* The mock mode of orders, and the checks of `validate`, each a comparison.

Built so far, in this order: `MarketLifecycle` with `MarketRecord`, `Strategy`
and `Trading`, `Redemption` and their proofs; then hanging calls, the order table,
`Discovery`, `Startup` and
`Notifications` with their proofs; then `RiskLedger`, the proof of the sizing loop,
the theorems of `MarketRecord` and what is true of the statements that section 3
refutes. What is left:

1. A composition of the life cycle with `Trading`: orders of a market that ends
   while its tick is under way, and what a restart in the middle does to both.
2. Two markets in `lifecycle_live`, once its state space allows it.
3. A proof that the start list of `Discovery` refines the one `MarketLifecycle`
   chooses freely.
