--------------------------- MODULE MarketLifecycle ---------------------------
(***************************************************************************)
(* The control structure of the bot: the engine loop that discovers        *)
(* markets and starts one worker per market, the workers, the redeem       *)
(* worker, the markets table they share, and the main goroutine that stops *)
(* them (internal/engine/engine.go, internal/engine/worker.go,             *)
(* internal/storage/postgres/market.go, cmd/bot/main.go).                  *)
(*                                                                         *)
(* Every goroutine has a program counter; a step is what the goroutine     *)
(* does between two calls that leave the process (database, HTTP, chain)   *)
(* or two synchronisation operations.  What the worker does with prices    *)
(* between "tick" and "order" is the subject of module Trading, what       *)
(* client.Redeem does on the chain the subject of module Redemption.       *)
(***************************************************************************)
EXTENDS Integers, FiniteSets

CONSTANTS
  Markets,      \* the markets the exchange ever lists
  Relistable,   \* markets whose end date the exchange may postpone
  MaxFaults,    \* bound: failing database, HTTP and chain calls
  MaxStops      \* bound: crashes and shutdown signals

ASSUME LifecycleAssumption ==
  /\ IsFiniteSet(Markets)
  /\ Relistable \subseteq Markets
  /\ MaxFaults \in Nat
  /\ MaxStops \in Nat

VARIABLES
  phase,          \* the time of each market, relative to its stored dates
  status,         \* markets.status, "none" while there is no row
  paid,           \* has a redemption of the market been mined?
  tx,             \* the last redemption transaction sent for the market
  loopPC,         \* Engine.loop
  saved,          \* savedMarkets of processMarkets
  toInsert,       \* what is left of filteredMarkets
  toStart,        \* marketIDToStart
  marketWorkers,  \* keys of Engine.marketWorkers
  worker,         \* the goroutine of each market
  closed,         \* is marketWorker.closed closed?
  wgMarket,       \* the counter of Engine.wgMarket
  redeemPC,       \* Engine.startRedeemWorker
  toRedeem,       \* what is left of resolvedMarkets
  redeeming,      \* the markets in the body of its loop: one or none
  mainPC,         \* the main goroutine, and whether the process exists
  faults,         \* failed calls so far
  stops           \* crashes and signals so far

worldVars  == <<phase, paid, tx>>
loopVars   == <<loopPC, saved, toInsert, toStart>>
workerVars == <<marketWorkers, worker, closed, wgMarket>>
redeemVars == <<redeemPC, toRedeem, redeeming>>
bounds     == <<faults, stops>>
vars == <<worldVars, status, loopVars, workerVars, redeemVars, mainPC, bounds>>

Phases   == {"upcoming", "open", "expired", "redeemable"}
Statuses == {"none", "planned", "active", "resolved", "redeemed"}

\* A goroutine of a market that has been started and has not returned.
LivePCs == {"load", "sleep", "wait", "activate", "tick", "order", "stuck", "resolve", "select"}
Live(m) == worker[m] \in LivePCs

Up == mainPC \in {"running", "cancelled", "waiting", "closed"}

\* ctx of main.go, parent of every mCtx: main cancels it before Stop cancels
\* the markets' own contexts, so ctx.Done() and mCtx.Done() are one fact.
Cancelled == mainPC # "running"

PlannedOrActive(m) == status[m] \in {"planned", "active"}

TypeOK ==
  /\ phase \in [Markets -> Phases]
  /\ status \in [Markets -> Statuses]
  /\ paid \in [Markets -> BOOLEAN]
  /\ tx \in [Markets -> {"none", "pending", "mined"}]
  /\ loopPC \in {"idle", "fetch", "stuck", "insert", "start", "done"}
  /\ saved \in SUBSET Markets
  /\ toInsert \in SUBSET Markets
  /\ toStart \in SUBSET Markets
  /\ marketWorkers \in SUBSET Markets
  /\ worker \in [Markets -> LivePCs \cup {"none", "done"}]
  /\ closed \in [Markets -> BOOLEAN]
  /\ wgMarket \in Nat
  /\ redeemPC \in {"idle", "next", "send", "wait", "mark", "done"}
  /\ toRedeem \in SUBSET Markets
  /\ redeeming \in SUBSET Markets
  /\ mainPC \in {"running", "cancelled", "waiting", "closed", "exited"}
  /\ faults \in 0 .. MaxFaults
  /\ stops \in 0 .. MaxStops

VolatileInit ==
  /\ loopPC = "idle" /\ saved = {} /\ toInsert = {} /\ toStart = {}
  /\ marketWorkers = {} /\ worker = [m \in Markets |-> "none"]
  /\ closed = [m \in Markets |-> FALSE] /\ wgMarket = 0
  /\ redeemPC = "idle" /\ toRedeem = {} /\ redeeming = {}

Init ==
  /\ phase \in [Markets -> {"upcoming", "open"}]
  /\ status = [m \in Markets |-> "none"]
  /\ paid = [m \in Markets |-> FALSE]
  /\ tx = [m \in Markets |-> "none"]
  /\ VolatileInit
  /\ mainPC = "running"
  /\ faults = 0 /\ stops = 0

Fault == faults < MaxFaults /\ faults' = faults + 1

-----------------------------------------------------------------------------
(***************************************************************************)
(* Time and the chain.                                                     *)
(***************************************************************************)
TimePasses(m) ==
  /\ phase[m] # "redeemable"
  /\ phase' = [phase EXCEPT ![m] = CASE phase[m] = "upcoming" -> "open"
                                     [] phase[m] = "open"     -> "expired"
                                     [] OTHER                 -> "redeemable"]
  /\ UNCHANGED <<status, paid, tx, loopVars, workerVars, redeemVars, mainPC, bounds>>

\* A redemption is mined, possibly long after the call that sent it gave up
\* or the process died.
Mine(m) ==
  /\ tx[m] = "pending"
  /\ tx' = [tx EXCEPT ![m] = "mined"]
  /\ paid' = [paid EXCEPT ![m] = TRUE]
  /\ UNCHANGED <<phase, status, loopVars, workerVars, redeemVars, mainPC, bounds>>

-----------------------------------------------------------------------------
(***************************************************************************)
(* The markets table.                                                      *)
(***************************************************************************)
\* Variant: the restart query forgets the active markets.
GetPlannedMarkets == {m \in Markets : status[m] = "planned"}

GetPlannedAndActiveMarkets == {m \in Markets : PlannedOrActive(m)}

\* Variant: a market that was paid is not looked at again.
GetUnpaidMarkets == {m \in Markets : status[m] = "resolved" /\ ~paid[m]}

GetResolvedMarkets == {m \in Markets : status[m] = "resolved"}

UpdateMarketStatus(m, s) == status' = [status EXCEPT ![m] = s]

\* The transaction fails: nothing is written, or the commit went through and
\* only its acknowledgement was lost.
UpdateMarketStatusFails(m, s) ==
  Fault /\ (UNCHANGED status \/ UpdateMarketStatus(m, s))

-----------------------------------------------------------------------------
(***************************************************************************)
(* Engine.loop and processMarkets.                                         *)
(***************************************************************************)
LoopUnchanged == UNCHANGED <<worldVars, redeemVars, mainPC, stops>>

EndRound == loopPC' = "idle" /\ saved' = {} /\ toInsert' = {} /\ toStart' = {}

LoopTick ==
  /\ Up /\ loopPC = "idle"
  /\ loopPC' = "fetch"
  /\ saved' = GetPlannedAndActiveMarkets
  /\ UNCHANGED <<toInsert, toStart, status, workerVars, faults>>
  /\ LoopUnchanged

\* GetMarkets and filterMarkets: any subset of the markets that have not
\* expired; MinTimeToExpiry and the allowed underlyings choose which.
CanBeListed(m) == phase[m] \in {"upcoming", "open"} \/ m \in Relistable

LoopFetched ==
  /\ Up /\ loopPC = "fetch" /\ ~Cancelled
  /\ \E filteredMarkets \in SUBSET {m \in Markets : CanBeListed(m)} :
       toInsert' = filteredMarkets \ saved
  /\ toStart' = saved
  /\ saved' = {}
  /\ loopPC' = "insert"
  /\ UNCHANGED <<status, workerVars, faults>>
  /\ LoopUnchanged

\* The catalogue never answers, and the client has no timeout: only ctx, which
\* the request carries, ends the call.
LoopHangs ==
  /\ Up /\ loopPC = "fetch" /\ Fault
  /\ loopPC' = "stuck"
  /\ UNCHANGED <<saved, toInsert, toStart, status, workerVars>>
  /\ LoopUnchanged

\* One of the two reads of the round fails, or the context is cancelled.
LoopFetchFails ==
  /\ Up /\ loopPC \in {"fetch", "stuck"}
  /\ \/ loopPC = "fetch" /\ Fault
     \/ Cancelled /\ UNCHANGED faults
  /\ EndRound
  /\ UNCHANGED <<status, workerVars>>
  /\ LoopUnchanged

\* Variant: ON CONFLICT DO UPDATE.
LoopUpsert(m) ==
  /\ Up /\ loopPC = "insert" /\ m \in toInsert
  /\ UpdateMarketStatus(m, "planned")
  /\ toInsert' = toInsert \ {m}
  /\ toStart' = toStart \cup {m}
  /\ UNCHANGED <<loopPC, saved, workerVars, faults>>
  /\ LoopUnchanged

\* InsertMarket: the primary key of the table refuses a market it holds.
LoopInsert(m) ==
  /\ Up /\ loopPC = "insert" /\ m \in toInsert
  /\ status[m] = "none"
  /\ UpdateMarketStatus(m, "planned")
  /\ toInsert' = toInsert \ {m}
  /\ toStart' = toStart \cup {m}
  /\ UNCHANGED <<loopPC, saved, workerVars, faults>>
  /\ LoopUnchanged

\* The first insert that fails ends the round: no worker is started in it.
LoopInsertFails(m) ==
  /\ Up /\ loopPC = "insert" /\ m \in toInsert
  /\ \/ status[m] # "none" /\ UNCHANGED <<status, faults>>
     \/ status[m] = "none" /\ UpdateMarketStatusFails(m, "planned")
  /\ EndRound
  /\ UNCHANGED workerVars
  /\ LoopUnchanged

\* e.mutex is held from here until LoopUnlock.
LoopLock ==
  /\ Up /\ loopPC = "insert" /\ toInsert = {}
  /\ loopPC' = "start"
  /\ UNCHANGED <<saved, toInsert, toStart, status, workerVars, faults>>
  /\ LoopUnchanged

\* Variant: the look into marketWorkers asks for a live worker.
StartWorkerAgain(m) ==
  /\ Up /\ loopPC = "start" /\ m \in toStart
  /\ ~Live(m)
  /\ wgMarket' = wgMarket + 1
  /\ worker' = [worker EXCEPT ![m] = "load"]
  /\ marketWorkers' = marketWorkers \cup {m}
  /\ UNCHANGED <<loopVars, closed, status, faults>>
  /\ LoopUnchanged

\* Variant: the goroutine does wgMarket.Add itself, if it ever gets that far.
StartWorkerUncounted(m) ==
  /\ Up /\ loopPC = "start" /\ m \in toStart
  /\ m \notin marketWorkers
  /\ worker' = [worker EXCEPT ![m] = "load"]
  /\ marketWorkers' = marketWorkers \cup {m}
  /\ UNCHANGED <<loopVars, closed, wgMarket, status, faults>>
  /\ LoopUnchanged

StartWorker(m) ==
  /\ Up /\ loopPC = "start" /\ m \in toStart
  /\ m \notin marketWorkers
  /\ wgMarket' = wgMarket + 1
  /\ worker' = [worker EXCEPT ![m] = "load"]
  /\ marketWorkers' = marketWorkers \cup {m}
  /\ UNCHANGED <<loopVars, closed, status, faults>>
  /\ LoopUnchanged

LoopUnlock ==
  /\ Up /\ loopPC = "start" /\ toStart \subseteq marketWorkers
  /\ EndRound
  /\ UNCHANGED <<status, workerVars, faults>>
  /\ LoopUnchanged

LoopExit ==
  /\ Up /\ loopPC = "idle" /\ Cancelled
  /\ loopPC' = "done"
  /\ UNCHANGED <<saved, toInsert, toStart, status, workerVars, faults>>
  /\ LoopUnchanged

Loop ==
  \/ LoopTick \/ LoopFetched \/ LoopHangs \/ LoopFetchFails \/ LoopLock \/ LoopUnlock \/ LoopExit
  \/ \E m \in Markets : LoopInsert(m) \/ LoopInsertFails(m) \/ StartWorker(m)

-----------------------------------------------------------------------------
(***************************************************************************)
(* marketWorker.Run, tradingLoop and processTick, and the goroutine of     *)
(* processMarkets that runs them.                                          *)
(***************************************************************************)
WorkerUnchanged == UNCHANGED <<worldVars, loopVars, redeemVars, mainPC, stops>>

Goto(m, from, to) == Up /\ worker[m] = from /\ worker' = [worker EXCEPT ![m] = to]

\* Variant: Done is called by the worker and by its goroutine.
ReturnTwice(m, from) == Goto(m, from, "done") /\ wgMarket' = wgMarket - 2

\* The goroutine returns: the deferred wgMarket.Done().  The entry of
\* marketWorkers stays.
Return(m, from) == Goto(m, from, "done") /\ wgMarket' = wgMarket - 1

\* A market that has opened has no timer, and its worker does not look at ctx.
RunLoad(m) ==
  /\ Goto(m, "load", IF phase[m] = "upcoming" THEN "wait" ELSE "activate")
  /\ UNCHANGED <<marketWorkers, closed, wgMarket, status, faults>>
  /\ WorkerUnchanged

\* GetMarket fails: the goroutine gives up if the context is done and
\* otherwise sleeps for a second and runs again.
RunLoadFails(m) ==
  /\ Fault
  /\ \/ ~Cancelled /\ Goto(m, "load", "sleep") /\ UNCHANGED wgMarket
     \/ Cancelled /\ Return(m, "load")
  /\ UNCHANGED <<marketWorkers, closed, status>>
  /\ WorkerUnchanged

RunRetry(m) ==
  /\ Goto(m, "sleep", "load")
  /\ UNCHANGED <<marketWorkers, closed, wgMarket, status, faults>>
  /\ WorkerUnchanged

\* The timer fires.
RunOpens(m) ==
  /\ phase[m] # "upcoming"
  /\ Goto(m, "wait", "activate")
  /\ UNCHANGED <<marketWorkers, closed, wgMarket, status, faults>>
  /\ WorkerUnchanged

\* Variant: wgMarket.Done() is not deferred and the early return skips it.
RunWaitLeaks(m) ==
  /\ Cancelled
  /\ Goto(m, "wait", "done")
  /\ UNCHANGED <<marketWorkers, closed, wgMarket, status, faults>>
  /\ WorkerUnchanged

\* ctx.Done() while waiting: Run returns ctx.Err() and the goroutine ends.
RunWaitCancelled(m) ==
  /\ Cancelled
  /\ Return(m, "wait")
  /\ UNCHANGED <<marketWorkers, closed, status, faults>>
  /\ WorkerUnchanged

\* The error of UpdateMarketStatus is ignored.
RunActivate(m) ==
  /\ Goto(m, "activate", "tick")
  /\ \/ UpdateMarketStatus(m, "active") /\ UNCHANGED faults
     \/ UpdateMarketStatusFails(m, "active")
  /\ UNCHANGED <<marketWorkers, closed, wgMarket>>
  /\ WorkerUnchanged

\* Variant: the worker of an expired market is closed before the write.
TickExpiredCloses(m) ==
  /\ phase[m] \in {"expired", "redeemable"}
  /\ Goto(m, "tick", "resolve")
  /\ closed' = [closed EXCEPT ![m] = TRUE]
  /\ UNCHANGED <<marketWorkers, wgMarket, status, faults>>
  /\ WorkerUnchanged

\* processTick of an expired market.
TickExpired(m) ==
  /\ phase[m] \in {"expired", "redeemable"}
  /\ Goto(m, "tick", "resolve")
  /\ UNCHANGED <<marketWorkers, closed, wgMarket, status, faults>>
  /\ WorkerUnchanged

\* processTick of a market that is still open gets its prices and decides;
\* the deadline is not looked at again before the order goes out.
TickOpen(m) ==
  /\ phase[m] \notin {"expired", "redeemable"}
  /\ Goto(m, "tick", "order") \/ Goto(m, "tick", "select")
  /\ UNCHANGED <<marketWorkers, closed, wgMarket, status, faults>>
  /\ WorkerUnchanged

\* PlaceOrder returns, with or without an error.
OrderReturns(m) ==
  /\ Goto(m, "order", "select")
  /\ UNCHANGED <<marketWorkers, closed, wgMarket, status, faults>>
  /\ WorkerUnchanged

\* The exchange never answers GetPrices or PlaceOrder: neither has a timeout
\* or a context, and nothing but the end of the process ends the call.
CallHangs(m) ==
  /\ Fault
  /\ \/ phase[m] \notin {"expired", "redeemable"} /\ Goto(m, "tick", "stuck")
     \/ Goto(m, "order", "stuck")
  /\ UNCHANGED <<marketWorkers, closed, wgMarket, status>>
  /\ WorkerUnchanged

\* The error of UpdateMarketStatus is ignored and the worker is closed.
TickResolve(m) ==
  /\ Goto(m, "resolve", "select")
  /\ \/ UpdateMarketStatus(m, "resolved") /\ UNCHANGED faults
     \/ UpdateMarketStatusFails(m, "resolved")
  /\ closed' = [closed EXCEPT ![m] = TRUE]
  /\ UNCHANGED <<marketWorkers, wgMarket>>
  /\ WorkerUnchanged

\* The select of tradingLoop takes any case that is ready: a tick that is
\* pending may be taken after the worker was closed or cancelled.
SelectTick(m) ==
  /\ Goto(m, "select", "tick")
  /\ UNCHANGED <<marketWorkers, closed, wgMarket, status, faults>>
  /\ WorkerUnchanged

SelectClosed(m) ==
  /\ closed[m] \/ Cancelled
  /\ Return(m, "select")
  /\ closed' = [closed EXCEPT ![m] = TRUE]
  /\ UNCHANGED <<marketWorkers, status, faults>>
  /\ WorkerUnchanged

Worker(m) ==
  \/ RunLoad(m) \/ RunLoadFails(m) \/ RunRetry(m) \/ RunOpens(m) \/ RunWaitCancelled(m)
  \/ RunActivate(m) \/ TickExpired(m) \/ TickOpen(m) \/ OrderReturns(m)
  \/ CallHangs(m) \/ TickResolve(m) \/ SelectTick(m) \/ SelectClosed(m)

-----------------------------------------------------------------------------
(***************************************************************************)
(* Engine.startRedeemWorker.                                               *)
(***************************************************************************)
RedeemUnchanged == UNCHANGED <<phase, loopVars, workerVars, mainPC, stops>>

RedeemTick ==
  /\ Up /\ redeemPC = "idle"
  /\ redeemPC' = "next"
  /\ toRedeem' = GetResolvedMarkets
  /\ UNCHANGED <<redeeming, status, paid, tx, faults>>
  /\ RedeemUnchanged

\* Variant: no redemption window.
RedeemNextAtOnce(m) ==
  /\ Up /\ redeemPC = "next" /\ m \in toRedeem
  /\ toRedeem' = toRedeem \ {m}
  /\ redeemPC' = "send" /\ redeeming' = {m}
  /\ UNCHANGED <<status, paid, tx, faults>>
  /\ RedeemUnchanged

\* The next market of the list; fifteen minutes after its end it may be redeemed.
RedeemNext(m) ==
  /\ Up /\ redeemPC = "next" /\ m \in toRedeem
  /\ toRedeem' = toRedeem \ {m}
  /\ IF phase[m] = "redeemable"
     THEN redeemPC' = "send" /\ redeeming' = {m}
     ELSE UNCHANGED <<redeemPC, redeeming>>
  /\ UNCHANGED <<status, paid, tx, faults>>
  /\ RedeemUnchanged

RedeemRoundEnds ==
  /\ Up /\ redeemPC = "next" /\ toRedeem = {}
  /\ redeemPC' = "idle"
  /\ UNCHANGED <<toRedeem, redeeming, status, paid, tx, faults>>
  /\ RedeemUnchanged

RedeemSend(m) ==
  /\ Up /\ redeemPC = "send" /\ m \in redeeming /\ ~Cancelled
  /\ redeemPC' = "wait"
  /\ tx' = [tx EXCEPT ![m] = "pending"]
  /\ UNCHANGED <<toRedeem, redeeming, status, paid, faults>>
  /\ RedeemUnchanged

\* Variant: a transaction that was accepted counts as mined.
RedeemSent(m) ==
  /\ Up /\ redeemPC = "wait" /\ m \in redeeming /\ ~Cancelled
  /\ redeemPC' = "mark"
  /\ UNCHANGED <<toRedeem, redeeming, status, paid, tx, faults>>
  /\ RedeemUnchanged

RedeemMined(m) ==
  /\ Up /\ redeemPC = "wait" /\ m \in redeeming /\ ~Cancelled
  /\ tx[m] = "mined"
  /\ redeemPC' = "mark"
  /\ UNCHANGED <<toRedeem, redeeming, status, paid, tx, faults>>
  /\ RedeemUnchanged

\* Redeem returns an error: a call fails, the transaction reverts, the 15
\* seconds are over or the context was cancelled.  What was sent stays sent.
RedeemFails ==
  /\ Up /\ redeemPC \in {"send", "wait"}
  /\ Fault \/ (Cancelled /\ UNCHANGED faults)
  /\ redeemPC' = "next"
  /\ redeeming' = {}
  /\ UNCHANGED <<toRedeem, status, paid, tx>>
  /\ RedeemUnchanged

RedeemMark(m) ==
  /\ Up /\ redeemPC = "mark" /\ m \in redeeming
  /\ redeemPC' = "next"
  /\ redeeming' = {}
  /\ \/ UpdateMarketStatus(m, "redeemed") /\ UNCHANGED faults
     \/ UpdateMarketStatusFails(m, "redeemed")
  /\ UNCHANGED <<toRedeem, paid, tx>>
  /\ RedeemUnchanged

RedeemExit ==
  /\ Up /\ redeemPC = "idle" /\ Cancelled
  /\ redeemPC' = "done"
  /\ UNCHANGED <<toRedeem, redeeming, status, paid, tx, faults>>
  /\ RedeemUnchanged

RedeemWorker ==
  \/ RedeemTick \/ RedeemRoundEnds \/ RedeemFails \/ RedeemExit
  \/ \E m \in Markets : RedeemNext(m) \/ RedeemSend(m) \/ RedeemMined(m) \/ RedeemMark(m)

-----------------------------------------------------------------------------
(***************************************************************************)
(* main, Engine.Stop and the process.                                      *)
(***************************************************************************)
MainUnchanged == UNCHANGED <<worldVars, status, faults>>

\* The signal arrives and main calls cancel().
Signal ==
  /\ mainPC = "running" /\ stops < MaxStops
  /\ mainPC' = "cancelled"
  /\ stops' = stops + 1
  /\ UNCHANGED <<loopVars, workerVars, redeemVars>>
  /\ MainUnchanged

\* Stop takes e.mutex for reading, cancels the registered markets and releases it.
StopCancels ==
  /\ mainPC = "cancelled" /\ loopPC # "start"
  /\ mainPC' = "waiting"
  /\ UNCHANGED <<loopVars, workerVars, redeemVars, stops>>
  /\ MainUnchanged

\* e.wgMarket.Wait() returns and Stop reports that all markets are closed.
StopReturns ==
  /\ mainPC = "waiting" /\ wgMarket = 0
  /\ mainPC' = "closed"
  /\ UNCHANGED <<loopVars, workerVars, redeemVars, stops>>
  /\ MainUnchanged

ProcessEnds ==
  /\ mainPC' = "exited"
  /\ loopPC' = "idle" /\ saved' = {} /\ toInsert' = {} /\ toStart' = {}
  /\ marketWorkers' = {} /\ worker' = [m \in Markets |-> "none"]
  /\ closed' = [m \in Markets |-> FALSE] /\ wgMarket' = 0
  /\ redeemPC' = "idle" /\ toRedeem' = {} /\ redeeming' = {}
  /\ MainUnchanged

\* main returns: every goroutine that still runs dies with the process.
Exit ==
  /\ mainPC = "closed"
  /\ ProcessEnds
  /\ UNCHANGED stops

\* A panic in any goroutine, a kill or a power failure.
Crash ==
  /\ Up /\ stops < MaxStops
  /\ ProcessEnds
  /\ stops' = stops + 1

\* restart: unless-stopped
Restart ==
  /\ mainPC = "exited"
  /\ mainPC' = "running"
  /\ UNCHANGED <<loopVars, workerVars, redeemVars, stops>>
  /\ MainUnchanged

Main == Signal \/ StopCancels \/ StopReturns \/ Exit \/ Crash \/ Restart

-----------------------------------------------------------------------------
Next ==
  \/ Loop
  \/ RedeemWorker
  \/ Main
  \/ \E m \in Markets : TimePasses(m) \/ Mine(m) \/ Worker(m)

Spec == Init /\ [][Next]_vars

-----------------------------------------------------------------------------
(***************************************************************************)
(* Safety.                                                                 *)
(***************************************************************************)
\* A worker that has not begun to trade, or that is about to place an order,
\* belongs to a market the table still holds as planned or active: no worker
\* is started for, activates or trades a market whose end was recorded.  The
\* list of saved markets is read long before the workers start, the entry in
\* marketWorkers and the primary key have to make up for it
\* (engine.go:76, :96, :105; worker.go:137, :215).
WorkersServeOpenRecords ==
  \A m \in Markets :
    worker[m] \in {"load", "sleep", "wait", "activate", "order"} => PlannedOrActive(m)

\* The wait group counts the goroutines that have not returned and
\* marketWorkers names the markets that got one, across every interleaving
\* of starts, returns, a shutdown and a crash (engine.go:105-122).
WaitGroupCountsWorkers ==
  /\ wgMarket = Cardinality({m \in Markets : Live(m)})
  /\ marketWorkers = {m \in Markets : worker[m] # "none"}

\* A row says "redeemed" only after a redemption of the market was mined,
\* whatever was retried, timed out or repeated after a restart
\* (engine.go:170-178).
RedeemedMeansPaid ==
  \A m \in Markets : status[m] = "redeemed" => paid[m]

\* A redemption is sent only for a market that was recorded as resolved and
\* whose redemption window has opened, and never before its end
\* (engine.go:156-170, worker.go:166).
RedemptionsAreDue ==
  \A m \in Markets :
    tx[m] # "none" => phase[m] = "redeemable" /\ status[m] \in {"resolved", "redeemed"}

\* "all markets closed, shutdown" (engine.go:56): when Stop reports it, no
\* market worker runs any more.
AllMarketsClosed == mainPC = "closed" => \A m \in Markets : ~Live(m)

\* A stored market that nothing will resolve before the next restart: its entry
\* in marketWorkers keeps a worker from being started, and the one it has is
\* closed or has returned.
Stranded(m) ==
  /\ ~Cancelled /\ PlannedOrActive(m)
  /\ m \in marketWorkers
  /\ closed[m] \/ ~Live(m)

\* A stored market is stranded by a call that fails in that very step and by
\* nothing else: no order of fetches, inserts, starts, ticks and shutdowns
\* leaves a market behind, in this process or for the next
\* (engine.go:76-122, worker.go:137, :151-175).
OnlyFaultsStrand ==
  [][\A m \in Markets : Stranded(m)' => Stranded(m) \/ faults' # faults]_vars

-----------------------------------------------------------------------------
(***************************************************************************)
(* The record of a market, as MarketRecord promises it.                    *)
(***************************************************************************)
Record == INSTANCE MarketRecord WITH
            ended <- [m \in Markets |-> phase[m] \in {"expired", "redeemable"}]

\* The status column only moves planned, active, resolved, redeemed, with the
\* one step back of MarketRecord!Resolve; a market is never activated after
\* it was resolved, resolved before its end or marked redeemed unpaid, under
\* stale lists, ignored errors, late ticks and restarts (worker.go:137, :168,
\* engine.go:95, :178).
RecordSpec == Record!Spec

-----------------------------------------------------------------------------
(***************************************************************************)
(* Liveness.  Goroutines are scheduled and the calls they make return, but *)
(* for those that hang; time passes; a transaction that was sent is mined; *)
(* the container is restarted.  Go's select takes a ready case uniformly   *)
(* at random, so a worker that can leave its loop infinitely often leaves  *)
(* it: strong fairness for that one action.                                *)
(***************************************************************************)
Fairness ==
  /\ WF_vars(Loop) /\ WF_vars(RedeemWorker)
  /\ WF_vars(StopCancels) /\ WF_vars(StopReturns) /\ WF_vars(Exit) /\ WF_vars(Restart)
  /\ \A m \in Markets :
       /\ WF_vars(TimePasses(m)) /\ WF_vars(Mine(m))
       /\ WF_vars(Worker(m)) /\ SF_vars(SelectClosed(m))

FairSpec == Spec /\ Fairness

Stuck(m) == worker[m] = "stuck"

\* A shutdown comes to an end: every worker sees the cancelled context,
\* however many ticks it takes first, and Wait returns; if not, the workers it
\* waits for are those whose call hangs, and no others (worker.go:151-161,
\* engine.go:55, client.go:295).
ShutdownCompletes ==
  mainPC \in {"cancelled", "waiting"} ~>
    \/ mainPC \in {"closed", "exited"}
    \/ (\E m \in Markets : Stuck(m)) /\ (\A m \in Markets : Live(m) => Stuck(m))

\* Stop waits for a worker whose call hangs: nothing is begun any more.
ShutdownHangs == mainPC = "waiting" /\ \E m \in Markets : Stuck(m)

\* The write of "resolved" was lost, and with it the market: its worker has
\* returned, and its entry in marketWorkers keeps another from starting.
ResolveLost(m) == ~Cancelled /\ worker[m] = "done" /\ PlannedOrActive(m)

\* A market that was stored is resolved in the end, across crashes and
\* restarts, unless that one write fails or a call hangs, of its own worker or
\* of the loop that is to start it: then it waits for a restart, after which
\* the promise holds again (engine.go:76-81, worker.go:168).
StoredMarketsResolve ==
  \A m \in Markets :
    PlannedOrActive(m) ~>
      \/ status[m] \in {"resolved", "redeemed"}
      \/ ResolveLost(m) \/ Stuck(m) \/ loopPC = "stuck" \/ ShutdownHangs

\* A resolved market is marked redeemed in the end, across timeouts, failed
\* writes, restarts and hanging calls of any worker or of the loop, unless a
\* shutdown waits for one of those (engine.go:155-188).
ResolvedMarketsRedeem ==
  \A m \in Markets : status[m] = "resolved" ~> status[m] = "redeemed" \/ ShutdownHangs
=============================================================================
