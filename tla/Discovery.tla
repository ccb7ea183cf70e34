------------------------------- MODULE Discovery -------------------------------
(***************************************************************************)
(* How a market of the exchange's catalogue becomes a row and a worker:    *)
(* the listing and what is read from it (internal/exchange/polymarket/     *)
(* client.go, GetMarkets), the filter of the configuration (engine.go,     *)
(* filterMarkets, internal/config/config.go), the insert and the start of  *)
(* the workers (processMarkets).  MarketLifecycle follows the goroutines   *)
(* through a round and lets any market be listed; here are the end dates,  *)
(* the stored one and the exchange's, the underlyings and a configuration  *)
(* that may change between two processes.  A row that is planned or active *)
(* counts as planned.                                                      *)
(***************************************************************************)
EXTENDS Integers, FiniteSets

CONSTANTS
  Markets,       \* the markets of the catalogue
  Names,         \* the underlyings the slug of a market contains a name of
  Tradable,      \* markets with two outcomes and two tokens
  Configs,       \* the values of allowed_underlying
  MinTTE,        \* min_time_to_expiry, zero if it is not set
  Horizon,       \* the longest time to an end date
  MaxFaults,     \* bound: failed calls, malformed listings
  MaxRestarts    \* bound: restarts of the process

Underlyings == {"BTC", "ETH", "SOL", "XRP"}

ASSUME DiscoveryAssumption ==
  /\ IsFiniteSet(Markets) /\ Tradable \subseteq Markets
  /\ Names \in [Markets -> SUBSET Underlyings]
  /\ Configs \subseteq SUBSET Underlyings
  /\ MinTTE \in Nat /\ Horizon \in Nat \ {0}
  /\ MaxFaults \in Nat /\ MaxRestarts \in Nat

VARIABLES
  left,           \* the time to the end date the exchange shows
  kept,           \* the time to the end date it showed first, the stored one
  status,         \* markets.status, "none" while there is no row
  allowed,        \* config.allowedUnderlyings
  storedUnder,    \* history: the configuration under which a market was stored
  postponed,      \* markets whose end date the exchange has moved
  loopPC,         \* Engine.loop
  saved,          \* savedMarkets of processMarkets
  toInsert,       \* what is left of filteredMarkets
  toStart,        \* marketIDToStart
  marketWorkers,  \* keys of Engine.marketWorkers
  faults, restarts

dates == <<left, kept, postponed>>
table == <<status, storedUnder>>
round == <<loopPC, saved, toInsert, toStart>>
vars  == <<dates, table, allowed, round, marketWorkers, faults, restarts>>

TypeOK ==
  /\ left \in [Markets -> 0 .. Horizon] /\ kept \in [Markets -> 0 .. Horizon]
  /\ postponed \subseteq Markets
  /\ status \in [Markets -> {"none", "planned", "resolved"}]
  /\ allowed \in Configs
  /\ storedUnder \in [Markets -> SUBSET Underlyings]
  /\ loopPC \in {"idle", "fetch", "insert"}
  /\ saved \subseteq Markets /\ toInsert \subseteq Markets
  /\ toStart \subseteq Markets /\ marketWorkers \subseteq Markets
  /\ faults \in 0 .. MaxFaults /\ restarts \in 0 .. MaxRestarts

Init ==
  /\ left \in [Markets -> 1 .. Horizon] /\ kept = left /\ postponed = {}
  /\ status = [m \in Markets |-> "none"]
  /\ storedUnder = [m \in Markets |-> {}]
  /\ allowed \in Configs
  /\ loopPC = "idle" /\ saved = {} /\ toInsert = {} /\ toStart = {}
  /\ marketWorkers = {}
  /\ faults = 0 /\ restarts = 0

Fault == faults < MaxFaults /\ faults' = faults + 1

-----------------------------------------------------------------------------
(***************************************************************************)
(* The catalogue.                                                          *)
(***************************************************************************)
\* Days go by, to the one end date and to the other.
Less(n) == IF n = 0 THEN 0 ELSE n - 1

Elapse(m) ==
  /\ left[m] + kept[m] > 0
  /\ left' = [left EXCEPT ![m] = Less(@)] /\ kept' = [kept EXCEPT ![m] = Less(@)]
  /\ UNCHANGED <<postponed, table, allowed, round, marketWorkers, faults, restarts>>

\* The exchange moves the end date of a market that was stored: no code
\* updates the row.
Postpone(m) ==
  /\ m \notin postponed /\ status[m] # "none"
  /\ postponed' = postponed \cup {m}
  /\ left' = [left EXCEPT ![m] = Horizon]
  /\ UNCHANGED <<kept, table, allowed, round, marketWorkers, faults, restarts>>

\* The names are looked for in a fixed order, as substrings of the slug; a
\* slug without any counts as BTC.
Rank == [BTC |-> 1, ETH |-> 2, SOL |-> 3, XRP |-> 4]

extractUnderlying(m) ==
  IF Names[m] = {}
  THEN "BTC"
  ELSE CHOOSE u \in Names[m] : \A v \in Names[m] : Rank[u] <= Rank[v]

\* Variant: every entry of the listing becomes a market.
GetMarketsUnchecked(listing) == listing

GetMarkets(listing) == listing \cap Tradable

IsAllowedUnderlying(u) == u \in allowed

\* Variant: no look at the end date.
filterMarketsForever(markets) == {m \in markets : IsAllowedUnderlying(extractUnderlying(m))}

filterMarkets(markets) ==
  {m \in markets :
     /\ IsAllowedUnderlying(extractUnderlying(m))
     /\ left[m] > 0
     /\ MinTTE > 0 => left[m] >= MinTTE}

-----------------------------------------------------------------------------
(***************************************************************************)
(* Engine.processMarkets.                                                  *)
(***************************************************************************)
EndRound == loopPC' = "idle" /\ saved' = {} /\ toInsert' = {} /\ toStart' = {}

LoopTick ==
  /\ loopPC = "idle" /\ loopPC' = "fetch"
  /\ saved' = {m \in Markets : status[m] = "planned"}
  /\ UNCHANGED <<dates, table, allowed, toInsert, toStart, marketWorkers, faults, restarts>>

\* The listing is any part of the catalogue: 36 events, ordered by start date.
LoopFetched ==
  /\ loopPC = "fetch" /\ loopPC' = "insert"
  /\ \E listing \in SUBSET Markets :
       toInsert' = filterMarkets(GetMarkets(listing)) \ saved
  /\ toStart' = saved /\ saved' = {}
  /\ UNCHANGED <<dates, table, allowed, marketWorkers, faults, restarts>>

\* A read fails, or one entry of the listing does not decode.
LoopFails ==
  /\ loopPC = "fetch" /\ Fault
  /\ EndRound
  /\ UNCHANGED <<dates, table, allowed, marketWorkers, restarts>>

\* Variant: the status of the new row is left unset.
StoreUnset(m) ==
  /\ status' = [status EXCEPT ![m] = ""]
  /\ storedUnder' = [storedUnder EXCEPT ![m] = allowed]

Store(m) ==
  /\ status' = [status EXCEPT ![m] = "planned"]
  /\ storedUnder' = [storedUnder EXCEPT ![m] = allowed]

\* Variant: ON CONFLICT DO UPDATE.
InsertOrUpdateMarket(m) ==
  /\ loopPC = "insert" /\ m \in toInsert
  /\ toStart' = toStart \cup {m} /\ toInsert' = toInsert \ {m}
  /\ Store(m)
  /\ UNCHANGED <<dates, allowed, loopPC, saved, marketWorkers, faults, restarts>>

InsertMarket(m) ==
  /\ loopPC = "insert" /\ m \in toInsert
  /\ toStart' = toStart \cup {m} /\ toInsert' = toInsert \ {m}
  /\ status[m] = "none" /\ Store(m)
  /\ UNCHANGED <<dates, allowed, loopPC, saved, marketWorkers, faults, restarts>>

\* The table holds the market already, or the transaction fails with or
\* without its effect.
InsertRefused(m) ==
  \/ status[m] # "none" /\ UNCHANGED <<table, faults>>
  \/ status[m] = "none" /\ Fault /\ (UNCHANGED table \/ Store(m))

\* Variant: the round goes on, with the market among those to start.
InsertFailsOn(m) ==
  /\ loopPC = "insert" /\ m \in toInsert
  /\ InsertRefused(m)
  /\ toStart' = toStart \cup {m} /\ toInsert' = toInsert \ {m}
  /\ UNCHANGED <<dates, allowed, loopPC, saved, marketWorkers, restarts>>

InsertFails(m) ==
  /\ loopPC = "insert" /\ m \in toInsert
  /\ InsertRefused(m)
  /\ EndRound
  /\ UNCHANGED <<dates, allowed, marketWorkers, restarts>>

StartWorkers ==
  /\ loopPC = "insert" /\ toInsert = {}
  /\ marketWorkers' = marketWorkers \cup toStart
  /\ EndRound
  /\ UNCHANGED <<dates, table, allowed, faults, restarts>>

Loop ==
  \/ LoopTick \/ LoopFetched \/ LoopFails \/ StartWorkers
  \/ \E m \in Markets : InsertMarket(m) \/ InsertFails(m)

-----------------------------------------------------------------------------
(***************************************************************************)
(* The worker of a market, as far as it writes its row, and the process.   *)
(***************************************************************************)
\* The worker goes by the end date of the row.
Resolve(m) ==
  /\ m \in marketWorkers /\ status[m] = "planned" /\ kept[m] = 0
  /\ status' = [status EXCEPT ![m] = "resolved"]
  /\ UNCHANGED <<dates, storedUnder, allowed, round, marketWorkers, faults, restarts>>

\* The process ends at any point and is started with another configuration.
Restart ==
  /\ restarts < MaxRestarts /\ restarts' = restarts + 1
  /\ allowed' \in Configs
  /\ EndRound /\ marketWorkers' = {}
  /\ UNCHANGED <<dates, table, faults>>

Next == Loop \/ Restart \/ \E m \in Markets : Elapse(m) \/ Postpone(m) \/ Resolve(m)

Spec == Init /\ [][Next]_vars

\* The loop is scheduled and its calls return; time passes.
FairSpec == Spec /\ WF_vars(Loop) /\ \A m \in Markets : WF_vars(Elapse(m))

-----------------------------------------------------------------------------
\* Every worker has a row to load: a worker without one would fail and run
\* again every second for as long as the process lives (engine.go:95 puts a
\* market on the list before it inserts it, :118 retries).
WorkersHaveRows == \A m \in marketWorkers : status[m] # "none"

\* A worker trades a market of two tokens whose slug names an underlying that
\* was allowed when the market was stored, or names none when BTC was: the
\* filter looks at one list, the workers start from two, and after a restart
\* nothing looks at the stored markets again (engine.go:87-94, client.go:214,
\* :252).
WorkersWereAllowed ==
  \A m \in marketWorkers :
    /\ m \in Tradable
    /\ storedUnder[m] \cap Names[m] # {} \/ (Names[m] = {} /\ "BTC" \in storedUnder[m])

Record == INSTANCE MarketRecord WITH
            ended <- [m \in Markets |-> kept[m] = 0],
            paid  <- [m \in Markets |-> FALSE]

\* The row of a market is planned once and resolved only after the end date it
\* holds, whatever dates later listings show (engine.go:96, market.go:87).
RecordSpec == Record!Spec

\* A stored market gets a worker in the end, in every process: failed and
\* malformed listings, refused rows and restarts only delay it, and a resolved
\* market that the exchange lists with a later end date stops the rounds before
\* the workers start only until that date is near (engine.go:76-101, :133).
SavedMarketsStart ==
  \A m \in Markets : status[m] = "planned" ~> m \in marketWorkers \/ status[m] = "resolved"
=============================================================================
