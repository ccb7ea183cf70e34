--------------------------- MODULE Discovery_proofs ---------------------------
(***************************************************************************)
(* What Discovery promises, proved for any catalogue, configurations, end  *)
(* dates and numbers of faults and restarts.                               *)
(***************************************************************************)
EXTENDS Discovery, TLAPS

\* The market may be traded under a configuration.
MayTrade(m, config) ==
  /\ m \in Tradable
  /\ config \cap Names[m] # {} \/ (Names[m] = {} /\ "BTC" \in config)

\* What waits to be started has a row, what waits to be inserted passed the
\* filter of this process, and every row passed that of the process it is from.
IInv ==
  /\ TypeOK
  /\ \A m \in saved \cup toStart \cup marketWorkers : status[m] # "none"
  /\ \A m \in toInsert : MayTrade(m, allowed)
  /\ \A m \in Markets : status[m] # "none" => MayTrade(m, storedUnder[m])

\* The underlying of a market is one its slug names, or BTC for want of any.
LEMMA UnderlyingNamed ==
  ASSUME NEW m \in Markets
  PROVE  IF Names[m] = {} THEN extractUnderlying(m) = "BTC" ELSE extractUnderlying(m) \in Names[m]
PROOF
  <1>1. Names[m] \subseteq Underlyings
    BY DiscoveryAssumption
  <1>2. ASSUME Names[m] # {}
        PROVE  \E u \in Names[m] : \A v \in Names[m] : Rank[u] <= Rank[v]
    <2>1. CASE "BTC" \in Names[m]
      BY <1>1, <2>1 DEF Underlyings, Rank
    <2>2. CASE "BTC" \notin Names[m] /\ "ETH" \in Names[m]
      BY <1>1, <2>2 DEF Underlyings, Rank
    <2>3. CASE "BTC" \notin Names[m] /\ "ETH" \notin Names[m] /\ "SOL" \in Names[m]
      BY <1>1, <2>3 DEF Underlyings, Rank
    <2>4. CASE Names[m] = {"XRP"}
      BY <2>4 DEF Rank
    <2> QED
      BY <1>1, <1>2, <2>1, <2>2, <2>3, <2>4 DEF Underlyings
  <1> QED
    BY <1>2 DEF extractUnderlying

\* What the filter lets through may be traded under the configuration.
LEMMA FilterAllows ==
  ASSUME NEW listing \in SUBSET Markets, NEW m \in filterMarkets(GetMarkets(listing))
  PROVE  MayTrade(m, allowed)
PROOF
  <1>1. m \in Markets /\ m \in Tradable /\ extractUnderlying(m) \in allowed
    BY DEF filterMarkets, GetMarkets, IsAllowedUnderlying
  <1> QED
    BY <1>1, UnderlyingNamed DEF MayTrade

\* A row that is stored keeps every other row, and the types.
LEMMA Stored ==
  ASSUME TypeOK, NEW m \in Markets, Store(m)
  PROVE  /\ status' \in [Markets -> {"none", "planned", "resolved"}]
         /\ storedUnder' \in [Markets -> SUBSET Underlyings]
         /\ status'[m] = "planned" /\ storedUnder'[m] = allowed
         /\ \A n \in Markets \ {m} : status'[n] = status[n] /\ storedUnder'[n] = storedUnder[n]
PROOF
  BY DiscoveryAssumption DEF TypeOK, Store

LEMMA InitInv == Init => IInv
PROOF
  BY DiscoveryAssumption DEF Init, IInv, TypeOK

\* Steps of the loop keep the invariant.
LEMMA LoopInv ==
  ASSUME IInv, Loop
  PROVE  IInv'
PROOF
  <1> USE DEF IInv
  <1>1. CASE LoopTick
    BY <1>1 DEF LoopTick, TypeOK, MayTrade, dates, table
  <1>2. CASE LoopFetched
    <2>1. PICK listing \in SUBSET Markets :
            toInsert' = filterMarkets(GetMarkets(listing)) \ saved
      BY <1>2 DEF LoopFetched
    <2>2. \A m \in toInsert' : MayTrade(m, allowed)
      BY <2>1, FilterAllows
    <2>3. toInsert' \subseteq Markets
      BY <2>1 DEF filterMarkets, GetMarkets
    <2>4. UNCHANGED <<dates, table, allowed, marketWorkers, faults, restarts>>
      BY <1>2 DEF LoopFetched
    <2>5. loopPC' = "insert" /\ toStart' = saved /\ saved' = {}
      BY <1>2 DEF LoopFetched
    <2> QED
      BY <2>2, <2>3, <2>4, <2>5 DEF TypeOK, MayTrade, dates, table
  <1>3. CASE LoopFails
    BY <1>3, DiscoveryAssumption DEF LoopFails, EndRound, Fault, TypeOK, MayTrade, dates, table
  <1>4. CASE StartWorkers
    BY <1>4 DEF StartWorkers, EndRound, TypeOK, MayTrade, dates, table
  <1>5. ASSUME NEW m \in Markets, InsertMarket(m)
        PROVE  IInv'
    <2>1. Store(m) /\ MayTrade(m, allowed)
      BY <1>5 DEF InsertMarket
    <2>2. TypeOK'
      BY <1>5, <2>1, Stored DEF InsertMarket, TypeOK, dates
    <2>3. \A n \in saved' \cup toStart' \cup marketWorkers' : status'[n] # "none"
      BY <1>5, <2>1, Stored DEF InsertMarket, TypeOK
    <2>4. \A n \in Markets : status'[n] # "none" => MayTrade(n, storedUnder'[n])
      BY <2>1, Stored DEF TypeOK
    <2>5. \A n \in toInsert' : MayTrade(n, allowed')
      BY <1>5 DEF InsertMarket
    <2> QED
      BY <2>2, <2>3, <2>4, <2>5 DEF MayTrade
  <1>6. ASSUME NEW m \in Markets, InsertFails(m)
        PROVE  IInv'
    <2>1. MayTrade(m, allowed) /\ (UNCHANGED table \/ Store(m))
      BY <1>6 DEF InsertFails, InsertRefused
    <2>2. /\ status' \in [Markets -> {"none", "planned", "resolved"}]
          /\ storedUnder' \in [Markets -> SUBSET Underlyings]
          /\ \A n \in Markets : /\ status[n] # "none" => status'[n] # "none"
                                /\ status'[n] # "none" => MayTrade(n, storedUnder'[n])
      BY <2>1, Stored DEF TypeOK, table
    <2>3. faults' \in 0 .. MaxFaults
      BY <1>6, DiscoveryAssumption DEF InsertFails, InsertRefused, Fault, TypeOK
    <2> QED
      BY <1>6, <2>2, <2>3 DEF InsertFails, EndRound, TypeOK, MayTrade, dates
  <1> QED
    BY <1>1, <1>2, <1>3, <1>4, <1>5, <1>6 DEF Loop

\* Every step keeps the invariant.
LEMMA NextInv ==
  ASSUME IInv, [Next]_vars
  PROVE  IInv'
PROOF
  <1> USE DEF IInv
  <1>1. CASE Restart
    BY <1>1, DiscoveryAssumption DEF Restart, EndRound, TypeOK, MayTrade, dates, table
  <1>2. ASSUME NEW m \in Markets, Elapse(m)
        PROVE  IInv'
    <2>1. \A n \in 0 .. Horizon : Less(n) \in 0 .. Horizon
      BY DiscoveryAssumption DEF Less
    <2> QED
      BY <1>2, <2>1 DEF Elapse, TypeOK, MayTrade, table, round
  <1>3. ASSUME NEW m \in Markets, Postpone(m)
        PROVE  IInv'
    BY <1>3, DiscoveryAssumption DEF Postpone, TypeOK, MayTrade, table, round
  <1>4. ASSUME NEW m \in Markets, Resolve(m)
        PROVE  IInv'
    BY <1>4 DEF Resolve, TypeOK, MayTrade, dates, round
  <1>5. CASE UNCHANGED vars
    BY <1>5 DEF vars, dates, table, round, TypeOK, MayTrade
  <1> QED
    BY <1>1, <1>2, <1>3, <1>4, <1>5, LoopInv DEF Next

THEOREM Invariant == Spec => []IInv
PROOF
  <1> QED
    BY InitInv, NextInv, PTL DEF Spec

\* The types of a round, for any catalogue.
THEOREM TypeCorrect == Spec => []TypeOK
PROOF
  <1>1. IInv => TypeOK
    BY DEF IInv
  <1> QED
    BY <1>1, Invariant, PTL

\* No worker is started for a market the table does not hold.
THEOREM RowsFirst == Spec => []WorkersHaveRows
PROOF
  <1>1. IInv => WorkersHaveRows
    BY DEF IInv, WorkersHaveRows
  <1> QED
    BY <1>1, Invariant, PTL

\* Every worker's market passed the checks of the process that stored it.
THEOREM AllowedWhenStored == Spec => []WorkersWereAllowed
PROOF
  <1>1. IInv => WorkersWereAllowed
    BY DEF IInv, TypeOK, MayTrade, WorkersWereAllowed
  <1> QED
    BY <1>1, Invariant, PTL

-----------------------------------------------------------------------------
Ended == [m \in Markets |-> kept[m] = 0]

Unpaid == [m \in Markets |-> FALSE]

\* A step of the record that only writes the status.
LEMMA StatusStep ==
  ASSUME TypeOK, NEW m \in Markets, NEW s, UNCHANGED kept,
         status' = [status EXCEPT ![m] = s],
         \/ status[m] = "none" /\ s = "planned"
         \/ status[m] = "planned" /\ s = "resolved" /\ kept[m] = 0
  PROVE  Record!Next
PROOF
  <1>1. UNCHANGED <<Ended, Unpaid>>
    BY DEF Ended, Unpaid
  <1>2. Record!SetStatus(m, s)
    BY <1>1 DEF Record!SetStatus, Ended, Unpaid
  <1>3. Ended[m] <=> kept[m] = 0
    BY DEF Ended
  <1>4. Record!Plan(m) \/ Record!Resolve(m)
    BY <1>2, <1>3 DEF Record!Plan, Record!Resolve, Ended
  <1> QED
    BY <1>4 DEF Record!Next

\* Every step is one of the record or leaves it alone.
LEMMA RecordStep ==
  ASSUME TypeOK, [Next]_vars
  PROVE  [Record!Next]_(Record!vars)
PROOF
  <1> DEFINE Same == UNCHANGED <<status, kept>>
  <1>1. ASSUME Same
        PROVE  UNCHANGED Record!vars
    BY <1>1 DEF Record!vars
  <1>2. ASSUME NEW m \in Markets, Elapse(m)
        PROVE  [Record!Next]_(Record!vars)
    <2>1. CASE kept[m] = 1
      <3>1. Ended' = [Ended EXCEPT ![m] = TRUE]
        <4>1. kept'[m] = 0 /\ \A n \in Markets \ {m} : kept'[n] = kept[n]
          BY <1>2, <2>1 DEF Elapse, Less, TypeOK
        <4>2. \A n \in Markets : Ended'[n] = [Ended EXCEPT ![m] = TRUE][n]
          BY <4>1 DEF Ended
        <4> QED
          BY <4>2, Zenon DEF Ended
      <3>2. UNCHANGED status /\ UNCHANGED Unpaid
        BY <1>2 DEF Elapse, Unpaid, table
      <3>3. Record!End(m)
        BY <3>1, <3>2 DEF Record!End, Ended, Unpaid
      <3> QED
        BY <3>3 DEF Record!Next
    <2>2. CASE kept[m] # 1
      <3>1. Ended' = Ended
        <4>1. (Less(kept[m]) = 0) <=> (kept[m] = 0)
          BY <2>2 DEF Less, TypeOK
        <4>2. kept' = [kept EXCEPT ![m] = Less(kept[m])]
          BY <1>2 DEF Elapse
        <4>3. \A n \in Markets : (kept'[n] = 0) <=> (kept[n] = 0)
          BY <4>1, <4>2 DEF TypeOK
        <4> QED
          BY <4>3, Zenon DEF Ended
      <3>2. UNCHANGED status
        BY <1>2 DEF Elapse, table
      <3> QED
        BY <3>1, <3>2 DEF Record!vars, Ended
    <2> QED
      BY <2>1, <2>2
  <1>3. ASSUME NEW m \in Markets, Store(m), status[m] = "none", UNCHANGED kept
        PROVE  Record!Next
    BY <1>3, StatusStep DEF Store
  <1>4. ASSUME NEW m \in Markets, Resolve(m)
        PROVE  Record!Next
    BY <1>4, StatusStep DEF Resolve, dates
  <1>5. ASSUME NEW m \in Markets, InsertMarket(m)
        PROVE  Record!Next
    BY <1>3, <1>5 DEF InsertMarket, dates
  <1>6. ASSUME NEW m \in Markets, InsertFails(m)
        PROVE  [Record!Next]_(Record!vars)
    <2>1. UNCHANGED kept /\ (UNCHANGED status \/ (status[m] = "none" /\ Store(m)))
      BY <1>6 DEF InsertFails, InsertRefused, dates, table
    <2> QED
      BY <1>1, <1>3, <2>1
  <1>7. ASSUME LoopTick \/ LoopFetched \/ LoopFails \/ StartWorkers \/ Restart
               \/ (\E m \in Markets : Postpone(m)) \/ UNCHANGED vars
        PROVE  Same
    BY <1>7 DEF LoopTick, LoopFetched, LoopFails, StartWorkers, Restart, Postpone,
                vars, dates, table
  <1> QED
    BY <1>1, <1>2, <1>4, <1>5, <1>6, <1>7 DEF Next, Loop

\* Listing, filtering and storing markets implements the promised order of
\* the status column, by the stored end dates.
THEOREM ImplementsRecord == Spec => RecordSpec
PROOF
  <1>1. Init => Record!Init
    <2>1. ASSUME Init, NEW m \in Markets
          PROVE  kept[m] # 0
      BY <2>1 DEF Init
    <2> QED
      BY <2>1 DEF Init, Record!Init
  <1>2. IInv /\ [Next]_vars => [Record!Next]_(Record!vars)
    BY RecordStep DEF IInv
  <1>3. Spec => Record!Spec
    BY <1>1, <1>2, Invariant, PTL DEF Spec, Record!Spec
  <1> QED
    BY <1>3 DEF RecordSpec
=============================================================================
