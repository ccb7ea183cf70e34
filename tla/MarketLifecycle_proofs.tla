------------------------ MODULE MarketLifecycle_proofs ------------------------
(***************************************************************************)
(* Theorems about MarketLifecycle, for every set of markets and every      *)
(* number of faults and stops.                                             *)
(***************************************************************************)
EXTENDS MarketLifecycle, FiniteSetTheorems, TLAPS

Ended(m) == phase[m] \in {"expired", "redeemable"}

(***************************************************************************)
(* The inductive invariant.  WorkersServeOpenRecords is not inductive: it  *)
(* depends on the markets the loop has read but not yet given a worker     *)
(* being open still (StartableIsOpen), RedeemedMeansPaid on what the       *)
(* redeem worker holds in its hands (RedeemInHand).                        *)
(***************************************************************************)
StartableIsOpen ==
  \A m \in saved \cup toStart : m \notin marketWorkers => PlannedOrActive(m)

RedeemInHand ==
  /\ \A m \in toRedeem \cup redeeming : status[m] = "resolved"
  /\ \A m \in redeeming : phase[m] = "redeemable" /\ m \notin toRedeem
  /\ \A m, n \in redeeming : m = n
  /\ redeemPC \in {"idle", "next", "done"} => redeeming = {}
  /\ redeemPC = "mark" => \A m \in redeeming : paid[m]

RecordsAreHonest ==
  \A m \in Markets :
    /\ status[m] \in {"resolved", "redeemed"} => Ended(m)
    /\ worker[m] = "resolve" => Ended(m)
    /\ Live(m) => status[m] # "none"
    /\ tx[m] = "mined" => paid[m]

IInv ==
  /\ TypeOK
  /\ WaitGroupCountsWorkers
  /\ WorkersServeOpenRecords
  /\ StartableIsOpen
  /\ RecordsAreHonest
  /\ RedeemInHand
  /\ RedeemedMeansPaid
  /\ RedemptionsAreDue

-----------------------------------------------------------------------------
(***************************************************************************)
(* The wait group.                                                         *)
(***************************************************************************)
LiveSet == {m \in Markets : Live(m)}
StartedSet == {m \in Markets : worker[m] # "none"}

(* A failing call stays within the bound on failing calls. *)
LEMMA FaultBounded == ASSUME TypeOK, Fault PROVE faults' \in 0 .. MaxFaults
BY LifecycleAssumption DEF TypeOK, Fault, LifecycleAssumption

(* Live goroutines form a finite set. *)
LEMMA LiveFinite == IsFiniteSet(LiveSet)
BY LifecycleAssumption, FS_Subset DEF LifecycleAssumption, LiveSet

(* A step from one live program counter to another changes neither set. *)
LEMMA GotoKeepsLive ==
  ASSUME TypeOK, NEW m \in Markets, NEW from \in LivePCs, NEW to \in LivePCs,
         Goto(m, from, to)
  PROVE  LiveSet' = LiveSet /\ StartedSet' = StartedSet
BY DEF TypeOK, Goto, LiveSet, StartedSet, Live, LivePCs

(* A goroutine that returns leaves the live set and stays started. *)
LEMMA ReturnLeavesLive ==
  ASSUME TypeOK, WaitGroupCountsWorkers, NEW m \in Markets, NEW from \in LivePCs,
         Return(m, from)
  PROVE  /\ StartedSet' = StartedSet
         /\ wgMarket' = Cardinality(LiveSet')
         /\ wgMarket' \in Nat
<1>1. m \in LiveSet /\ LiveSet' = LiveSet \ {m} /\ StartedSet' = StartedSet
  BY DEF TypeOK, Return, Goto, LiveSet, StartedSet, Live, LivePCs
<1>2. Cardinality(LiveSet \ {m}) = Cardinality(LiveSet) - 1
  BY <1>1, LiveFinite, FS_RemoveElement
<1>3. Cardinality(LiveSet \ {m}) \in Nat
  BY LiveFinite, FS_Subset, FS_CardinalityType
<1> QED BY <1>1, <1>2, <1>3 DEF WaitGroupCountsWorkers, LiveSet, Return

(* A worker that is started joins both sets. *)
LEMMA StartJoinsLive ==
  ASSUME TypeOK, WaitGroupCountsWorkers, NEW m \in Markets, StartWorker(m)
  PROVE  WaitGroupCountsWorkers'
<1>1. m \notin LiveSet /\ LiveSet' = LiveSet \cup {m} /\ StartedSet' = StartedSet \cup {m}
  BY DEF TypeOK, WaitGroupCountsWorkers, StartWorker, LiveSet, StartedSet, Live, LivePCs
<1>2. Cardinality(LiveSet \cup {m}) = Cardinality(LiveSet) + 1
  BY <1>1, LiveFinite, FS_AddElement
<1> QED BY <1>1, <1>2 DEF WaitGroupCountsWorkers, LiveSet, StartedSet, StartWorker

(* No goroutine survives its process. *)
LEMMA EndEmptiesLive == ASSUME ProcessEnds PROVE WaitGroupCountsWorkers'
<1>1. LiveSet' = {} /\ StartedSet' = {}
  BY DEF ProcessEnds, LiveSet, StartedSet, Live, LivePCs
<1> QED BY <1>1, FS_EmptySet DEF ProcessEnds, WaitGroupCountsWorkers, LiveSet,
    StartedSet


(* TypeOK is preserved. *)
LEMMA TypeStep == TypeOK /\ WaitGroupCountsWorkers /\ [Next]_vars => TypeOK'
<1> SUFFICES ASSUME TypeOK /\ WaitGroupCountsWorkers, [Next]_vars PROVE TypeOK'
  OBVIOUS
<1> USE DEF TypeOK, Phases, Statuses, LivePCs,
    LoopUnchanged, WorkerUnchanged, RedeemUnchanged, MainUnchanged, worldVars, loopVars,
        workerVars, redeemVars, bounds
<1>1. CASE Loop
  <2>1. CASE LoopTick
    BY <2>1 DEF LoopTick, GetPlannedAndActiveMarkets
  <2>2. CASE LoopFetched
    BY <2>2 DEF LoopFetched
  <2>9. CASE LoopHangs
    BY <2>9, FaultBounded DEF LoopHangs
  <2>3. CASE LoopFetchFails
    BY <2>3, FaultBounded DEF LoopFetchFails, EndRound
  <2>4. CASE LoopLock
    BY <2>4 DEF LoopLock
  <2>5. CASE LoopUnlock
    BY <2>5 DEF LoopUnlock, EndRound
  <2>6. CASE LoopExit
    BY <2>6 DEF LoopExit
  <2>7. ASSUME NEW m \in Markets, LoopInsert(m) \/ LoopInsertFails(m) \/ StartWorker(m)
      PROVE TypeOK'
    <3>1. CASE LoopInsert(m)
      BY <3>1 DEF LoopInsert, UpdateMarketStatus
    <3>2. CASE LoopInsertFails(m)
      BY <3>2, FaultBounded DEF LoopInsertFails, EndRound, UpdateMarketStatus,
          UpdateMarketStatusFails
    <3>3. CASE StartWorker(m)
      BY <3>3 DEF StartWorker
    <3>4. QED BY <2>7, <3>1, <3>2, <3>3
  <2>8. QED BY <1>1, <2>1, <2>2, <2>3, <2>4, <2>5, <2>6, <2>7, <2>9 DEF Loop
<1>2. CASE RedeemWorker
  <2>1. CASE RedeemTick
    BY <2>1 DEF RedeemTick, GetResolvedMarkets
  <2>2. CASE RedeemRoundEnds
    BY <2>2 DEF RedeemRoundEnds
  <2>3. CASE RedeemFails
    BY <2>3, FaultBounded DEF RedeemFails
  <2>4. CASE RedeemExit
    BY <2>4 DEF RedeemExit
  <2>5. ASSUME NEW m \in Markets, RedeemNext(m) \/ RedeemSend(m) \/ RedeemMined(m) \/
      RedeemMark(m)
      PROVE TypeOK'
    <3>1. CASE RedeemNext(m)
      BY <3>1 DEF RedeemNext
    <3>2. CASE RedeemSend(m)
      BY <3>2 DEF RedeemSend
    <3>3. CASE RedeemMined(m)
      BY <3>3 DEF RedeemMined
    <3>4. CASE RedeemMark(m)
      BY <3>4, FaultBounded DEF RedeemMark, UpdateMarketStatus, UpdateMarketStatusFails
    <3>5. QED BY <2>5, <3>1, <3>2, <3>3, <3>4
  <2>6. QED BY <1>2, <2>1, <2>2, <2>3, <2>4, <2>5 DEF RedeemWorker
<1>3. CASE Main
  <2>1. CASE Signal
    BY <2>1, LifecycleAssumption DEF Signal, LifecycleAssumption
  <2>2. CASE StopCancels
    BY <2>2 DEF StopCancels
  <2>3. CASE StopReturns
    BY <2>3 DEF StopReturns
  <2>4. CASE Exit
    BY <2>4 DEF Exit, ProcessEnds
  <2>5. CASE Crash
    BY <2>5, LifecycleAssumption DEF Crash, ProcessEnds, LifecycleAssumption
  <2>6. CASE Restart
    BY <2>6 DEF Restart
  <2>7. QED BY <1>3, <2>1, <2>2, <2>3, <2>4, <2>5, <2>6 DEF Main
<1>4. ASSUME NEW m \in Markets, Worker(m) PROVE TypeOK'
  <2>1. CASE RunLoad(m)
    BY <2>1 DEF RunLoad, Goto
  <2>2. CASE RunLoadFails(m)
    BY <2>2, FaultBounded, ReturnLeavesLive DEF RunLoadFails, Goto, Return
  <2>3. CASE RunRetry(m)
    BY <2>3 DEF RunRetry, Goto
  <2>4. CASE RunOpens(m)
    BY <2>4 DEF RunOpens, Goto
  <2>5. CASE RunWaitCancelled(m)
    BY <2>5, ReturnLeavesLive DEF RunWaitCancelled, Goto, Return
  <2>6. CASE RunActivate(m)
    BY <2>6, FaultBounded DEF RunActivate, Goto, UpdateMarketStatus,
        UpdateMarketStatusFails
  <2>7. CASE TickExpired(m)
    BY <2>7 DEF TickExpired, Goto
  <2>8. CASE TickOpen(m)
    BY <2>8 DEF TickOpen, Goto
  <2>9. CASE OrderReturns(m)
    BY <2>9 DEF OrderReturns, Goto
  <2>14. CASE CallHangs(m)
    BY <2>14, FaultBounded DEF CallHangs, Goto
  <2>10. CASE TickResolve(m)
    BY <2>10, FaultBounded DEF TickResolve, Goto, UpdateMarketStatus,
        UpdateMarketStatusFails
  <2>11. CASE SelectTick(m)
    BY <2>11 DEF SelectTick, Goto
  <2>12. CASE SelectClosed(m)
    BY <2>12, ReturnLeavesLive DEF SelectClosed, Goto, Return
  <2>13. QED BY <1>4, <2>1, <2>2, <2>3, <2>4, <2>5, <2>6, <2>7, <2>8, <2>9, <2>10,
      <2>11, <2>12, <2>14 DEF Worker
<1>5. ASSUME NEW m \in Markets, TimePasses(m) PROVE TypeOK'
  BY <1>5 DEF TimePasses
<1>6. ASSUME NEW m \in Markets, Mine(m) PROVE TypeOK'
  BY <1>6 DEF Mine
<1>7. CASE UNCHANGED vars
  BY <1>7 DEF vars
<1>8. QED BY <1>1, <1>2, <1>3, <1>4, <1>5, <1>6, <1>7 DEF Next

(* The wait group keeps counting the live goroutines. *)
LEMMA CountStep == TypeOK /\ WaitGroupCountsWorkers /\ [Next]_vars =>
    WaitGroupCountsWorkers'
<1> SUFFICES ASSUME TypeOK /\ WaitGroupCountsWorkers, [Next]_vars
    PROVE WaitGroupCountsWorkers'
  OBVIOUS
<1> USE DEF WaitGroupCountsWorkers,
    LoopUnchanged, WorkerUnchanged, RedeemUnchanged, MainUnchanged, worldVars, loopVars,
        workerVars, redeemVars, bounds
<1>1. CASE Loop
  <2>1. CASE LoopTick
    BY <2>1 DEF LoopTick, GetPlannedAndActiveMarkets, Live
  <2>2. CASE LoopFetched
    BY <2>2 DEF LoopFetched, Live
  <2>9. CASE LoopHangs
    BY <2>9 DEF LoopHangs, Live
  <2>3. CASE LoopFetchFails
    BY <2>3 DEF LoopFetchFails, EndRound, Live
  <2>4. CASE LoopLock
    BY <2>4 DEF LoopLock, Live
  <2>5. CASE LoopUnlock
    BY <2>5 DEF LoopUnlock, EndRound, Live
  <2>6. CASE LoopExit
    BY <2>6 DEF LoopExit, Live
  <2>7. ASSUME NEW m \in Markets, LoopInsert(m) \/ LoopInsertFails(m) \/ StartWorker(m)
      PROVE WaitGroupCountsWorkers'
    <3>1. CASE LoopInsert(m)
      BY <3>1 DEF LoopInsert, UpdateMarketStatus, Live
    <3>2. CASE LoopInsertFails(m)
      BY <3>2 DEF LoopInsertFails, EndRound, UpdateMarketStatus,
          UpdateMarketStatusFails, Live
    <3>3. CASE StartWorker(m)
      BY <3>3, StartJoinsLive
    <3>4. QED BY <2>7, <3>1, <3>2, <3>3
  <2>8. QED BY <1>1, <2>1, <2>2, <2>3, <2>4, <2>5, <2>6, <2>7, <2>9 DEF Loop
<1>2. CASE RedeemWorker
  <2>1. CASE RedeemTick
    BY <2>1 DEF RedeemTick, GetResolvedMarkets, Live
  <2>2. CASE RedeemRoundEnds
    BY <2>2 DEF RedeemRoundEnds, Live
  <2>3. CASE RedeemFails
    BY <2>3 DEF RedeemFails, Live
  <2>4. CASE RedeemExit
    BY <2>4 DEF RedeemExit, Live
  <2>5. ASSUME NEW m \in Markets, RedeemNext(m) \/ RedeemSend(m) \/ RedeemMined(m) \/
      RedeemMark(m)
      PROVE WaitGroupCountsWorkers'
    <3>1. CASE RedeemNext(m)
      BY <3>1 DEF RedeemNext, Live
    <3>2. CASE RedeemSend(m)
      BY <3>2 DEF RedeemSend, Live
    <3>3. CASE RedeemMined(m)
      BY <3>3 DEF RedeemMined, Live
    <3>4. CASE RedeemMark(m)
      BY <3>4 DEF RedeemMark, UpdateMarketStatus, UpdateMarketStatusFails, Live
    <3>5. QED BY <2>5, <3>1, <3>2, <3>3, <3>4
  <2>6. QED BY <1>2, <2>1, <2>2, <2>3, <2>4, <2>5 DEF RedeemWorker
<1>3. CASE Main
  <2>1. CASE Signal
    BY <2>1 DEF Signal, Live
  <2>2. CASE StopCancels
    BY <2>2 DEF StopCancels, Live
  <2>3. CASE StopReturns
    BY <2>3 DEF StopReturns, Live
  <2>4. CASE Exit
    BY <2>4, EndEmptiesLive DEF Exit
  <2>5. CASE Crash
    BY <2>5, EndEmptiesLive DEF Crash
  <2>6. CASE Restart
    BY <2>6 DEF Restart, Live
  <2>7. QED BY <1>3, <2>1, <2>2, <2>3, <2>4, <2>5, <2>6 DEF Main
<1>4. ASSUME NEW m \in Markets, Worker(m) PROVE WaitGroupCountsWorkers'
  <2>1. CASE RunLoad(m)
    BY <2>1, GotoKeepsLive DEF RunLoad, LivePCs, LiveSet, StartedSet
  <2>2. CASE RunLoadFails(m)
    BY <2>2, ReturnLeavesLive, GotoKeepsLive DEF RunLoadFails, LivePCs, LiveSet,
        StartedSet
  <2>3. CASE RunRetry(m)
    BY <2>3, GotoKeepsLive DEF RunRetry, LivePCs, LiveSet, StartedSet
  <2>4. CASE RunOpens(m)
    BY <2>4, GotoKeepsLive DEF RunOpens, LivePCs, LiveSet, StartedSet
  <2>5. CASE RunWaitCancelled(m)
    BY <2>5, ReturnLeavesLive DEF RunWaitCancelled, LivePCs, LiveSet, StartedSet
  <2>6. CASE RunActivate(m)
    BY <2>6, GotoKeepsLive DEF RunActivate, UpdateMarketStatus, UpdateMarketStatusFails,
        LivePCs, LiveSet, StartedSet
  <2>7. CASE TickExpired(m)
    BY <2>7, GotoKeepsLive DEF TickExpired, LivePCs, LiveSet, StartedSet
  <2>8. CASE TickOpen(m)
    BY <2>8, GotoKeepsLive DEF TickOpen, LivePCs, LiveSet, StartedSet
  <2>9. CASE OrderReturns(m)
    BY <2>9, GotoKeepsLive DEF OrderReturns, LivePCs, LiveSet, StartedSet
  <2>14. CASE CallHangs(m)
    BY <2>14, GotoKeepsLive DEF CallHangs, LivePCs, LiveSet, StartedSet
  <2>10. CASE TickResolve(m)
    BY <2>10, GotoKeepsLive DEF TickResolve, UpdateMarketStatus,
        UpdateMarketStatusFails, LivePCs, LiveSet, StartedSet
  <2>11. CASE SelectTick(m)
    BY <2>11, GotoKeepsLive DEF SelectTick, LivePCs, LiveSet, StartedSet
  <2>12. CASE SelectClosed(m)
    BY <2>12, ReturnLeavesLive DEF SelectClosed, LivePCs, LiveSet, StartedSet
  <2>13. QED BY <1>4, <2>1, <2>2, <2>3, <2>4, <2>5, <2>6, <2>7, <2>8, <2>9, <2>10,
      <2>11, <2>12, <2>14 DEF Worker
<1>5. ASSUME NEW m \in Markets, TimePasses(m) PROVE WaitGroupCountsWorkers'
  BY <1>5 DEF TimePasses, Live
<1>6. ASSUME NEW m \in Markets, Mine(m) PROVE WaitGroupCountsWorkers'
  BY <1>6 DEF Mine, Live
<1>7. CASE UNCHANGED vars
  BY <1>7 DEF vars, Live
<1>8. QED BY <1>1, <1>2, <1>3, <1>4, <1>5, <1>6, <1>7 DEF Next

(* The part of the invariant about the workers. *)
LEMMA WorkerStep == IInv /\ [Next]_vars => (WorkersServeOpenRecords /\ StartableIsOpen
    /\ RecordsAreHonest)'
<1> SUFFICES ASSUME IInv, [Next]_vars
    PROVE (WorkersServeOpenRecords /\ StartableIsOpen /\ RecordsAreHonest)'
  OBVIOUS
<1> USE DEF TypeOK, PlannedOrActive, Live, LivePCs, Ended, UpdateMarketStatus,
    WaitGroupCountsWorkers, IInv, WorkersServeOpenRecords, StartableIsOpen,
    RecordsAreHonest, RedeemInHand, RedeemedMeansPaid, RedemptionsAreDue,
    LoopUnchanged, WorkerUnchanged, RedeemUnchanged, MainUnchanged, worldVars, loopVars,
        workerVars, redeemVars, bounds
<1>1. CASE Loop
  <2>1. CASE LoopTick
    BY <2>1 DEF LoopTick, GetPlannedAndActiveMarkets
  <2>2. CASE LoopFetched
    BY <2>2 DEF LoopFetched, CanBeListed
  <2>9. CASE LoopHangs
    BY <2>9 DEF LoopHangs
  <2>3. CASE LoopFetchFails
    BY <2>3 DEF LoopFetchFails, EndRound, Fault
  <2>4. CASE LoopLock
    BY <2>4 DEF LoopLock
  <2>5. CASE LoopUnlock
    BY <2>5 DEF LoopUnlock, EndRound
  <2>6. CASE LoopExit
    BY <2>6 DEF LoopExit
  <2>7. ASSUME NEW m \in Markets, LoopInsert(m) \/ LoopInsertFails(m) \/ StartWorker(m)
      PROVE (WorkersServeOpenRecords /\ StartableIsOpen /\ RecordsAreHonest)'
    <3>1. CASE LoopInsert(m)
      BY <3>1 DEF LoopInsert
    <3>2. CASE LoopInsertFails(m)
      BY <3>2 DEF LoopInsertFails, EndRound, UpdateMarketStatusFails, Fault
    <3>3. CASE StartWorker(m)
      BY <3>3 DEF StartWorker
    <3>4. QED BY <2>7, <3>1, <3>2, <3>3
  <2>8. QED BY <1>1, <2>1, <2>2, <2>3, <2>4, <2>5, <2>6, <2>7, <2>9 DEF Loop
<1>2. CASE RedeemWorker
  <2>1. CASE RedeemTick
    BY <2>1 DEF RedeemTick, GetResolvedMarkets
  <2>2. CASE RedeemRoundEnds
    BY <2>2 DEF RedeemRoundEnds
  <2>3. CASE RedeemFails
    BY <2>3 DEF RedeemFails, Fault
  <2>4. CASE RedeemExit
    BY <2>4 DEF RedeemExit
  <2>5. ASSUME NEW m \in Markets, RedeemNext(m) \/ RedeemSend(m) \/ RedeemMined(m) \/
      RedeemMark(m)
      PROVE (WorkersServeOpenRecords /\ StartableIsOpen /\ RecordsAreHonest)'
    <3>1. CASE RedeemNext(m)
      BY <3>1 DEF RedeemNext
    <3>2. CASE RedeemSend(m)
      BY <3>2 DEF RedeemSend
    <3>3. CASE RedeemMined(m)
      BY <3>3 DEF RedeemMined
    <3>4. CASE RedeemMark(m)
      BY <3>4 DEF RedeemMark, UpdateMarketStatusFails, Fault
    <3>5. QED BY <2>5, <3>1, <3>2, <3>3, <3>4
  <2>6. QED BY <1>2, <2>1, <2>2, <2>3, <2>4, <2>5 DEF RedeemWorker
<1>3. CASE Main
  <2>1. CASE Signal
    BY <2>1 DEF Signal
  <2>2. CASE StopCancels
    BY <2>2 DEF StopCancels
  <2>3. CASE StopReturns
    BY <2>3 DEF StopReturns
  <2>4. CASE Exit
    BY <2>4 DEF Exit, ProcessEnds
  <2>5. CASE Crash
    BY <2>5 DEF Crash, ProcessEnds
  <2>6. CASE Restart
    BY <2>6 DEF Restart
  <2>7. QED BY <1>3, <2>1, <2>2, <2>3, <2>4, <2>5, <2>6 DEF Main
<1>4. ASSUME NEW m \in Markets, Worker(m)
    PROVE (WorkersServeOpenRecords /\ StartableIsOpen /\ RecordsAreHonest)'
  <2>1. CASE RunLoad(m)
    BY <2>1 DEF RunLoad, Goto
  <2>2. CASE RunLoadFails(m)
    BY <2>2 DEF RunLoadFails, Fault, Goto, Return
  <2>3. CASE RunRetry(m)
    BY <2>3 DEF RunRetry, Goto
  <2>4. CASE RunOpens(m)
    BY <2>4 DEF RunOpens, Goto
  <2>5. CASE RunWaitCancelled(m)
    BY <2>5 DEF RunWaitCancelled, Goto, Return
  <2>6. CASE RunActivate(m)
    BY <2>6 DEF RunActivate, Goto, UpdateMarketStatusFails, Fault
  <2>7. CASE TickExpired(m)
    BY <2>7 DEF TickExpired, Goto
  <2>8. CASE TickOpen(m)
    BY <2>8 DEF TickOpen, Goto, Phases, Statuses
  <2>9. CASE OrderReturns(m)
    BY <2>9 DEF OrderReturns, Goto
  <2>14. CASE CallHangs(m)
    BY <2>14 DEF CallHangs, Goto
  <2>10. CASE TickResolve(m)
    BY <2>10 DEF TickResolve, Goto, UpdateMarketStatusFails, Fault
  <2>11. CASE SelectTick(m)
    BY <2>11 DEF SelectTick, Goto
  <2>12. CASE SelectClosed(m)
    BY <2>12 DEF SelectClosed, Goto, Return
  <2>13. QED BY <1>4, <2>1, <2>2, <2>3, <2>4, <2>5, <2>6, <2>7, <2>8, <2>9, <2>10,
      <2>11, <2>12, <2>14 DEF Worker
<1>5. ASSUME NEW m \in Markets, TimePasses(m)
    PROVE (WorkersServeOpenRecords /\ StartableIsOpen /\ RecordsAreHonest)'
  BY <1>5 DEF TimePasses
<1>6. ASSUME NEW m \in Markets, Mine(m)
    PROVE (WorkersServeOpenRecords /\ StartableIsOpen /\ RecordsAreHonest)'
  BY <1>6 DEF Mine
<1>7. CASE UNCHANGED vars
  BY <1>7 DEF vars
<1>8. QED BY <1>1, <1>2, <1>3, <1>4, <1>5, <1>6, <1>7 DEF Next

(* The part of the invariant about redemptions. *)
LEMMA RedeemStep == IInv /\ [Next]_vars => (RedeemInHand /\ RedeemedMeansPaid /\
    RedemptionsAreDue)'
<1> SUFFICES ASSUME IInv, [Next]_vars
    PROVE (RedeemInHand /\ RedeemedMeansPaid /\ RedemptionsAreDue)'
  OBVIOUS
<1> USE DEF TypeOK, PlannedOrActive, Live, LivePCs, Ended, UpdateMarketStatus,
    WaitGroupCountsWorkers, IInv, WorkersServeOpenRecords, StartableIsOpen,
    RecordsAreHonest, RedeemInHand, RedeemedMeansPaid, RedemptionsAreDue,
    LoopUnchanged, WorkerUnchanged, RedeemUnchanged, MainUnchanged, worldVars, loopVars,
        workerVars, redeemVars, bounds
<1>1. CASE Loop
  <2>1. CASE LoopTick
    BY <2>1 DEF LoopTick, GetPlannedAndActiveMarkets
  <2>2. CASE LoopFetched
    BY <2>2 DEF LoopFetched, CanBeListed
  <2>9. CASE LoopHangs
    BY <2>9 DEF LoopHangs
  <2>3. CASE LoopFetchFails
    BY <2>3 DEF LoopFetchFails, EndRound, Fault
  <2>4. CASE LoopLock
    BY <2>4 DEF LoopLock
  <2>5. CASE LoopUnlock
    BY <2>5 DEF LoopUnlock, EndRound
  <2>6. CASE LoopExit
    BY <2>6 DEF LoopExit
  <2>7. ASSUME NEW m \in Markets, LoopInsert(m) \/ LoopInsertFails(m) \/ StartWorker(m)
      PROVE (RedeemInHand /\ RedeemedMeansPaid /\ RedemptionsAreDue)'
    <3>1. CASE LoopInsert(m)
      BY <3>1 DEF LoopInsert
    <3>2. CASE LoopInsertFails(m)
      BY <3>2 DEF LoopInsertFails, EndRound, UpdateMarketStatusFails, Fault
    <3>3. CASE StartWorker(m)
      BY <3>3 DEF StartWorker
    <3>4. QED BY <2>7, <3>1, <3>2, <3>3
  <2>8. QED BY <1>1, <2>1, <2>2, <2>3, <2>4, <2>5, <2>6, <2>7, <2>9 DEF Loop
<1>2. CASE RedeemWorker
  <2>1. CASE RedeemTick
    BY <2>1 DEF RedeemTick, GetResolvedMarkets
  <2>2. CASE RedeemRoundEnds
    BY <2>2 DEF RedeemRoundEnds
  <2>3. CASE RedeemFails
    BY <2>3 DEF RedeemFails, Fault
  <2>4. CASE RedeemExit
    BY <2>4 DEF RedeemExit
  <2>5. ASSUME NEW m \in Markets, RedeemNext(m) \/ RedeemSend(m) \/ RedeemMined(m) \/
      RedeemMark(m)
      PROVE (RedeemInHand /\ RedeemedMeansPaid /\ RedemptionsAreDue)'
    <3>1. CASE RedeemNext(m)
      BY <3>1 DEF RedeemNext
    <3>2. CASE RedeemSend(m)
      BY <3>2 DEF RedeemSend
    <3>3. CASE RedeemMined(m)
      BY <3>3 DEF RedeemMined
    <3>4. CASE RedeemMark(m)
      BY <3>4 DEF RedeemMark, UpdateMarketStatusFails, Fault
    <3>5. QED BY <2>5, <3>1, <3>2, <3>3, <3>4
  <2>6. QED BY <1>2, <2>1, <2>2, <2>3, <2>4, <2>5 DEF RedeemWorker
<1>3. CASE Main
  <2>1. CASE Signal
    BY <2>1 DEF Signal
  <2>2. CASE StopCancels
    BY <2>2 DEF StopCancels
  <2>3. CASE StopReturns
    BY <2>3 DEF StopReturns
  <2>4. CASE Exit
    BY <2>4 DEF Exit, ProcessEnds
  <2>5. CASE Crash
    BY <2>5 DEF Crash, ProcessEnds
  <2>6. CASE Restart
    BY <2>6 DEF Restart
  <2>7. QED BY <1>3, <2>1, <2>2, <2>3, <2>4, <2>5, <2>6 DEF Main
<1>4. ASSUME NEW m \in Markets, Worker(m)
    PROVE (RedeemInHand /\ RedeemedMeansPaid /\ RedemptionsAreDue)'
  <2>1. CASE RunLoad(m)
    BY <2>1 DEF RunLoad, Goto
  <2>2. CASE RunLoadFails(m)
    BY <2>2 DEF RunLoadFails, Fault, Goto, Return
  <2>3. CASE RunRetry(m)
    BY <2>3 DEF RunRetry, Goto
  <2>4. CASE RunOpens(m)
    BY <2>4 DEF RunOpens, Goto
  <2>5. CASE RunWaitCancelled(m)
    BY <2>5 DEF RunWaitCancelled, Goto, Return
  <2>6. CASE RunActivate(m)
    BY <2>6 DEF RunActivate, Goto, UpdateMarketStatusFails, Fault
  <2>7. CASE TickExpired(m)
    BY <2>7 DEF TickExpired, Goto
  <2>8. CASE TickOpen(m)
    BY <2>8 DEF TickOpen, Goto, Phases, Statuses
  <2>9. CASE OrderReturns(m)
    BY <2>9 DEF OrderReturns, Goto
  <2>14. CASE CallHangs(m)
    BY <2>14 DEF CallHangs, Goto
  <2>10. CASE TickResolve(m)
    BY <2>10 DEF TickResolve, Goto, UpdateMarketStatusFails, Fault
  <2>11. CASE SelectTick(m)
    BY <2>11 DEF SelectTick, Goto
  <2>12. CASE SelectClosed(m)
    BY <2>12 DEF SelectClosed, Goto, Return
  <2>13. QED BY <1>4, <2>1, <2>2, <2>3, <2>4, <2>5, <2>6, <2>7, <2>8, <2>9, <2>10,
      <2>11, <2>12, <2>14 DEF Worker
<1>5. ASSUME NEW m \in Markets, TimePasses(m)
    PROVE (RedeemInHand /\ RedeemedMeansPaid /\ RedemptionsAreDue)'
  BY <1>5 DEF TimePasses
<1>6. ASSUME NEW m \in Markets, Mine(m)
    PROVE (RedeemInHand /\ RedeemedMeansPaid /\ RedemptionsAreDue)'
  BY <1>6 DEF Mine
<1>7. CASE UNCHANGED vars
  BY <1>7 DEF vars
<1>8. QED BY <1>1, <1>2, <1>3, <1>4, <1>5, <1>6, <1>7 DEF Next

-----------------------------------------------------------------------------
(* The invariant is inductive and holds of every behaviour. *)
THEOREM Invariance == Spec => []IInv
<1>1. Init => IInv
  <2> SUFFICES ASSUME Init PROVE IInv
    OBVIOUS
  <2> USE DEF Init, VolatileInit
  <2>1. TypeOK
    BY LifecycleAssumption DEF TypeOK, Phases, Statuses, LifecycleAssumption
  <2>2. WaitGroupCountsWorkers
    <3>1. LiveSet = {} /\ StartedSet = {}
      BY DEF LiveSet, StartedSet, Live, LivePCs
    <3> QED BY <3>1, FS_EmptySet DEF WaitGroupCountsWorkers, LiveSet, StartedSet
  <2>3. WorkersServeOpenRecords /\ StartableIsOpen /\ RecordsAreHonest
    BY DEF WorkersServeOpenRecords, StartableIsOpen, RecordsAreHonest, Live, LivePCs
  <2>4. RedeemInHand /\ RedeemedMeansPaid /\ RedemptionsAreDue
    BY DEF RedeemInHand, RedeemedMeansPaid, RedemptionsAreDue
  <2> QED BY <2>1, <2>2, <2>3, <2>4 DEF IInv
<1>2. IInv /\ [Next]_vars => IInv'
  BY TypeStep, CountStep, WorkerStep, RedeemStep DEF IInv
<1> QED BY <1>1, <1>2, PTL DEF Spec

(* Type correctness. *)
THEOREM TypeCorrect == Spec => []TypeOK
<1>1. IInv => TypeOK
  BY DEF IInv
<1> QED BY <1>1, Invariance, PTL

(* No worker is started for, activates or trades a market whose end has been
   recorded, for any number of markets, faults, crashes and shutdowns. *)
THEOREM OpenRecords == Spec => []WorkersServeOpenRecords
<1>1. IInv => WorkersServeOpenRecords
  BY DEF IInv
<1> QED BY <1>1, Invariance, PTL

(* The wait group counts the goroutines that have not returned. *)
THEOREM WaitGroupExact == Spec => []WaitGroupCountsWorkers
<1>1. IInv => WaitGroupCountsWorkers
  BY DEF IInv
<1> QED BY <1>1, Invariance, PTL

(* A market marked as redeemed has been paid. *)
THEOREM RedeemedPaid == Spec => []RedeemedMeansPaid
<1>1. IInv => RedeemedMeansPaid
  BY DEF IInv
<1> QED BY <1>1, Invariance, PTL

(* A redemption is sent for resolved markets in their redemption window only. *)
THEOREM RedemptionsDue == Spec => []RedemptionsAreDue
<1>1. IInv => RedemptionsAreDue
  BY DEF IInv
<1> QED BY <1>1, Invariance, PTL

-----------------------------------------------------------------------------
(***************************************************************************)
(* MarketLifecycle implements MarketRecord.                                *)
(***************************************************************************)
(* A step that leaves status, dates and payments alone is a stutter. *)
LEMMA RecordStutters ==
  ASSUME UNCHANGED <<status, phase, paid>> PROVE UNCHANGED Record!vars
BY DEF Record!vars


(* Every step of the bot is a step of the record of one market, or none. *)
LEMMA RecordStep == IInv /\ [Next]_vars => [Record!Next]_(Record!vars)
<1> SUFFICES ASSUME IInv, [Next]_vars PROVE [Record!Next]_(Record!vars)
  OBVIOUS
<1>1. CASE Loop
  <2>1. CASE LoopTick
    BY <2>1, RecordStutters DEF LoopTick, LoopUnchanged, worldVars
  <2>2. CASE LoopFetched
    BY <2>2, RecordStutters DEF LoopFetched, LoopUnchanged, worldVars
  <2>9. CASE LoopHangs
    BY <2>9, RecordStutters DEF LoopHangs, LoopUnchanged, worldVars
  <2>3. CASE LoopFetchFails
    BY <2>3, RecordStutters DEF LoopFetchFails, LoopUnchanged, worldVars
  <2>4. CASE LoopLock
    BY <2>4, RecordStutters DEF LoopLock, LoopUnchanged, worldVars
  <2>5. CASE LoopUnlock
    BY <2>5, RecordStutters DEF LoopUnlock, LoopUnchanged, worldVars
  <2>6. CASE LoopExit
    BY <2>6, RecordStutters DEF LoopExit, LoopUnchanged, worldVars
  <2>7. ASSUME NEW m \in Markets, LoopInsert(m) \/ LoopInsertFails(m) \/ StartWorker(m)
      PROVE [Record!Next]_(Record!vars)
    <3>1. CASE LoopInsert(m)
      BY <3>1 DEF LoopInsert, LoopUnchanged, UpdateMarketStatus, worldVars, Record!Next,
          Record!Plan, Record!SetStatus, Record!vars
    <3>2. CASE LoopInsertFails(m)
      BY <3>2 DEF LoopInsertFails, LoopUnchanged, UpdateMarketStatus,
          UpdateMarketStatusFails, worldVars, Record!Next, Record!Plan,
          Record!SetStatus, Record!vars
    <3>3. CASE StartWorker(m)
      BY <3>3, RecordStutters DEF StartWorker, LoopUnchanged, worldVars
    <3>4. QED BY <2>7, <3>1, <3>2, <3>3
  <2>8. QED BY <1>1, <2>1, <2>2, <2>3, <2>4, <2>5, <2>6, <2>7, <2>9 DEF Loop
<1>2. CASE RedeemWorker
  <2>1. CASE RedeemTick
    BY <2>1, RecordStutters DEF RedeemTick, RedeemUnchanged, worldVars
  <2>2. CASE RedeemRoundEnds
    BY <2>2, RecordStutters DEF RedeemRoundEnds, RedeemUnchanged, worldVars
  <2>3. CASE RedeemFails
    BY <2>3, RecordStutters DEF RedeemFails, RedeemUnchanged, worldVars
  <2>4. CASE RedeemExit
    BY <2>4, RecordStutters DEF RedeemExit, RedeemUnchanged, worldVars
  <2>5. ASSUME NEW m \in Markets, RedeemNext(m) \/ RedeemSend(m) \/ RedeemMined(m) \/
      RedeemMark(m)
      PROVE [Record!Next]_(Record!vars)
    <3>1. CASE RedeemNext(m)
      BY <3>1, RecordStutters DEF RedeemNext, RedeemUnchanged, worldVars
    <3>2. CASE RedeemSend(m)
      BY <3>2, RecordStutters DEF RedeemSend, RedeemUnchanged, worldVars
    <3>3. CASE RedeemMined(m)
      BY <3>3, RecordStutters DEF RedeemMined, RedeemUnchanged, worldVars
    <3>4. CASE RedeemMark(m)
      BY <3>4 DEF RedeemMark, RedeemUnchanged, UpdateMarketStatus,
          UpdateMarketStatusFails, IInv, TypeOK, RedeemInHand, worldVars, Record!Next,
          Record!Redeem, Record!SetStatus, Record!vars
    <3>5. QED BY <2>5, <3>1, <3>2, <3>3, <3>4
  <2>6. QED BY <1>2, <2>1, <2>2, <2>3, <2>4, <2>5 DEF RedeemWorker
<1>3. CASE Main
  <2>1. CASE Signal
    BY <2>1, RecordStutters DEF Signal, MainUnchanged, worldVars
  <2>2. CASE StopCancels
    BY <2>2, RecordStutters DEF StopCancels, MainUnchanged, worldVars
  <2>3. CASE StopReturns
    BY <2>3, RecordStutters DEF StopReturns, MainUnchanged, worldVars
  <2>4. CASE Exit
    BY <2>4, RecordStutters DEF Exit, MainUnchanged, ProcessEnds, worldVars
  <2>5. CASE Crash
    BY <2>5, RecordStutters DEF Crash, MainUnchanged, ProcessEnds, worldVars
  <2>6. CASE Restart
    BY <2>6, RecordStutters DEF Restart, MainUnchanged, worldVars
  <2>7. QED BY <1>3, <2>1, <2>2, <2>3, <2>4, <2>5, <2>6 DEF Main
<1>4. ASSUME NEW m \in Markets, Worker(m) PROVE [Record!Next]_(Record!vars)
  <2>1. CASE RunLoad(m)
    BY <2>1, RecordStutters DEF RunLoad, WorkerUnchanged, worldVars
  <2>2. CASE RunLoadFails(m)
    BY <2>2, RecordStutters DEF RunLoadFails, WorkerUnchanged, worldVars
  <2>3. CASE RunRetry(m)
    BY <2>3, RecordStutters DEF RunRetry, WorkerUnchanged, worldVars
  <2>4. CASE RunOpens(m)
    BY <2>4, RecordStutters DEF RunOpens, WorkerUnchanged, worldVars
  <2>5. CASE RunWaitCancelled(m)
    BY <2>5, RecordStutters DEF RunWaitCancelled, WorkerUnchanged, worldVars
  <2>6. CASE RunActivate(m)
    BY <2>6 DEF RunActivate, WorkerUnchanged, Goto, UpdateMarketStatus,
        UpdateMarketStatusFails, IInv, WorkersServeOpenRecords, PlannedOrActive,
        worldVars, Record!Next, Record!Activate, Record!SetStatus, Record!vars
  <2>7. CASE TickExpired(m)
    BY <2>7, RecordStutters DEF TickExpired, WorkerUnchanged, worldVars
  <2>8. CASE TickOpen(m)
    BY <2>8, RecordStutters DEF TickOpen, WorkerUnchanged, worldVars
  <2>9. CASE OrderReturns(m)
    BY <2>9, RecordStutters DEF OrderReturns, WorkerUnchanged, worldVars
  <2>14. CASE CallHangs(m)
    BY <2>14, RecordStutters DEF CallHangs, WorkerUnchanged, worldVars
  <2>10. CASE TickResolve(m)
    BY <2>10 DEF TickResolve, WorkerUnchanged, Goto, UpdateMarketStatus,
        UpdateMarketStatusFails, IInv, RecordsAreHonest, Ended, Live, LivePCs,
        worldVars, Record!Next, Record!Resolve, Record!SetStatus, Record!vars
  <2>11. CASE SelectTick(m)
    BY <2>11, RecordStutters DEF SelectTick, WorkerUnchanged, worldVars
  <2>12. CASE SelectClosed(m)
    BY <2>12, RecordStutters DEF SelectClosed, WorkerUnchanged, worldVars
  <2>13. QED BY <1>4, <2>1, <2>2, <2>3, <2>4, <2>5, <2>6, <2>7, <2>8, <2>9, <2>10,
      <2>11, <2>12, <2>14 DEF Worker
<1>5. ASSUME NEW m \in Markets, TimePasses(m) PROVE [Record!Next]_(Record!vars)
  <2>1. phase' = [phase EXCEPT ![m] = phase'[m]] /\ phase'[m] \in Phases
    BY <1>5 DEF TimePasses, IInv, TypeOK, Phases
  <2>2. UNCHANGED <<status, paid>>
    BY <1>5 DEF TimePasses
  <2>3. CASE phase[m] = "upcoming"
    <3>1. phase'[m] = "open"
      BY <1>5, <2>3 DEF TimePasses, IInv, TypeOK
    <3> QED BY <2>1, <2>2, <2>3, <3>1 DEF IInv, TypeOK, Record!vars
  <2>4. CASE phase[m] # "upcoming"
    <3>1. phase'[m] \in {"expired", "redeemable"}
      BY <1>5, <2>4 DEF TimePasses, IInv, TypeOK, Phases
    <3>2. Record!End(m)
      BY <2>1, <2>2, <3>1 DEF IInv, TypeOK, Record!End
    <3> QED BY <3>2 DEF Record!Next
  <2> QED BY <2>3, <2>4
<1>6. ASSUME NEW m \in Markets, Mine(m) PROVE [Record!Next]_(Record!vars)
  <2>1. Record!Pay(m)
    BY <1>6 DEF Mine, IInv, RedemptionsAreDue, Record!Pay
  <2> QED BY <2>1 DEF Record!Next
<1>7. CASE UNCHANGED vars
  BY <1>7, RecordStutters DEF vars, worldVars
<1>8. QED BY <1>1, <1>2, <1>3, <1>4, <1>5, <1>6, <1>7 DEF Next

(* The bot implements the record: the status column of every market moves as
   MarketRecord promises. *)
THEOREM ImplementsRecord == Spec => RecordSpec
<1>1. Init => Record!Init
  <2> SUFFICES ASSUME Init PROVE Record!Init
    OBVIOUS
  <2>1. \A m \in Markets : (phase[m] \in {"expired", "redeemable"}) = FALSE
    BY DEF Init
  <2>2. [m \in Markets |-> phase[m] \in {"expired", "redeemable"}] = [m \in Markets |-> FALSE]
    BY <2>1
  <2> QED BY <2>2 DEF Init, Record!Init
<1> QED BY <1>1, RecordStep, Invariance, PTL DEF Spec, RecordSpec, Record!Spec

-----------------------------------------------------------------------------
(***************************************************************************)
(* No market is left behind.                                               *)
(***************************************************************************)
(* A market with an entry in marketWorkers has a row, only a worker that was
   started is closed, and the entries end with the process. *)
EntriesInv ==
  /\ \A m \in marketWorkers : status[m] # "none"
  /\ \A m \in Markets : closed[m] => m \in marketWorkers
  /\ mainPC = "exited" => marketWorkers = {}

LEMMA EntriesStep ==
  ASSUME IInv, EntriesInv, [Next]_vars
  PROVE  EntriesInv' /\ \A m \in Markets : Stranded(m)' => Stranded(m) \/ faults' # faults
<1> DEFINE Goal == EntriesInv' /\ \A m \in Markets : Stranded(m)' => Stranded(m) \/ faults' # faults
<1> USE DEF EntriesInv, Stranded, TypeOK, PlannedOrActive, Live, LivePCs, UpdateMarketStatus, IInv,
    WorkersServeOpenRecords, StartableIsOpen, WaitGroupCountsWorkers, Cancelled, Up,
    LoopUnchanged, WorkerUnchanged, RedeemUnchanged, MainUnchanged, worldVars, loopVars,
        workerVars, redeemVars, bounds
<1>1. CASE Loop
  <2>1. CASE LoopTick
    BY <2>1 DEF LoopTick
  <2>2. CASE LoopFetched
    BY <2>2 DEF LoopFetched
  <2>3. CASE LoopHangs
    BY <2>3 DEF LoopHangs
  <2>4. CASE LoopFetchFails
    BY <2>4 DEF LoopFetchFails, EndRound, Fault
  <2>5. CASE LoopLock
    BY <2>5 DEF LoopLock
  <2>6. CASE LoopUnlock
    BY <2>6 DEF LoopUnlock, EndRound
  <2>7. CASE LoopExit
    BY <2>7 DEF LoopExit
  <2>8. ASSUME NEW m \in Markets, LoopInsert(m) \/ LoopInsertFails(m) \/ StartWorker(m)
        PROVE  Goal
    <3>1. CASE LoopInsert(m)
      BY <3>1 DEF LoopInsert
    <3>2. CASE LoopInsertFails(m)
      BY <3>2 DEF LoopInsertFails, EndRound, UpdateMarketStatusFails, Fault
    <3>3. CASE StartWorker(m)
      BY <3>3 DEF StartWorker
    <3>4. QED BY <2>8, <3>1, <3>2, <3>3
  <2>9. QED BY <1>1, <2>1, <2>2, <2>3, <2>4, <2>5, <2>6, <2>7, <2>8 DEF Loop
<1>2. CASE RedeemWorker
  <2>1. CASE RedeemTick
    BY <2>1 DEF RedeemTick
  <2>2. CASE RedeemRoundEnds
    BY <2>2 DEF RedeemRoundEnds
  <2>3. CASE RedeemFails
    BY <2>3 DEF RedeemFails, Fault
  <2>4. CASE RedeemExit
    BY <2>4 DEF RedeemExit
  <2>5. ASSUME NEW m \in Markets, RedeemNext(m) \/ RedeemSend(m) \/ RedeemMined(m) \/ RedeemMark(m)
        PROVE  Goal
    <3>1. CASE RedeemNext(m)
      BY <3>1 DEF RedeemNext
    <3>2. CASE RedeemSend(m)
      BY <3>2 DEF RedeemSend
    <3>3. CASE RedeemMined(m)
      BY <3>3 DEF RedeemMined
    <3>4. CASE RedeemMark(m)
      BY <3>4 DEF RedeemMark, UpdateMarketStatusFails, Fault
    <3>5. QED BY <2>5, <3>1, <3>2, <3>3, <3>4
  <2>6. QED BY <1>2, <2>1, <2>2, <2>3, <2>4, <2>5 DEF RedeemWorker
<1>3. CASE Main
  BY <1>3 DEF Main, Signal, StopCancels, StopReturns, Exit, Crash, ProcessEnds, Restart
<1>4. ASSUME NEW m \in Markets, Worker(m)
      PROVE  Goal
  <2>1. CASE RunLoad(m)
    BY <2>1 DEF RunLoad, Goto
  <2>2. CASE RunLoadFails(m)
    BY <2>2 DEF RunLoadFails, Fault, Goto, Return
  <2>3. CASE RunRetry(m)
    BY <2>3 DEF RunRetry, Goto
  <2>4. CASE RunOpens(m)
    BY <2>4 DEF RunOpens, Goto
  <2>5. CASE RunWaitCancelled(m)
    BY <2>5 DEF RunWaitCancelled, Goto, Return
  <2>6. CASE RunActivate(m)
    BY <2>6 DEF RunActivate, Goto, UpdateMarketStatusFails, Fault
  <2>7. CASE TickExpired(m)
    BY <2>7 DEF TickExpired, Goto
  <2>8. CASE TickOpen(m)
    BY <2>8 DEF TickOpen, Goto
  <2>9. CASE OrderReturns(m)
    BY <2>9 DEF OrderReturns, Goto
  <2>10. CASE CallHangs(m)
    BY <2>10 DEF CallHangs, Goto, Fault
  <2>11. CASE TickResolve(m)
    BY <2>11 DEF TickResolve, Goto, UpdateMarketStatusFails, Fault
  <2>12. CASE SelectTick(m)
    BY <2>12 DEF SelectTick, Goto
  <2>13. CASE SelectClosed(m)
    BY <2>13 DEF SelectClosed, Goto, Return
  <2>14. QED BY <1>4, <2>1, <2>2, <2>3, <2>4, <2>5, <2>6, <2>7, <2>8, <2>9, <2>10,
      <2>11, <2>12, <2>13 DEF Worker
<1>5. ASSUME NEW m \in Markets, TimePasses(m) \/ Mine(m)
      PROVE  Goal
  BY <1>5 DEF TimePasses, Mine
<1>6. CASE UNCHANGED vars
  BY <1>6 DEF vars
<1>7. QED BY <1>1, <1>2, <1>3, <1>4, <1>5, <1>6 DEF Next

(* A stored market is stranded by a failing call only, for any number of
   markets, faults, crashes and shutdowns. *)
THEOREM FaultsStrand == Spec => OnlyFaultsStrand
<1>1. Init => EntriesInv
  BY DEF Init, VolatileInit, EntriesInv
<1>2. IInv /\ EntriesInv /\ [Next]_vars => EntriesInv'
  BY EntriesStep
<1>3. IInv /\ EntriesInv /\ [Next]_vars =>
        [\A m \in Markets : Stranded(m)' => Stranded(m) \/ faults' # faults]_vars
  BY EntriesStep
<1> QED BY <1>1, <1>2, <1>3, Invariance, PTL DEF Spec, OnlyFaultsStrand

-----------------------------------------------------------------------------
(* When Wait returns, every worker has returned: what Stop reports is true of
   the moment it stops to wait, if not of the one in which it reports. *)
THEOREM WaitMeansDone ==
  Spec => [][mainPC = "waiting" /\ mainPC' = "closed" => \A m \in Markets : ~Live(m)]_vars
<1>1. IInv /\ [Next]_vars =>
        [mainPC = "waiting" /\ mainPC' = "closed" => \A m \in Markets : ~Live(m)]_vars
  <2> SUFFICES ASSUME IInv, Next, mainPC = "waiting", mainPC' = "closed"
               PROVE  LiveSet = {}
    BY DEF LiveSet
  <2>1. wgMarket = 0
    <3>1. CASE Loop
      BY <3>1 DEF Loop, LoopTick, LoopFetched, LoopHangs, LoopFetchFails, LoopLock, LoopUnlock,
          LoopExit, LoopInsert, LoopInsertFails, StartWorker, LoopUnchanged
    <3>2. CASE RedeemWorker
      BY <3>2 DEF RedeemWorker, RedeemTick, RedeemRoundEnds, RedeemFails, RedeemExit, RedeemNext,
          RedeemSend, RedeemMined, RedeemMark, RedeemUnchanged
    <3>3. CASE Main
      BY <3>3 DEF Main, Signal, StopCancels, StopReturns, Exit, Crash, ProcessEnds, Restart
    <3>4. CASE \E m \in Markets : TimePasses(m) \/ Mine(m)
      BY <3>4 DEF TimePasses, Mine
    <3>5. CASE \E m \in Markets : Worker(m)
      BY <3>5 DEF Worker, RunLoad, RunLoadFails, RunRetry, RunOpens, RunWaitCancelled, RunActivate,
          TickExpired, TickOpen, OrderReturns, CallHangs, TickResolve, SelectTick, SelectClosed,
          WorkerUnchanged
    <3> QED BY <3>1, <3>2, <3>3, <3>4, <3>5 DEF Next
  <2>2. Cardinality(LiveSet) = 0
    BY <2>1 DEF IInv, WaitGroupCountsWorkers, LiveSet
  <2> QED BY <2>2, LiveFinite, FS_EmptySet
<1> QED BY <1>1, Invariance, PTL DEF Spec

-----------------------------------------------------------------------------
(* What is proved of MarketRecord alone holds here by the refinement: Facts is
   the record of this module with its theorems. *)
Facts == INSTANCE MarketRecord_proofs WITH
            ended <- [m \in Markets |-> phase[m] \in {"expired", "redeemable"}]

LEMMA RecordHasFacts == Record!Spec => Facts!Spec
<1>1. Record!Init => Facts!Init
  BY DEF Record!Init, Facts!Init
<1>2. [Record!Next]_(Record!vars) => [Facts!Next]_(Facts!vars)
  BY DEF Record!vars, Facts!vars, Record!Next, Facts!Next, Record!Plan, Facts!Plan, Record!Activate,
      Facts!Activate, Record!Resolve, Facts!Resolve, Record!Pay, Facts!Pay, Record!End, Facts!End,
      Record!Redeem, Facts!Redeem, Record!SetStatus, Facts!SetStatus
<1> QED BY <1>1, <1>2, PTL DEF Record!Spec, Facts!Spec

(* Whatever is interleaved or fails, a row that says resolved or redeemed is of
   a market that is over, and a market is paid only when its row says one of
   the two: what GetResolvedMarkets and a reader of the table build on
   (market.go:31-59). *)
THEOREM RowsAreTrue == Spec => []Record!Truthful
<1>1. Facts!Spec => []Facts!Truthful
  BY Facts!RowsTellTheTruth
<1>2. Facts!Truthful => Record!Truthful
  BY DEF Record!Truthful, Facts!Truthful
<1>3. Spec => Record!Spec
  BY ImplementsRecord DEF RecordSpec
<1> QED BY <1>1, <1>2, <1>3, RecordHasFacts, PTL

(* A row stays, and a market read as resolved or redeemed is never planned or
   active again, so no later process trades it (market.go:61-83). *)
THEOREM RowsAreLasting == Spec => Record!Lasting
<1> DEFINE Lasts ==
      \A m \in Markets :
        /\ status[m] # "none" => status'[m] # "none"
        /\ status[m] \in {"resolved", "redeemed"} => status'[m] \in {"resolved", "redeemed"}
<1>1. Facts!Spec => Facts!Lasting
  BY Facts!RowsLast
<1>2. [Lasts]_(Facts!vars) => [Lasts]_(Record!vars)
  BY DEF Facts!vars, Record!vars
<1>3. Facts!Lasting => Record!Lasting
  BY <1>2, PTL DEF Facts!Lasting, Record!Lasting
<1>4. Spec => Record!Spec
  BY ImplementsRecord DEF RecordSpec
<1> QED BY <1>1, <1>3, <1>4, RecordHasFacts, PTL
=============================================================================
