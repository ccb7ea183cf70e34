-------------------------- MODULE MarketRecord_proofs --------------------------
(***************************************************************************)
(* What follows from MarketRecord alone, and so holds of every module that *)
(* implements it.                                                          *)
(***************************************************************************)
EXTENDS MarketRecord, TLAPS

Rows ==
  /\ status \in [Markets -> {"none", "planned", "active", "resolved", "redeemed"}]
  /\ ended \in [Markets -> BOOLEAN]
  /\ paid \in [Markets -> BOOLEAN]

LEMMA RowsStep ==
  ASSUME Rows, Truthful, [Next]_vars
  PROVE  Rows' /\ Truthful'
PROOF
  <1> USE DEF Rows, Truthful, SetStatus
  <1>1. ASSUME NEW m \in Markets, Plan(m)
        PROVE  Rows' /\ Truthful'
    BY <1>1 DEF Plan
  <1>2. ASSUME NEW m \in Markets, Activate(m)
        PROVE  Rows' /\ Truthful'
    BY <1>2 DEF Activate
  <1>3. ASSUME NEW m \in Markets, End(m)
        PROVE  Rows' /\ Truthful'
    BY <1>3 DEF End
  <1>4. ASSUME NEW m \in Markets, Resolve(m)
        PROVE  Rows' /\ Truthful'
    BY <1>4 DEF Resolve
  <1>5. ASSUME NEW m \in Markets, Pay(m)
        PROVE  Rows' /\ Truthful'
    BY <1>5 DEF Pay
  <1>6. ASSUME NEW m \in Markets, Redeem(m)
        PROVE  Rows' /\ Truthful'
    BY <1>6 DEF Redeem
  <1>7. CASE UNCHANGED vars
    BY <1>7 DEF vars
  <1> QED
    BY <1>1, <1>2, <1>3, <1>4, <1>5, <1>6, <1>7 DEF Next

LEMMA RowsInit == Init => Rows /\ Truthful
PROOF
  BY DEF Init, Rows, Truthful

\* The status column tells the truth about the market.
THEOREM RowsTellTheTruth ==
  Spec => []Truthful
PROOF
  <1>1. Rows /\ Truthful /\ [Next]_vars => (Rows /\ Truthful)'
    BY RowsStep
  <1> QED
    BY <1>1, RowsInit, PTL DEF Spec

\* What it has said once it does not take back.
THEOREM RowsLast ==
  Spec => Lasting
PROOF
  <1> DEFINE Kept == \A m \in Markets :
               /\ status[m] # "none" => status'[m] # "none"
               /\ status[m] \in {"resolved", "redeemed"} => status'[m] \in {"resolved", "redeemed"}
  <1>1. Rows /\ Truthful /\ [Next]_vars => (Rows /\ Truthful)'
    BY RowsStep
  <1>2. Rows /\ [Next]_vars => [Kept]_vars
    <2> SUFFICES ASSUME Rows, NEW m \in Markets,
                        Plan(m) \/ Activate(m) \/ End(m) \/ Resolve(m) \/ Pay(m) \/ Redeem(m)
                 PROVE  Kept
      BY DEF Next
    <2> QED
      BY DEF Rows, Plan, Activate, End, Resolve, Pay, Redeem, SetStatus
  <1> QED
    BY <1>1, <1>2, RowsInit, PTL DEF Spec, Lasting
=============================================================================
