----------------------------- MODULE MarketRecord -----------------------------
(***************************************************************************)
(* What the bot promises about the row a market has in the markets table,  *)
(* whatever its goroutines, the database and the process go through: the   *)
(* status values of model/market.go in their order, each reached for a     *)
(* reason that a reader of the table may rely on.  MarketLifecycle         *)
(* implements it.                                                          *)
(***************************************************************************)
CONSTANT Markets

VARIABLES
  status,   \* the status column, "none" while there is no row
  ended,    \* is the market past its end date?
  paid      \* has the position in the market been redeemed on the chain?

vars == <<status, ended, paid>>

Init ==
  /\ status = [m \in Markets |-> "none"]
  /\ ended = [m \in Markets |-> FALSE]
  /\ paid = [m \in Markets |-> FALSE]

SetStatus(m, s) == status' = [status EXCEPT ![m] = s] /\ UNCHANGED <<ended, paid>>

Plan(m) == status[m] = "none" /\ SetStatus(m, "planned")

Activate(m) == status[m] \in {"planned", "active"} /\ SetStatus(m, "active")

End(m) ==
  /\ ended' = [ended EXCEPT ![m] = TRUE]
  /\ UNCHANGED <<status, paid>>

\* The one step back the record may take: a last tick of the worker, taken
\* after the market was redeemed, resolves it again.
Resolve(m) == ended[m] /\ status[m] # "none" /\ SetStatus(m, "resolved")

Pay(m) ==
  /\ status[m] \in {"resolved", "redeemed"}
  /\ paid' = [paid EXCEPT ![m] = TRUE]
  /\ UNCHANGED <<status, ended>>

Redeem(m) == status[m] = "resolved" /\ paid[m] /\ SetStatus(m, "redeemed")

Next ==
  \E m \in Markets :
    Plan(m) \/ Activate(m) \/ End(m) \/ Resolve(m) \/ Pay(m) \/ Redeem(m)

Spec == Init /\ [][Next]_vars

-----------------------------------------------------------------------------
\* What a reader of the row may conclude from it, whoever wrote it: a market
\* that is resolved or redeemed is over, one that is redeemed was paid, and
\* one that was paid is not read as planned or active (model/market.go:8-12).
Truthful ==
  \A m \in Markets :
    /\ status[m] \in {"resolved", "redeemed"} => ended[m]
    /\ status[m] = "redeemed" => paid[m]
    /\ paid[m] => status[m] \in {"resolved", "redeemed"}

\* What a reader may rely on later: a row stays, and a market that was read as
\* resolved or redeemed is never planned or active again.
Lasting ==
  [][\A m \in Markets :
       /\ status[m] # "none" => status'[m] # "none"
       /\ status[m] \in {"resolved", "redeemed"} => status'[m] \in {"resolved", "redeemed"}]_vars
=============================================================================
