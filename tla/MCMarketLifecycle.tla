-------------------------- MODULE MCMarketLifecycle --------------------------
(* Small instances of MarketLifecycle for TLC. *)
EXTENDS MarketLifecycle, TLC

\* The markets are interchangeable when all of them, or none, can be listed again.
Symmetry == Permutations(Markets)
=============================================================================
