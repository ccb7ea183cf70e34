------------------------------ MODULE MCDiscovery ------------------------------
(* A small instance of Discovery for TLC. *)
EXTENDS Discovery, TLC

CONSTANTS m1, m2, m3

\* A slug with two names, one with none and a market that cannot be traded.
MCNames == (m1 :> {"ETH", "SOL"}) @@ (m2 :> {}) @@ (m3 :> {"BTC"})

MCConfigs == {{"ETH"}, {"BTC", "SOL"}}
=============================================================================
