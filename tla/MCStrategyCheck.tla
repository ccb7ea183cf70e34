--------------------------- MODULE MCStrategyCheck ---------------------------
(* The arguments of StrategyCheck for TLC. *)
EXTENDS StrategyCheck

\* alpha = 2
MCPowAlpha == [x \in 0 .. Unit |-> (x * x) \div Unit]
=============================================================================
