------------------------------ MODULE MCTrading ------------------------------
(* Small instances of Trading for TLC: the parameters of config.example.yaml, *)
(* three digits after the point.                                              *)
EXTENDS Trading

MCPowAlpha == [x \in 0 .. Unit |-> (x * x) \div Unit]

Quote(bidUp, askUp, bidDown, askDown) ==
  [bidUp |-> bidUp, askUp |-> askUp, bidDown |-> bidDown, askDown |-> askDown]

\* An even market, one that leans to a side, one without a spread, and one
\* where nobody trades the losing side any more.
MCQuotes == {Quote(500, 520, 480, 500), Quote(640, 665, 335, 360),
             Quote(270, 270, 730, 730), Quote(0, 0, 980, 990)}

=============================================================================
