----------------------------- MODULE MCRedemption -----------------------------
(* Small instances of Redemption for TLC. *)
EXTENDS Redemption

\* A node that suggests one price, and one whose price moves by half.
SteadyPrices == {100}
MovingPrices == {100, 150}
=============================================================================
