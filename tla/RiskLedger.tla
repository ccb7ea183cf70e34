------------------------------- MODULE RiskLedger -------------------------------
(***************************************************************************)
(* What the trading of a market promises about risk, whatever quotes,      *)
(* signals and clocks make it decide: at most one order is on offer; it is *)
(* the rounded form of one that, added to the book as it is, stays below   *)
(* the limit; the exchange matches it once at most and for its size at     *)
(* most; it is booked once at most, as it was sent, and only if it was     *)
(* answered; nothing else moves the book, but for a process that forgets   *)
(* it.  Trading implements it.                                             *)
(***************************************************************************)
EXTENDS Strategy

VARIABLES
  book,    \* the position the process believes in
  offer,   \* the order it has sent and has no answer to: one or none
  held     \* the position at the exchange

ledger == <<book, offer, held>>

Init == book = Empty /\ offer = {} /\ held = Empty

\* The simulation approved the exact order o is the rounded form of.
Approved(o) ==
  /\ Risk(book) <= RiskLimit
  /\ SimulateNewRisk(book, o.up, o.raw, o.limit) < RiskLimit
  /\ o.size = Fixed2(o.raw) /\ o.price = Fixed2(o.limit)

Offer ==
  /\ offer = {}
  /\ \E o \in offer' : offer' = {o} /\ Approved(o)
  /\ UNCHANGED <<book, held>>

\* The exchange matches the whole of o or a part of it.
Match(o) ==
  LET f == IF o.up THEN held'.qUp - held.qUp ELSE held'.qDown - held.qDown
  IN  f \in 0 .. o.size /\ held' = Bought(held, o.up, f, o.price)

\* The answer: matched and booked.
Fill(o) ==
  /\ Match(o)
  /\ book' = Bought(book, o.up, o.size, o.price)

\* An error, or an answer that was lost: perhaps matched, and not booked.
Fail(o) ==
  /\ Match(o) \/ UNCHANGED held
  /\ UNCHANGED book

Settle == offer' = {} /\ \E o \in offer : Fill(o) \/ Fail(o)

\* The process dies, perhaps with an order under way.
Forget ==
  /\ offer' = {} /\ book' = Empty
  /\ UNCHANGED held \/ \E o \in offer : Match(o)

Next == Offer \/ Settle \/ Forget

Spec == Init /\ [][Next]_ledger
=============================================================================
