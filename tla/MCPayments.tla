----------------------------- MODULE MCPayments -----------------------------
(* The instances of Payments that TLC checks. *)
EXTENDS Payments

\* Ann's wallet is in rupees: 1.01 dollars are 2.52 at a rate of 2.50 (a half is
\* rounded to even) and 3.36 at 3.33.
Asked == {[user |-> "ann", usd |-> 101]}

Wanted == {[user |-> "ann", usd |-> 101]}

AnnHas == [u \in Users |-> 400]

AnnHolds == [u \in Users |-> 100]

\* One package for a first deposit, one for two.
Thresholds == [k \in Packages |-> IF k = "silver" THEN 250 ELSE 500]

Bonuses == [k \in Packages |-> IF k = "silver" THEN 1 ELSE 2]

=============================================================================
