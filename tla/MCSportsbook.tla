---------------------------- MODULE MCSportsbook ----------------------------
(* The instances of Sportsbook that TLC checks. *)
EXTENDS Sportsbook, TLC

WorkerSymmetry == Permutations(Workers)

\* Bob was referred by ann, who earns a commission that needs rounding.
AnnParent == [u \in Users |-> IF u = "ann" THEN {"bob"} ELSE {}]

Half == [u \in Users |-> IF u = "ann" THEN 50 ELSE 0]

Four == [u \in Users |-> 4]

Three == [u \in Users |-> 3]

Bets ==
  {[user |-> "bob", match |-> "m1", selection |-> "home", odds |-> 2, stake |-> 3]}

\* A parlay over both matches; of four units bob affords it and the bet, of three
\* only one of them.
Parlays ==
  {[user |-> "bob", odds |-> 4, stake |-> 1,
    legs |-> [m \in {"m1", "m2"} |-> "home"]]}

=============================================================================
