------------------------------ MODULE MCCasino ------------------------------
(* The instances of Casino that TLC checks. *)
EXTENDS Casino

\* A dollar is 2.50 or 3.33 rupees: the wallet's 400 cover one launch of a
\* dollar, and a bet beside it only sometimes.
OneDollar == [l \in Launches |-> 100]

\* The first round won half a dollar, the second nothing.
Wins == [r \in Rounds |-> IF r = 1 THEN 50 ELSE 0]

\* Round 1 is a bet that wins or is rolled back, round 2 a free one that wins.
TwoRounds ==
  [c \in Calls |->
     CASE c = "bet"  -> [round |-> 1, kind |-> "debit", usd |-> 101]
       [] c = "win"  -> [round |-> 1, kind |-> "credit", usd |-> 40]
       [] c = "undo" -> [round |-> 1, kind |-> "rollback", usd |-> 101]
       [] c = "free" -> [round |-> 2, kind |-> "bonus", usd |-> 20]
       [] c = "gift" -> [round |-> 2, kind |-> "credit", usd |-> 30]]

Stakes == [b \in Bets |-> 300]

=============================================================================
