----------------------------- MODULE MCCashback -----------------------------
(* The instances of Cashback that TLC checks. *)
EXTENDS Cashback

\* Odd stakes, so that half of one is rounded.
Stakes == [w \in Bets \cup Orders |->
             CASE w = "b1" -> 60 [] w = "b2" -> 5 [] w = "o1" -> 30
               [] w = "o2" -> 40]

\* Half of a loss, once or twice wagered, to keep or to give back; or nothing.
Programs ==
  {[enabled |-> TRUE, rate |-> 50, multiplier |-> 100, deduct |-> TRUE],
   [enabled |-> FALSE, rate |-> 50, multiplier |-> 200, deduct |-> FALSE]}

\* The player's own terms: those of the program, or free of wagering.
Terms ==
  {[enabled |-> Inherit, rate |-> Inherit, multiplier |-> Inherit],
   [enabled |-> TRUE, rate |-> Inherit, multiplier |-> 0],
   [enabled |-> TRUE, rate |-> 10, multiplier |-> Inherit]}

=============================================================================
