------------------------------ MODULE MCHouse ------------------------------
(* The instances of House that TLC checks. *)
EXTENDS House, TLC

\* Two quotes of a market of two outcomes.
TwoQuotes ==
  {[s \in {"home", "away"} |-> IF s = "home" THEN 180 ELSE 210],
   [s \in {"home", "away"} |-> IF s = "home" THEN 140 ELSE 330]}

OneQuote == {[s \in {"home", "away"} |-> IF s = "home" THEN 180 ELSE 210]}

Plain ==
  [back |-> "api", backValue |-> [s \in Selections |-> None],
   lay |-> "api_lay", delta |-> None, layValue |-> [s \in Selections |-> None]]

\* A lay below its back.
Below == [Plain EXCEPT !.lay = "relative", !.delta = -5]

On == [realtime |-> TRUE, house |-> TRUE]

OnOff == {On, [On EXCEPT !.house = FALSE]}

AlwaysOn == {On}

\* None leaves the other level's value.
Shifts == {None, 0, 14}

PlainOnly == {Plain}

BelowOnly == {Below}

=============================================================================
